----------------------------- MODULE ShellProofs -----------------------------
(***************************************************************************)
(* The shell for every screen, buffer, spelling of the commands and        *)
(* capacity of the audit ring: its types, the prompt, the task of a        *)
(* utility and the filter of secaudit, whatever keys come between two      *)
(* steps of the main loop.                                                 *)
(***************************************************************************)
EXTENDS Shell, SecurityAuditProofs

(* The row leaves the screen only between the report of a utility and the wrap, and
   the row in the register is one the shell wrote on. *)
RowInv ==
    /\ keyboard_row = Rows => pc \in {"leave", "destroy", "done", "wrap", "wrap.store"}
    /\ pc = "report.store" => row < Rows

(* Where the main loop may hold a task: from its launch to its destruction.  Only a task
   that exists is current, and it has been left when it is destroyed. *)
TaskInv ==
    /\ pc = "user" => task_state = "running" /\ current_task = "user"
    /\ pc = "destroy" => current_task = "none"
    /\ task_state = "none" => current_task = "none"
    /\ pc \notin {"user", "report", "report.store", "leave", "destroy", "fault"}
           => task_state = "none"

(* A word of the filter that has been read is stale only if the request for the newer
   one is pending. *)
FilterInv ==
    ~ requested["secaudit"] =>
        /\ pc = "argument.value" => argument.type = filter.type
        /\ pc = "argument.type" => argument.value = filter.value
        /\ pc \notin {"argument", "argument.value", "argument.type"} => argument = filter

ShellInv == ShellTypeOK /\ AuditTypeOK /\ RowInv /\ TaskInv /\ FilterInv

-----------------------------------------------------------------------------
(* The constants as the provers need them. *)
LEMMA ShellConstants ==
    /\ KEYBOARD_BUFFER_SIZE \in Nat \ {0}
    /\ Prompt \in Nat /\ Width \in Nat /\ Prompt < Width
    /\ FirstRow \in Nat /\ Rows \in Nat /\ FirstRow < Rows
    /\ N \in Nat \ {0} /\ SeqModulus \in Nat \ {0}
  BY ShellAssumption, AuditAssumption DEF N

(* The boot leaves a well-formed ring. *)
LEMMA BootRing ==
    ASSUME ShellInit
    PROVE  AuditTypeOK
  <1>1. /\ Len(BootResults) \in 0 .. N
        /\ \A i \in 1 .. Len(BootResults) : BootResults[i] \in Results
    BY ShellAssumption, ShellConstants
  <1>2. ASSUME NEW p \in 0 .. N - 1, p < Len(BootResults)
        PROVE  BootEvent(p + 1) \in security_audit_event_t
    <2>1. p + 1 \in 1 .. Len(BootResults)
      BY <1>1, <1>2, ShellConstants
    <2>2. (p + 1) % SeqModulus \in 0 .. SeqModulus - 1
      BY ShellConstants, ModRange
    <2>3. QED
      BY <1>1, <2>1, <2>2
      DEF BootEvent, security_audit_event_t, Privileges, SECURITY_PRIVILEGE_USER,
          SECURITY_OPERATION_RESOURCE_ACCESS
  <1>3. NoEvent \in security_audit_event_t
    BY ShellConstants
    DEF NoEvent, security_audit_event_t, Privileges, Results, SECURITY_DENIED,
        SECURITY_PRIVILEGE_KERNEL
  <1>4. audit_events \in [0 .. N - 1 -> security_audit_event_t]
    BY <1>2, <1>3 DEF ShellInit
  <1>5. audit_sequence \in 0 .. SeqModulus - 1
    <2>1. audit_sequence = Len(BootResults) % SeqModulus
      BY DEF ShellInit
    <2>2. Len(BootResults) \in Nat
      BY <1>1, ShellConstants
    <2>3. QED
      BY <2>1, <2>2, ShellConstants, ModRange
  <1>6. QED
    BY <1>1, <1>4, <1>5, ShellConstants DEF ShellInit, AuditTypeOK

LEMMA ShellInitInv == ShellInit => ShellInv
  <1> SUFFICES ASSUME ShellInit PROVE ShellInv
    OBVIOUS
  <1>0. filesystem \in BOOLEAN
    BY ShellAssumption DEF ShellInit
  <1>1. NoFilter \in [type : 0 .. 1, value : Results]
    BY DEF NoFilter, Results, SECURITY_DENIED, SECURITY_AUDIT_FILTER_ALL
  <1>2. /\ filter = NoFilter /\ argument = NoFilter /\ asked = {NoFilter}
        /\ keyboard_buffer = [i \in 0 .. KEYBOARD_BUFFER_SIZE - 1 |-> Nul]
        /\ requested = [u \in Utilities |-> FALSE]
        /\ keyboard_index = 0 /\ keyboard_column = Prompt /\ keyboard_row = FirstRow
        /\ row = FirstRow /\ shift_pressed = FALSE
        /\ pc = "secinfo" /\ utility = "secinfo"
        /\ task_state = "none" /\ current_task = "none" /\ stranded = FALSE
        /\ program = "none" /\ read_index = 0 /\ read_count = 0
    BY DEF ShellInit
  <1>3. ShellTypeOK
    <2>1. /\ keyboard_buffer \in [0 .. KEYBOARD_BUFFER_SIZE - 1 -> Chars]
          /\ requested \in [Utilities -> BOOLEAN]
      BY <1>2 DEF Chars
    <2>2. /\ keyboard_index \in 0 .. KEYBOARD_BUFFER_SIZE - 1
          /\ keyboard_column \in Prompt .. Width
          /\ keyboard_row \in FirstRow .. Rows /\ row \in FirstRow .. Rows
          /\ read_index \in 0 .. N /\ read_count \in 0 .. N
      BY <1>2, ShellConstants
    <2>3. asked \subseteq [type : 0 .. 1, value : Results]
      BY <1>1, <1>2
    <2>4. pc \in Utilities /\ utility \in Utilities
      BY <1>2 DEF Utilities
    <2>5. QED
      BY <1>0, <1>1, <1>2, <2>1, <2>2, <2>3, <2>4 DEF ShellTypeOK
  <1>4. RowInv /\ TaskInv /\ FilterInv
    BY <1>2, ShellConstants DEF RowInv, TaskInv, FilterInv, Utilities
  <1>5. QED
    BY <1>3, <1>4, BootRing DEF ShellInv

-----------------------------------------------------------------------------
(* The keyboard interrupt. *)

(* Every row a command leaves the cursor on is a row of the screen. *)
LEMMA OnScreenRow ==
    ASSUME NEW r \in Nat, FirstRow <= r
    PROVE  OnScreen(r) \in FirstRow .. Rows /\ OnScreen(r) # Rows
  BY ShellConstants DEF OnScreen

(* What an interrupt may do to the main loop: end its hlt. *)
LEMMA WakeInv ==
    ASSUME ShellTypeOK, Wake
    PROVE  /\ pc' \in Utilities \cup
                 {"halt", "halted", "argument", "argument.value", "argument.type",
                  "prepare", "user", "report", "report.store", "leave", "destroy", "done",
                  "wrap", "wrap.store", "prompt", "fault"}
           /\ pc' = pc \/ (pc = "halted" /\ pc' = "secinfo")
  BY DEF ShellTypeOK, Wake, Utilities

(* What a key leaves true of the line and of the requests. *)
KeyKeeps ==
    /\ keyboard_buffer' \in [0 .. KEYBOARD_BUFFER_SIZE - 1 -> Chars]
    /\ keyboard_index' \in 0 .. KEYBOARD_BUFFER_SIZE - 1
    /\ keyboard_column' \in Prompt .. Width
    /\ keyboard_row' \in FirstRow .. Rows
    /\ keyboard_row' = keyboard_row \/ keyboard_row' # Rows
    /\ shift_pressed' \in BOOLEAN
    /\ requested' \in [Utilities -> BOOLEAN]
    /\ filter' \in [type : 0 .. 1, value : Results]
    /\ asked' \subseteq [type : 0 .. 1, value : Results]
    /\ ~ requested'["secaudit"] => ~ requested["secaudit"] /\ filter' = filter

(* What Enter may do to the request of secaudit and its filter. *)
LEMMA ExecuteFacts ==
    ASSUME ShellTypeOK, shell_execute
    PROVE  /\ keyboard_row' \in FirstRow .. Rows
           /\ keyboard_row' = keyboard_row \/ keyboard_row' # Rows
           /\ keyboard_index' = 0
           /\ keyboard_column' \in Prompt .. Width
           /\ requested' \in [Utilities -> BOOLEAN]
           /\ filter' \in [type : 0 .. 1, value : Results]
           /\ asked' \subseteq [type : 0 .. 1, value : Results]
           /\ ~ requested'["secaudit"] => ~ requested["secaudit"] /\ filter' = filter
  <1> USE ShellConstants
  <1>1. ASSUME NEW r \in Nat, FirstRow <= r, NextPrompt(r)
        PROVE  /\ keyboard_row' \in FirstRow .. Rows /\ keyboard_row' # Rows
               /\ keyboard_index' = 0 /\ keyboard_column' = Prompt
               /\ UNCHANGED <<requested, filter, asked>>
    BY <1>1, OnScreenRow DEF NextPrompt
  <1>2. CASE Clear
    BY <1>1, <1>2 DEF Clear, ShellTypeOK
  <1>3. CASE Report
    <2>1. PICK command \in {"cpu", "help", "about"} :
             NextPrompt(keyboard_row + ReportRows(command))
      BY <1>3 DEF Report
    <2>2. /\ keyboard_row + ReportRows(command) \in Nat
          /\ FirstRow <= keyboard_row + ReportRows(command)
      BY DEF ReportRows, ShellTypeOK
    <2>3. QED
      BY <1>1, <2>1, <2>2 DEF ShellTypeOK
  <1>4. ASSUME NEW command, NEW u \in Utilities,
               NEW chosen \in [type : 0 .. 1, value : Results],
               u = "secaudit" \/ chosen = filter, Request(command, u, chosen)
        PROVE  /\ keyboard_row' = keyboard_row /\ keyboard_index' = 0
               /\ keyboard_column' = keyboard_column
               /\ requested' \in [Utilities -> BOOLEAN]
               /\ filter' \in [type : 0 .. 1, value : Results]
               /\ asked' \subseteq [type : 0 .. 1, value : Results]
               /\ ~ requested'["secaudit"] => ~ requested["secaudit"] /\ filter' = filter
    <2>1. "secaudit" \in Utilities
      BY DEF Utilities
    <2>2. QED
      BY <1>4, <2>1 DEF Request, ShellTypeOK
  <1>5. CASE RequestUtility
    <2>1. /\ filter \in [type : 0 .. 1, value : Results]
          /\ NoFilter \in [type : 0 .. 1, value : Results]
          /\ ByResult(SECURITY_DENIED) \in [type : 0 .. 1, value : Results]
          /\ ByResult(SECURITY_ALLOWED) \in [type : 0 .. 1, value : Results]
      BY DEF ShellTypeOK, NoFilter, ByResult, Results, SECURITY_DENIED, SECURITY_ALLOWED,
             SECURITY_AUDIT_FILTER_ALL, SECURITY_AUDIT_FILTER_RESULT
    <2>2. "secaudit" \in Utilities
      BY DEF Utilities
    <2>3. CASE \E u \in Utilities \ {"secaudit"} : Request(u, u, filter)
      BY <1>4, <2>1, <2>3 DEF ShellTypeOK
    <2>4. CASE Request("secaudit --denied", "secaudit", ByResult(SECURITY_DENIED))
      BY <1>4, <2>1, <2>2, <2>4 DEF ShellTypeOK
    <2>5. CASE Request("secaudit --allowed", "secaudit", ByResult(SECURITY_ALLOWED))
      BY <1>4, <2>1, <2>2, <2>5 DEF ShellTypeOK
    <2>6. CASE Request("secaudit", "secaudit", NoFilter)
      BY <1>4, <2>1, <2>2, <2>6 DEF ShellTypeOK
    <2>7. QED
      BY <1>5, <2>3, <2>4, <2>5, <2>6 DEF RequestUtility
  <1>6. CASE NoCommand
    <2>1. PICK r : /\ r = keyboard_row + IF keyboard_index > 0 THEN 2 ELSE 0
                   /\ NextPrompt(r)
      BY <1>6 DEF NoCommand
    <2>2. r \in Nat /\ FirstRow <= r
      BY <2>1 DEF ShellTypeOK
    <2>3. QED
      BY <1>1, <2>1, <2>2 DEF ShellTypeOK
  <1>7. QED
    BY <1>2, <1>3, <1>5, <1>6 DEF shell_execute

LEMMA KeyboardStep ==
    ASSUME ShellInv, keyboard_handle
    PROVE  ShellInv'
  <1> USE ShellConstants
  <1>0. ShellTypeOK /\ AuditTypeOK /\ RowInv /\ TaskInv /\ FilterInv
    BY DEF ShellInv
  <1>1. /\ UNCHANGED <<utility, row, argument, task_state, current_task, stranded, program,
                       read_index, read_count, filesystem>>
        /\ UNCHANGED auditVars
        /\ Wake
    BY DEF keyboard_handle, taskVars, programVars
  <1>2. AuditTypeOK'
    BY <1>0, <1>1 DEF AuditTypeOK, auditVars
  <1>3. KeyKeeps
    <2>1. CASE Enter
      <3>1. /\ keyboard_buffer' = [keyboard_buffer EXCEPT ![keyboard_index] = Nul]
            /\ shell_execute /\ shift_pressed' = shift_pressed
        BY <2>1 DEF Enter
      <3>2. keyboard_buffer' \in [0 .. KEYBOARD_BUFFER_SIZE - 1 -> Chars]
        BY <1>0, <3>1 DEF ShellTypeOK, Chars
      <3>3. QED
        BY <1>0, <3>1, <3>2, ExecuteFacts DEF KeyKeeps, ShellTypeOK
    <2>2. CASE Backspace
      BY <1>0, <2>2 DEF KeyKeeps, Backspace, ShellTypeOK, Chars
    <2>3. ASSUME NEW key \in Keys, Character(key)
          PROVE  KeyKeeps
      BY <1>0, <2>3 DEF KeyKeeps, Character, ShellTypeOK, Chars
    <2>4. ASSUME NEW pressed \in BOOLEAN, Shift(pressed)
          PROVE  KeyKeeps
      BY <1>0, <2>4 DEF KeyKeeps, Shift, ShellTypeOK, lineVars
    <2>5. QED
      BY <2>1, <2>2, <2>3, <2>4 DEF keyboard_handle
  <1>4. ShellTypeOK'
    BY <1>0, <1>1, <1>3, WakeInv DEF KeyKeeps, ShellTypeOK
  <1>5. RowInv' /\ TaskInv' /\ FilterInv'
    BY <1>0, <1>1, <1>3, WakeInv DEF KeyKeeps, RowInv, TaskInv, FilterInv
  <1>6. QED
    BY <1>2, <1>4, <1>5 DEF ShellInv

LEMMA TimerStep ==
    ASSUME ShellInv, isr_timer
    PROVE  ShellInv'
  <1>1. /\ UNCHANGED <<keyboard_buffer, keyboard_index, keyboard_column, keyboard_row,
                       shift_pressed, requested, filter, asked, utility, row, argument,
                       task_state, current_task, stranded, program, read_index, read_count,
                       filesystem>>
        /\ UNCHANGED auditVars
        /\ Wake
    BY DEF isr_timer, lineVars, taskVars, programVars
  <1>2. AuditTypeOK'
    BY <1>1 DEF ShellInv, AuditTypeOK, auditVars
  <1>3. ShellTypeOK'
    BY <1>1, WakeInv DEF ShellInv, ShellTypeOK
  <1>4. RowInv' /\ TaskInv' /\ FilterInv'
    BY <1>1, WakeInv DEF ShellInv, RowInv, TaskInv, FilterInv
  <1>5. QED
    BY <1>2, <1>3, <1>4 DEF ShellInv

-----------------------------------------------------------------------------
(* The main loop. *)

(* The poll after a utility's is another poll or the hlt. *)
LEMMA AfterPolls ==
    ASSUME NEW u \in Utilities
    PROVE  After(u) \in Utilities \cup {"halt"}
  BY DEF Utilities, After

LEMMA MainLoopStep ==
    ASSUME ShellInv, MainLoop
    PROVE  ShellInv'
  <1> USE ShellConstants
  <1>0. ShellTypeOK /\ AuditTypeOK /\ RowInv /\ TaskInv /\ FilterInv
    BY DEF ShellInv
  <1>1. AuditTypeOK'
    <2>1. UNCHANGED auditVars
      BY DEF MainLoop, Poll, Halt, ReadArgument, Launch, ReportRow, LeaveTask, task_destroy,
             EmptyLine, TestRow, WrapRow, shell_prompt, SameWorld
    <2>2. QED
      BY <1>0, <2>1 DEF AuditTypeOK, auditVars
  <1> SUFFICES ShellTypeOK' /\ RowInv' /\ TaskInv' /\ FilterInv'
    BY <1>1 DEF ShellInv
  <1>2. ASSUME NEW u \in Utilities, Poll(u)
        PROVE  ShellTypeOK' /\ RowInv' /\ TaskInv' /\ FilterInv'
    <2>1. /\ pc = u
          /\ UNCHANGED <<keyboard_buffer, keyboard_index, keyboard_column, keyboard_row,
                         shift_pressed, filter, row, argument, task_state, current_task,
                         stranded, program, read_index, read_count, filesystem>>
      BY <1>2 DEF Poll, SameWorld, lineVars, taskVars, programVars
    <2>2. CASE requested[u]
      <3>1. /\ requested' = [requested EXCEPT ![u] = FALSE] /\ utility' = u
            /\ pc' = IF u = "secaudit" THEN "argument" ELSE "prepare"
            /\ asked' = IF u = "secaudit" THEN {filter} ELSE asked
        BY <1>2, <2>2 DEF Poll
      <3>2. ShellTypeOK'
        BY <1>0, <2>1, <3>1 DEF ShellTypeOK
      <3>3. RowInv' /\ TaskInv'
        BY <1>0, <2>1, <3>1 DEF RowInv, TaskInv, Utilities
      <3>4. FilterInv'
        BY <1>0, <2>1, <3>1 DEF FilterInv, ShellTypeOK, Utilities
      <3>5. QED
        BY <3>2, <3>3, <3>4
    <2>3. CASE ~ requested[u]
      <3>1. pc' = After(u) /\ UNCHANGED <<requested, utility, asked>>
        BY <1>2, <2>3 DEF Poll
      <3>2. pc' \in Utilities \cup {"halt"}
        BY <3>1, AfterPolls
      <3>3. ShellTypeOK'
        BY <1>0, <2>1, <3>1, <3>2 DEF ShellTypeOK
      <3>4. RowInv' /\ TaskInv' /\ FilterInv'
        BY <1>0, <2>1, <3>1, <3>2 DEF RowInv, TaskInv, FilterInv, Utilities
      <3>5. QED
        BY <3>3, <3>4
    <2>4. QED
      BY <2>2, <2>3
  <1>3. CASE Halt
    BY <1>0, <1>3
    DEF Halt, Goto, SameLine, SameRequests, SameWorld, lineVars, taskVars, programVars,
        ShellTypeOK, RowInv, TaskInv, FilterInv
  <1>4. CASE ReadArgument
    <2>1. /\ UNCHANGED <<keyboard_buffer, keyboard_index, keyboard_column, keyboard_row,
                         shift_pressed, requested, filter, asked, utility, row,
                         task_state, current_task, stranded, program, read_index, read_count,
                         filesystem>>
          /\ \/ /\ pc = "argument" /\ pc' = "argument.value"
                /\ argument' = [argument EXCEPT !.type = filter.type]
             \/ /\ pc = "argument" /\ pc' = "argument.type"
                /\ argument' = [argument EXCEPT !.value = filter.value]
             \/ /\ pc = "argument.value" /\ pc' = "prepare"
                /\ argument' = [argument EXCEPT !.value = filter.value]
             \/ /\ pc = "argument.type" /\ pc' = "prepare"
                /\ argument' = [argument EXCEPT !.type = filter.type]
      BY <1>4 DEF ReadArgument, Goto, SameLine, SameRequests, SameWorld, lineVars,
                  taskVars, programVars
    <2>2. ShellTypeOK'
      BY <1>0, <2>1 DEF ShellTypeOK
    <2>3. RowInv' /\ TaskInv'
      BY <1>0, <2>1 DEF RowInv, TaskInv
    <2>4. FilterInv'
      BY <1>0, <2>1 DEF FilterInv, ShellTypeOK
    <2>5. QED
      BY <2>2, <2>3, <2>4
  <1>5. CASE Launch
    BY <1>0, <1>5
    DEF Launch, Goto, SameLine, SameRequests, SameWorld, lineVars, taskVars, programVars,
        ShellTypeOK, RowInv, TaskInv, FilterInv
  <1>6. CASE ReportRow
    BY <1>0, <1>6
    DEF ReportRow, Goto, SameRequests, SameWorld, taskVars, programVars,
        ShellTypeOK, RowInv, TaskInv, FilterInv
  <1>7. CASE EmptyLine
    BY <1>0, <1>7
    DEF EmptyLine, Goto, SameRequests, SameWorld, taskVars, programVars,
        ShellTypeOK, RowInv, TaskInv, FilterInv
  <1>8. CASE TestRow
    BY <1>0, <1>8
    DEF TestRow, SameLine, SameRequests, SameWorld, lineVars, taskVars, programVars,
        ShellTypeOK, RowInv, TaskInv, FilterInv
  <1>9. CASE WrapRow
    BY <1>0, <1>9
    DEF WrapRow, Goto, SameRequests, SameWorld, taskVars, programVars,
        ShellTypeOK, RowInv, TaskInv, FilterInv
  <1>10. CASE shell_prompt
    <2>1. pc = "prompt" /\ pc' \in Utilities \cup {"halt"}
      BY <1>0, <1>10, AfterPolls DEF shell_prompt, Goto, ShellTypeOK
    <2>2. /\ keyboard_column' = Prompt
          /\ UNCHANGED <<keyboard_buffer, keyboard_index, keyboard_row, shift_pressed,
                         requested, filter, asked, utility, row, argument, task_state,
                         current_task, stranded, program, read_index, read_count, filesystem>>
      BY <1>10 DEF shell_prompt, SameRequests, SameWorld, taskVars, programVars
    <2>3. ShellTypeOK'
      BY <1>0, <2>1, <2>2 DEF ShellTypeOK
    <2>4. RowInv' /\ TaskInv' /\ FilterInv'
      BY <1>0, <2>1, <2>2 DEF RowInv, TaskInv, FilterInv, Utilities
    <2>5. QED
      BY <2>3, <2>4
  <1>11. CASE LeaveTask
    BY <1>0, <1>11
    DEF LeaveTask, Goto, SameRequests, SameWorld, lineVars, programVars,
        ShellTypeOK, RowInv, TaskInv, FilterInv
  <1>12. CASE task_destroy
    BY <1>0, <1>12
    DEF task_destroy, Goto, SameRequests, SameWorld, lineVars, programVars,
        ShellTypeOK, RowInv, TaskInv, FilterInv
  <1>13. QED
    BY <1>2, <1>3, <1>4, <1>5, <1>6, <1>7, <1>8, <1>9, <1>10, <1>11, <1>12 DEF MainLoop

-----------------------------------------------------------------------------
(* The Ring 3 utilities. *)

(* What every step of a utility leaves alone. *)
LEMMA KernelKept ==
    ASSUME SameKernel
    PROVE  UNCHANGED <<keyboard_buffer, keyboard_index, keyboard_column, keyboard_row,
                       shift_pressed, requested, filter, asked, utility, row, argument,
                       filesystem>>
  BY DEF SameKernel, SameLine, SameRequests, lineVars

(* The exit always finds its task current and running. *)
LEMMA ExitFacts ==
    ASSUME TaskInv, pc = "user", syscall_exit
    PROVE  /\ pc' = "report" /\ task_state' = "finished" /\ program' = "none"
           /\ UNCHANGED <<current_task, stranded, read_index, read_count>>
  BY DEF TaskInv, syscall_exit

LEMMA UserStep ==
    ASSUME ShellInv, UserProgram
    PROVE  ShellInv'
  <1> USE ShellConstants
  <1>0. ShellTypeOK /\ AuditTypeOK /\ RowInv /\ TaskInv /\ FilterInv
    BY DEF ShellInv
  <1>1. pc = "user" /\ SameKernel
    BY DEF UserProgram, Query, AuditCheck, AuditCount, AuditRead, AuditDone, InUser
  <1>2. /\ UNCHANGED <<keyboard_buffer, keyboard_index, keyboard_column, keyboard_row,
                       shift_pressed, requested, filter, asked, utility, row, argument,
                       filesystem>>
    BY <1>1, KernelKept
  <1>3. AuditTypeOK'
    <2>1. CASE UNCHANGED auditVars
      BY <1>0, <2>1 DEF AuditTypeOK, auditVars
    <2>2. CASE AuditCheck
      <3>1. AuditNext
        BY <2>2 DEF AuditCheck, AuditNext, Privileges
      <3>2. QED
        BY <1>0, <3>1, AuditTypeStep
    <2>3. QED
      BY <2>1, <2>2 DEF UserProgram, Query, AuditCount, AuditRead, AuditDone
  (* The program runs on, faults, or exits. *)
  <1>4. /\ program' \in {"none", "start", "count", "read", "spin"}
        /\ read_index' \in 0 .. N /\ read_count' \in 0 .. N
        /\ \/ pc' = "user" /\ UNCHANGED <<task_state, current_task, stranded>>
           \/ pc' = "fault" /\ UNCHANGED <<task_state, current_task, stranded>>
           \/ /\ pc' = "report" /\ task_state' = "finished"
              /\ UNCHANGED <<current_task, stranded>>
    <2>1. CASE Query
      BY <1>0, <1>1, <2>1, ExitFacts DEF Query, Spin, taskVars, ShellTypeOK
    <2>2. CASE AuditCheck
      BY <1>0, <1>1, <2>2 DEF AuditCheck, taskVars, ShellTypeOK
    <2>3. CASE AuditCount
      BY <1>0, <1>1, <2>3 DEF AuditCount, taskVars, ShellTypeOK, AuditTypeOK
    <2>4. CASE AuditRead
      <3>1. /\ read_index < read_count /\ program = "read"
            /\ \/ Spin
               \/ pc' = "fault" /\ UNCHANGED <<program, taskVars, read_index, read_count>>
               \/ /\ read_index' = read_index + 1
                  /\ UNCHANGED <<pc, program, taskVars, read_count>>
        BY <2>4 DEF AuditRead, InUser
      <3>2. QED
        BY <1>0, <1>1, <3>1 DEF Spin, taskVars, ShellTypeOK
    <2>5. CASE AuditDone
      BY <1>0, <1>1, <2>5, ExitFacts DEF AuditDone, ShellTypeOK
    <2>6. QED
      BY <2>1, <2>2, <2>3, <2>4, <2>5 DEF UserProgram
  <1>5. ShellTypeOK'
    BY <1>0, <1>2, <1>4 DEF ShellTypeOK
  <1>6. RowInv' /\ TaskInv' /\ FilterInv'
    BY <1>0, <1>1, <1>2, <1>4 DEF RowInv, TaskInv, FilterInv
  <1>7. QED
    BY <1>3, <1>5, <1>6 DEF ShellInv

-----------------------------------------------------------------------------
(* The invariant of the shell, from which its properties follow. *)
THEOREM ShellInvariant == ShellSpec => []ShellInv
  <1>1. ShellInv /\ [ShellNext]_shellVars => ShellInv'
    <2> SUFFICES ASSUME ShellInv, [ShellNext]_shellVars PROVE ShellInv'
      OBVIOUS
    <2>1. CASE UNCHANGED shellVars
      <3>1. /\ UNCHANGED <<keyboard_buffer, keyboard_index, keyboard_column, keyboard_row,
                           shift_pressed, requested, filter, asked, utility, row,
                           argument, task_state, current_task, stranded, program, read_index,
                           read_count, filesystem, pc>>
            /\ UNCHANGED auditVars
        BY <2>1 DEF shellVars, lineVars, loopVars, taskVars, programVars
      <3>2. QED
        BY <3>1 DEF ShellInv, ShellTypeOK, RowInv, TaskInv, FilterInv, AuditTypeOK, auditVars
    <2>2. QED
      BY <2>1, KeyboardStep, TimerStep, MainLoopStep, UserStep DEF ShellNext
  <1>2. QED
    BY <1>1, ShellInitInv, PTL DEF ShellSpec

(* Type correctness: the line stays inside its buffer with room for the terminator,
   the cursor between the prompt and the edge, the reader inside the ring. *)
THEOREM ShellTypeCorrect == ShellSpec => []ShellTypeOK
  <1>1. ShellInv => ShellTypeOK
    BY DEF ShellInv
  <1>2. QED
    BY <1>1, ShellInvariant, PTL

(* Whatever keys arrive between the load, the store and the test of keyboard_row, the
   shell polls and halts with its prompt on the screen. *)
THEOREM PromptStaysOnScreen == ShellSpec => []PromptOnScreen
  <1>1. ShellInv => PromptOnScreen
    BY ShellConstants DEF ShellInv, ShellTypeOK, RowInv, PromptOnScreen, Polling, Utilities
  <1>2. QED
    BY <1>1, ShellInvariant, PTL

(* The task of a utility is current and running while its program can run, so that
   SYSCALL_EXIT always finds it, and is gone when the shell waits. *)
THEOREM TaskMatchesProgram == ShellSpec => []TaskFollowsProgram
  <1>1. ShellInv => TaskFollowsProgram
    BY DEF ShellInv, TaskInv, TaskFollowsProgram, Polling, Utilities
  <1>2. QED
    BY <1>1, ShellInvariant, PTL

(* No secaudit request is lost, and the last filter asked for is the one last run. *)
THEOREM LastFilterIsRun == ShellSpec => []LastFilterRun
  <1>1. ShellInv => LastFilterRun
    BY DEF ShellInv, FilterInv, LastFilterRun
  <1>2. QED
    BY <1>1, ShellInvariant, PTL
=============================================================================

-------------------------------- MODULE Shell --------------------------------
(***************************************************************************)
(* The interactive shell (src/kernel.c) on the security core: the keyboard *)
(* interrupt edits a line and, on Enter, runs a command or raises a        *)
(* request; the main loop polls the requests, runs the Ring 3 utilities    *)
(* and redraws the prompt.  The main loop and the utilities run with       *)
(* interrupts on, so the keyboard handler may come between any two steps;  *)
(* the handler itself and the system calls run with interrupts off.        *)
(*                                                                         *)
(* The kernel is built without optimisation: keyboard_row++ is a load and  *)
(* a store, and so is a test followed by an assignment.                    *)
(***************************************************************************)
EXTENDS SecurityAudit, Integers

CONSTANTS KEYBOARD_BUFFER_SIZE, \* 128
          Prompt,               \* column after "InitraOS> ", 10
          Width,                \* screen columns, 80
          FirstRow, Rows,       \* the shell's rows: FirstRow .. Rows - 1, 13 and 25
          Keys,                 \* keys that type a character
          Spelling,             \* the characters of each command that can be typed
          AuditLines,           \* event lines before the user's VGA page ends, 5
          BootResults,          \* decisions recorded while booting
          FilesystemReady       \* the outcomes of shell_filesystem_init

Utilities == {"secinfo", "secusers", "secperm", "secaudit"}

(* The characters of the buffer: a key without and with shift, and the 0 byte. *)
Shifted == "shifted"
Nul == "nul"
Chars == Keys \cup {Shifted, Nul}

ASSUME ShellAssumption ==
    /\ KEYBOARD_BUFFER_SIZE \in Nat \ {0}
    /\ Prompt \in Nat /\ Width \in Nat /\ Prompt < Width
    /\ FirstRow \in Nat /\ Rows \in Nat /\ FirstRow < Rows
    /\ \A command \in DOMAIN Spelling : Spelling[command] \in Seq(Keys)
    /\ AuditLines \in Nat
    /\ BootResults \in Seq(Results) /\ Len(BootResults) <= N
    /\ FilesystemReady \subseteq BOOLEAN

VARIABLES keyboard_buffer, keyboard_index, keyboard_column, keyboard_row, shift_pressed,
          requested,     \* the shell_sec*_requested flags
          filter,        \* shell_secaudit_filter_type and _value
          pc,            \* where the main loop is
          utility,       \* the utility it runs
          row,           \* the register keyboard_row is incremented in
          argument,      \* the filter arguments of shell_run_secaudit
          task_state,    \* state of the utility's task
          current_task,  \* the task the kernel believes runs
          stranded,      \* a finished task without a context was left on the list
          program,       \* where the Ring 3 program is
          read_index, read_count,
          filesystem,    \* whether shell_filesystem_init succeeded
          asked          \* history: the filters asked for since secaudit was polled

lineVars == <<keyboard_buffer, keyboard_index, keyboard_column, keyboard_row>>
programVars == <<program, read_index, read_count>>
taskVars == <<task_state, current_task, stranded>>
loopVars == <<pc, utility, row, argument>>
shellVars == <<lineVars, shift_pressed, requested, filter, loopVars, taskVars, programVars,
               filesystem, asked, auditVars>>

NoFilter == [type |-> SECURITY_AUDIT_FILTER_ALL, value |-> 0]

(* The audit ring as the boot leaves it. *)
BootEvent(i) ==
    [sequence |-> i % SeqModulus, pid |-> 0, privilege |-> SECURITY_PRIVILEGE_USER,
     operation |-> SECURITY_OPERATION_RESOURCE_ACCESS, result |-> BootResults[i]]

ShellInit ==
    /\ keyboard_buffer = [i \in 0 .. KEYBOARD_BUFFER_SIZE - 1 |-> Nul]
    /\ keyboard_index = 0
    /\ keyboard_column = Prompt
    /\ keyboard_row = FirstRow
    /\ shift_pressed = FALSE
    /\ requested = [u \in Utilities |-> FALSE]
    /\ filter = NoFilter
    /\ pc = "secinfo" /\ utility = "secinfo" /\ row = FirstRow /\ argument = NoFilter
    /\ task_state = "none" /\ current_task = "none" /\ stranded = FALSE
    /\ program = "none" /\ read_index = 0 /\ read_count = 0
    /\ filesystem \in FilesystemReady
    /\ asked = {NoFilter}
    /\ audit_count = Len(BootResults)
    /\ audit_sequence = Len(BootResults) % SeqModulus
    /\ audit_head = 0
    /\ audit_events = [p \in 0 .. N - 1 |->
                          IF p < Len(BootResults) THEN BootEvent(p + 1) ELSE NoEvent]

-----------------------------------------------------------------------------
(* The keyboard interrupt. *)

(* Any interrupt ends the hlt of the main loop, which then polls again. *)
Wake == pc' = IF pc = "halted" THEN "secinfo" ELSE pc

command_equals(command) ==
    /\ command \in DOMAIN Spelling
    /\ keyboard_index = Len(Spelling[command])
    /\ \A i \in 1 .. keyboard_index : keyboard_buffer[i - 1] = Spelling[command][i]

OnScreen(r) == IF r >= Rows THEN FirstRow ELSE r

(* A new prompt below the output of a command. *)
NextPrompt(r) ==
    /\ keyboard_row' = OnScreen(r)
    /\ keyboard_index' = 0
    /\ keyboard_column' = Prompt
    /\ UNCHANGED <<requested, filter, asked>>

(* The commands the handler runs itself; help prints ten lines, the others two. *)
ReportRows(command) == IF command = "help" THEN 10 ELSE 2

Report == \E command \in {"cpu", "help", "about"} :
              /\ command_equals(command)
              /\ NextPrompt(keyboard_row + ReportRows(command))

Clear == command_equals("clear") /\ NextPrompt(FirstRow)

(* The commands left to the main loop.  The line is emptied, the cursor stays. *)
Request(command, u, chosen) ==
    /\ command_equals(command)
    /\ requested' = [requested EXCEPT ![u] = TRUE]
    /\ filter' = chosen
    /\ asked' = asked \cup {chosen}
    /\ keyboard_index' = 0
    /\ UNCHANGED <<keyboard_column, keyboard_row>>

ByResult(value) == [type |-> SECURITY_AUDIT_FILTER_RESULT, value |-> value]

RequestUtility ==
    \/ \E u \in Utilities \ {"secaudit"} : Request(u, u, filter)
    \/ Request("secaudit --denied", "secaudit", ByResult(SECURITY_DENIED))
    \/ Request("secaudit --allowed", "secaudit", ByResult(SECURITY_ALLOWED))
    \/ Request("secaudit", "secaudit", NoFilter)

Commands == Utilities \cup {"clear", "cpu", "help", "about", "secaudit --denied",
                            "secaudit --allowed"}

NoCommand ==
    /\ \A command \in Commands : ~ command_equals(command)
    /\ NextPrompt(keyboard_row + IF keyboard_index > 0 THEN 2 ELSE 0)

shell_execute == Clear \/ Report \/ RequestUtility \/ NoCommand

Enter ==
    /\ keyboard_buffer' = [keyboard_buffer EXCEPT ![keyboard_index] = Nul]
    /\ shell_execute
    /\ UNCHANGED shift_pressed

Backspace ==
    /\ keyboard_column > Prompt /\ keyboard_index > 0
    /\ keyboard_column' = keyboard_column - 1
    /\ keyboard_index' = keyboard_index - 1
    /\ keyboard_buffer' = [keyboard_buffer EXCEPT ![keyboard_index - 1] = Nul]
    /\ UNCHANGED <<keyboard_row, shift_pressed, requested, filter, asked>>

(* Mutant: the last byte of the buffer is not kept for the terminator. *)
character_past_end(key) ==
    /\ keyboard_index < KEYBOARD_BUFFER_SIZE
    /\ keyboard_column < Width
    /\ keyboard_buffer' = [keyboard_buffer EXCEPT ![keyboard_index] =
                              IF shift_pressed THEN Shifted ELSE key]
    /\ keyboard_index' = keyboard_index + 1
    /\ keyboard_column' = keyboard_column + 1
    /\ UNCHANGED <<keyboard_row, shift_pressed, requested, filter, asked>>

Character(key) ==
    /\ keyboard_index < KEYBOARD_BUFFER_SIZE - 1
    /\ keyboard_column < Width
    /\ keyboard_buffer' = [keyboard_buffer EXCEPT ![keyboard_index] =
                              IF shift_pressed THEN Shifted ELSE key]
    /\ keyboard_index' = keyboard_index + 1
    /\ keyboard_column' = keyboard_column + 1
    /\ UNCHANGED <<keyboard_row, shift_pressed, requested, filter, asked>>

Shift(pressed) ==
    /\ shift_pressed # pressed
    /\ shift_pressed' = pressed
    /\ UNCHANGED <<lineVars, requested, filter, asked>>

(* After a page fault interrupts stay off. *)
InterruptsOn == pc # "fault"

keyboard_handle ==
    /\ InterruptsOn
    /\ \/ Enter
       \/ Backspace
       \/ \E key \in Keys : Character(key)
       \/ \E pressed \in BOOLEAN : Shift(pressed)
    /\ Wake
    /\ UNCHANGED <<utility, row, argument, taskVars, programVars, filesystem, auditVars>>

(* The timer: scheduler_tick changes nothing, but the interrupt ends a hlt. *)
isr_timer ==
    /\ pc = "halted"
    /\ Wake
    /\ UNCHANGED <<lineVars, shift_pressed, requested, filter, asked, utility, row, argument,
                   taskVars, programVars, filesystem, auditVars>>

-----------------------------------------------------------------------------
(* The main loop.  The polls come in the order secinfo, secusers, secperm,
   secaudit, then hlt. *)

Goto(from, to) == pc = from /\ pc' = to

(* Mutant: one of the polls is left out. *)
after_skips_secperm(u) == CASE u = "secinfo" -> "secusers"
                            [] u = "secusers" -> "secaudit"
                            [] u = "secperm" -> "secaudit"
                            [] u = "secaudit" -> "halt"

After(u) == CASE u = "secinfo" -> "secusers"
              [] u = "secusers" -> "secperm"
              [] u = "secperm" -> "secaudit"
              [] u = "secaudit" -> "halt"

(* The main loop leaves the keyboard's state and the audit ring alone except where
   a step says otherwise. *)
SameLine == UNCHANGED <<lineVars, shift_pressed>>
SameRequests == UNCHANGED <<requested, filter, asked>>
SameWorld == UNCHANGED <<shift_pressed, filesystem, auditVars>>

Poll(u) ==
    /\ pc = u
    /\ IF requested[u]
       THEN /\ requested' = [requested EXCEPT ![u] = FALSE]
            /\ utility' = u
            /\ pc' = IF u = "secaudit" THEN "argument" ELSE "prepare"
            /\ asked' = IF u = "secaudit" THEN {filter} ELSE asked
       ELSE pc' = After(u) /\ UNCHANGED <<requested, utility, asked>>
    /\ UNCHANGED <<lineVars, filter, row, argument, taskVars, programVars>> /\ SameWorld

Halt ==
    /\ Goto("halt", "halted")
    /\ SameLine /\ SameRequests /\ SameWorld
    /\ UNCHANGED <<utility, row, argument, taskVars, programVars>>

(* Mutant: the request is cleared again once its words have been read. *)
read_then_clear ==
    /\ \/ Goto("argument", "argument.type") /\ argument' = [argument EXCEPT !.value = filter.value]
       \/ Goto("argument.type", "prepare") /\ argument' = [argument EXCEPT !.type = filter.type]
    /\ requested' = [requested EXCEPT !["secaudit"] = FALSE]
    /\ SameLine /\ SameWorld
    /\ UNCHANGED <<filter, asked, utility, row, taskVars, programVars>>

(* The two volatile words are read one after the other, in either order. *)
ReadArgument ==
    /\ \/ Goto("argument", "argument.value") /\ argument' = [argument EXCEPT !.type = filter.type]
       \/ Goto("argument", "argument.type") /\ argument' = [argument EXCEPT !.value = filter.value]
       \/ Goto("argument.value", "prepare") /\ argument' = [argument EXCEPT !.value = filter.value]
       \/ Goto("argument.type", "prepare") /\ argument' = [argument EXCEPT !.type = filter.type]
    /\ SameLine /\ SameRequests /\ SameWorld
    /\ UNCHANGED <<utility, row, taskVars, programVars>>

(* Loading the image and creating the task.  Without one, the utility reports like a
   finished run; so it does with a task that has no context, which is on the list,
   finished, and which only secusers destroys.  Otherwise the task is made current and
   running and entered. *)
Launch ==
    /\ \/ /\ Goto("prepare", "user")
          /\ task_state' = "running" /\ current_task' = "user"
          /\ program' = "start"
          /\ UNCHANGED stranded
       \/ /\ Goto("prepare", "report")
          /\ UNCHANGED <<taskVars, program>>
       \/ /\ Goto("prepare", "report")
          /\ stranded' = (stranded \/ utility # "secusers")
          /\ UNCHANGED <<task_state, current_task, program>>
    /\ SameLine /\ SameRequests /\ SameWorld
    /\ UNCHANGED <<utility, row, argument, read_index, read_count>>

(* The result is printed one row down; keyboard_row++ is a load and a store.  A utility
   that was not entered is done with it. *)
ReportRow ==
    /\ \/ /\ Goto("report", "report.store")
          /\ row' = keyboard_row
          /\ UNCHANGED keyboard_row
       \/ /\ Goto("report.store", IF task_state = "none" THEN "done" ELSE "leave")
          /\ keyboard_row' = row + 1
          /\ UNCHANGED row
    /\ UNCHANGED <<keyboard_buffer, keyboard_index, keyboard_column, utility, argument,
                   taskVars, programVars>>
    /\ SameRequests /\ SameWorld

(* Mutant: the task is still the current one when it is destroyed. *)
leave_keeps_current ==
    /\ Goto("leave", "destroy")
    /\ UNCHANGED <<lineVars, utility, row, argument, taskVars, programVars>>
    /\ SameRequests /\ SameWorld

LeaveTask ==
    /\ Goto("leave", "destroy")
    /\ current_task' = "none"
    /\ UNCHANGED <<lineVars, utility, row, argument, task_state, stranded, programVars>>
    /\ SameRequests /\ SameWorld

(* task_destroy refuses to destroy the current task. *)
task_destroy ==
    /\ Goto("destroy", "done")
    /\ task_state' = IF current_task = "user" THEN task_state ELSE "none"
    /\ UNCHANGED <<lineVars, utility, row, argument, current_task, stranded, programVars>>
    /\ SameRequests /\ SameWorld

EmptyLine ==
    /\ Goto("done", "wrap")
    /\ keyboard_index' = 0
    /\ UNCHANGED <<keyboard_buffer, keyboard_column, keyboard_row, utility, row, argument,
                   taskVars, programVars>>
    /\ SameRequests /\ SameWorld

(* Mutant: the row below the last is taken for the last. *)
test_row_off_by_one ==
    /\ pc = "wrap"
    /\ pc' = IF keyboard_row > Rows THEN "wrap.store" ELSE "prompt"
    /\ SameLine /\ SameRequests /\ SameWorld
    /\ UNCHANGED <<utility, row, argument, taskVars, programVars>>

TestRow ==
    /\ pc = "wrap"
    /\ pc' = IF keyboard_row >= Rows THEN "wrap.store" ELSE "prompt"
    /\ SameLine /\ SameRequests /\ SameWorld
    /\ UNCHANGED <<utility, row, argument, taskVars, programVars>>

WrapRow ==
    /\ Goto("wrap.store", "prompt")
    /\ keyboard_row' = FirstRow
    /\ UNCHANGED <<keyboard_buffer, keyboard_index, keyboard_column, utility, row, argument,
                   taskVars, programVars>>
    /\ SameRequests /\ SameWorld

shell_prompt ==
    /\ Goto("prompt", After(utility))
    /\ keyboard_column' = Prompt
    /\ UNCHANGED <<keyboard_buffer, keyboard_index, keyboard_row, utility, row, argument,
                   taskVars, programVars>>
    /\ SameRequests /\ SameWorld

MainLoop == \/ \E u \in Utilities : Poll(u)
            \/ Halt \/ ReadArgument \/ Launch \/ ReportRow \/ LeaveTask \/ task_destroy
            \/ EmptyLine \/ TestRow \/ WrapRow \/ shell_prompt

-----------------------------------------------------------------------------
(* The Ring 3 utilities. *)

InUser(at) == pc = "user" /\ program = at
SameKernel == /\ SameLine /\ SameRequests
              /\ UNCHANGED <<utility, row, argument, filesystem>>

(* SYSCALL_EXIT: the current, running task is finished and the shell resumed;
   anything else halts for good. *)
syscall_exit ==
    /\ IF current_task = "user" /\ task_state = "running"
       THEN pc' = "report" /\ task_state' = "finished"
       ELSE pc' = "fault" /\ UNCHANGED task_state
    /\ program' = "none"
    /\ UNCHANGED <<current_task, stranded, read_index, read_count>>

(* A program that is refused loops for ever. *)
Spin == program' = "spin" /\ UNCHANGED <<pc, taskVars, read_index, read_count>>

(* secinfo, secusers, secperm: one query, then the exit.  The query of secperm is
   refused when no filesystem is mounted. *)
Query ==
    /\ InUser("start") /\ utility # "secaudit"
    /\ IF utility = "secperm" /\ ~ filesystem THEN Spin ELSE syscall_exit
    /\ SameKernel
    /\ UNCHANGED auditVars

(* secaudit first provokes a refusal, which is recorded, ... *)
AuditCheck ==
    /\ InUser("start") /\ utility = "secaudit"
    /\ \E pid \in Pids :
           security_authorize(pid, SECURITY_PRIVILEGE_USER,
                              SECURITY_OPERATION_PROTECTED_TEST, SECURITY_PRIVILEGE_KERNEL)
    /\ program' = "count"
    /\ SameKernel
    /\ UNCHANGED <<pc, taskVars, read_index, read_count>>

(* Mutant: one event too many is asked for. *)
count_one_too_many ==
    /\ InUser("count")
    /\ read_count' = audit_count + 1 /\ read_index' = 0
    /\ program' = "read"
    /\ SameKernel
    /\ UNCHANGED <<pc, taskVars, auditVars>>

(* ... then asks how many events there are ... *)
AuditCount ==
    /\ InUser("count")
    /\ read_count' = audit_count /\ read_index' = 0
    /\ program' = "read"
    /\ SameKernel
    /\ UNCHANGED <<pc, taskVars, auditVars>>

(* ... and reads as many through the filter, showing each on a line of its own.  A
   line past the page the program may write to is a page fault, which halts. *)
AuditRead ==
    /\ InUser("read") /\ read_index < read_count
    /\ IF security_audit_get_filtered(argument.type, argument.value, read_index) = Failure
       THEN Spin
       ELSE IF read_index >= AuditLines
       THEN pc' = "fault" /\ UNCHANGED <<program, taskVars, read_index, read_count>>
       ELSE read_index' = read_index + 1 /\ UNCHANGED <<pc, program, taskVars, read_count>>
    /\ SameKernel
    /\ UNCHANGED auditVars

AuditDone ==
    /\ InUser("read") /\ read_index >= read_count
    /\ syscall_exit
    /\ SameKernel
    /\ UNCHANGED auditVars

UserProgram == Query \/ AuditCheck \/ AuditCount \/ AuditRead \/ AuditDone

-----------------------------------------------------------------------------
ShellNext == keyboard_handle \/ isr_timer \/ MainLoop \/ UserProgram

(* The processor keeps executing, and the timer keeps interrupting.  Nothing is
   assumed of the keyboard. *)
ShellFairness == WF_shellVars(MainLoop) /\ WF_shellVars(UserProgram) /\ WF_shellVars(isr_timer)

ShellSpec == ShellInit /\ [][ShellNext]_shellVars /\ ShellFairness

-----------------------------------------------------------------------------
(* Type invariant: in particular the line stays inside its buffer and the cursor
   between the prompt and the edge. *)
ShellTypeOK ==
    /\ keyboard_buffer \in [0 .. KEYBOARD_BUFFER_SIZE - 1 -> Chars]
    /\ keyboard_index \in 0 .. KEYBOARD_BUFFER_SIZE - 1
    /\ keyboard_column \in Prompt .. Width
    /\ keyboard_row \in FirstRow .. Rows /\ row \in FirstRow .. Rows
    /\ shift_pressed \in BOOLEAN /\ filesystem \in BOOLEAN
    /\ requested \in [Utilities -> BOOLEAN] /\ utility \in Utilities
    /\ filter \in [type : 0 .. 1, value : Results]
    /\ asked \subseteq [type : 0 .. 1, value : Results]
    /\ argument \in [type : 0 .. 1, value : Results]
    /\ task_state \in {"none", "running", "finished"}
    /\ current_task \in {"none", "user"} /\ stranded \in BOOLEAN
    /\ program \in {"none", "start", "count", "read", "spin"}
    /\ read_index \in 0 .. N /\ read_count \in 0 .. N
    /\ pc \in Utilities \cup
              {"halt", "halted", "argument", "argument.value", "argument.type", "prepare",
               "user", "report", "report.store", "leave", "destroy", "done", "wrap",
               "wrap.store", "prompt", "fault"}

Polling == pc \in Utilities \cup {"halt", "halted"}

(* Whatever keys arrive while the main loop moves the row, the shell waits with its
   prompt on the screen. *)
PromptOnScreen == Polling => keyboard_row < Rows

(* No secaudit request is lost and the last one counts: when none is pending and no
   arguments are being read, the last run had the filter of the last request. *)
LastFilterRun ==
    pc \notin {"argument", "argument.value", "argument.type"} /\ ~ requested["secaudit"]
        => argument = filter

(* The task of a utility is current exactly while its program can run, and the exit
   always finds it so: the kernel never halts on SYSCALL_EXIT, and the shell waits
   with no task left. *)
TaskFollowsProgram ==
    /\ pc = "user" => task_state = "running" /\ current_task = "user"
    /\ Polling => task_state = "none" /\ current_task = "none"

(* No utility that runs will ever end. *)
Stuck == pc = "fault" \/ (pc = "user" /\ program = "spin")

(* A utility asked for is started, unless another one never ends. *)
RequestsServed ==
    \A u \in Utilities : requested[u] ~> ((~ requested[u] /\ utility = u) \/ Stuck)

(* A utility has started; secaudit has also recorded its own refusal. *)
Started == (InUser("start") /\ utility # "secaudit") \/ InUser("count")

(* What a utility asks for can be had and shown: secperm needs the file system; secaudit
   needs a line for every event, and asks through its filter for as many as there are
   without it. *)
Answerable ==
    CASE utility = "secperm" -> filesystem
      [] utility = "secaudit" ->
           /\ audit_count <= AuditLines
           /\ \A i \in 0 .. audit_count - 1 :
                 security_audit_get_filtered(argument.type, argument.value, i) # Failure
      [] OTHER -> TRUE

(* A utility gives the prompt back if what it asks for can be had and shown, whatever is
   typed while it runs; if not, it loops for ever or the machine halts. *)
UtilitiesEnd ==
    /\ (pc = "prepare") ~> (Started \/ Polling)
    /\ (Started /\ Answerable) ~> Polling
    /\ (Started /\ ~ Answerable) ~> []Stuck

(* Every utility that is started gives the prompt back. *)
PromptReturns == (pc = "prepare") ~> Polling

(* A run of secaudit filters the events as one command asked, not as a mixture of two
   commands. *)
FilterOfOneCommand == pc = "prepare" /\ utility = "secaudit" => argument \in asked
=============================================================================

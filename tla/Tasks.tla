-------------------------------- MODULE Tasks --------------------------------
(***************************************************************************)
(* Processes, address spaces and tasks (src/kernel.c) on top of the paged  *)
(* heap: what kernel_main does with them from the moment paging is on, in  *)
(* the order it does it, and then the shell's utilities for ever.          *)
(*                                                                         *)
(* One step is one call of the heap, so that any of them may be the one    *)
(* that finds no frame left.  A structure is remembered with the frames    *)
(* that backed it when it was written: if the heap later maps other frames *)
(* under a structure that is still in use, its contents are gone.          *)
(*                                                                         *)
(* The tests compare fields they have just written; those comparisons hold *)
(* as long as structures stay intact, and the branches behind a failed one *)
(* are left out.                                                           *)
(***************************************************************************)
EXTENDS PagedHeap, UserMemory, Sequences, SequencesExt

CONSTANTS SizeOf,        \* size asked for each kind of structure
          BootEnds,      \* where the boot heap may end: heap_pointer when paging starts
          FramesTaken    \* how many frames may be in use by then

(* The page directory and the tables of a process are asked for aligned to a page. *)
AlignedKinds == {"directory", "tables"}
PlainKinds == {"process", "space", "task", "stack", "context", "block", "grown"}

ASSUME TasksAssumption ==
    /\ \A kind \in AlignedKinds : SizeOf[kind] \in AlignedSizes
    /\ \A kind \in PlainKinds : SizeOf[kind] \in PlainSizes
    /\ BootEnds \subseteq 4 .. HEAP_PAGED_LIMIT     \* past three structures, none at 0

VARIABLES memory,        \* address -> a structure that was written there
          task_list,     \* the tasks in the order of their next pointers
          current_task,  \* the task the processor runs, or 0
          session,       \* which caller of process_create and its like is at work
          making,        \* what it still has to create, the first one under way
          stage,         \* the allocation that comes next
          parts,         \* the structures of the one under way
          made,          \* what was created so far, 0 for a failure
          freeing,       \* the addresses to free, each read from its owner when due
          firstHeap,     \* history: the heap after the first utility
          failures,      \* history: the allocations that returned 0 so far
          before         \* history: the blocks in use when the creation under way began

taskVars == <<memory, task_list, current_task, session, making, stage, parts, made,
              freeing, firstHeap, failures, before>>
vars == <<heapVars, taskVars, userVars>>

NONE == 0
NoParts == [process |-> NONE, space |-> NONE, task |-> NONE]

(* A caller: what it creates, whether it gives up, keeping what it has, when one is
   missing, and how it disposes of them. *)
Session(makes, all, dispose) == [makes |-> makes, all |-> all, dispose |-> dispose]

address_space_create_test == Session(<<"space">>, TRUE, "space")
process_isolation_test == Session(<<"space", "space">>, TRUE, "space")
process_permission_isolation_test == Session(<<"space", "space">>, TRUE, "space")
process_create_test == Session(<<"process">>, TRUE, "process")
process_instance_isolation_test == Session(<<"process", "process">>, TRUE, "instance")
process_task_link_test == Session(<<"process">>, TRUE, "process")
syscall_memory_test == Session(<<"block">>, TRUE, "block")
security_identity_syscall_test == Session(<<"process">>, TRUE, "identity")
user_stack_test == Session(<<"task">>, TRUE, "keep")
heap_dynamic_test == Session(<<"block">>, TRUE, "grow")
user_program == Session(<<>>, TRUE, "program")
process_termination_test == Session(<<"task", "task">>, FALSE, "terminate")

(* In the order of kernel_main.  Its other tests leave heap and tasks as they were. *)
BootSessions ==
    <<address_space_create_test, process_isolation_test, process_permission_isolation_test,
      process_create_test, process_instance_isolation_test, process_task_link_test,
      syscall_memory_test, security_identity_syscall_test, user_stack_test,
      heap_dynamic_test, user_program, process_termination_test>>

Utility == Session(<<"task">>, TRUE, "utility")        \* shell_run_secinfo and its like

InShell == session > Len(BootSessions)
Caller == IF InShell THEN Utility ELSE BootSessions[session]

(* The first kernel task and the boot program's were made before paging, in the last
   page of the boot heap, and are never destroyed. *)
UserTest == task_list[2]

(* The bytes a kernel step touches for a program: none, outside prepare and the
   system calls.  Each utility starts with an entry point of its own, still 0. *)
Quiet ==
    /\ access' = NoAccess
    /\ entry_point' = IF stage' = "prepare" THEN 0 ELSE entry_point

InUse == {paged_heap_blocks[i].address : i \in {j \in Slots : Live(j)}}

Put(f, a, x) == [b \in DOMAIN f \cup {a} |-> IF b = a THEN x ELSE f[b]]
Without(f, a) == [b \in DOMAIN f \ {a} |-> f[b]]

(* A structure just written at the address: the frames behind it and its fields. *)
Image(a, size, table) == [p \in PagesOf(a, a + size) |-> table[p]]
Task(a, table) == [image |-> Image(a, SizeOf.task, table), state |-> "READY",
                   process |-> NONE, context |-> NONE, stack |-> NONE]

Intact(a) ==
    /\ a \in DOMAIN memory
    /\ \A p \in DOMAIN memory[a].image : page_table[p] = memory[a].image[p]

(* What the boot heap leaves: the kernel task, finished, the task of the boot
   program and its context, in a page that stays mapped onto itself. *)
BootMemory(end, table) ==
    LET image == Image(end - 1, 1, table)
        task == [Task(end - 1, table) EXCEPT !.image = image]
    IN  [a \in {end - 3, end - 2, end - 1} |->
            CASE a = end - 3 -> [task EXCEPT !.state = "FINISHED"]
              [] a = end - 2 -> [task EXCEPT !.context = end - 1]
              [] a = end - 1 -> [image |-> image]]

TasksInit ==
    /\ paged_heap_blocks = [i \in Slots |-> [address |-> 0, size |-> 0, free |-> 0]]
    /\ page_table = [p \in Pages |-> IDENTITY]
    /\ requested = [i \in Slots |-> 0]
    /\ \E k \in FramesTaken : frame_bitmap = {f \in Frames : f <= k}
    /\ \E end \in BootEnds :
          /\ heap_pointer = end
          /\ memory = BootMemory(end, page_table)
          /\ task_list = <<end - 3, end - 2>>
    /\ current_task = NONE
    /\ session = 1 /\ making = BootSessions[1].makes /\ stage = BootSessions[1].makes[1]
    /\ parts = NoParts /\ made = <<>> /\ freeing = <<>>
    /\ firstHeap = <<>> /\ failures = {} /\ before = {}
    /\ UserInit

-----------------------------------------------------------------------------
(* Calls of the heap and what they return. *)

(* heap_alloc or heap_alloc_paged_aligned returns 0 at once: no slot, or no room. *)
Refused(size, aligned) ==
    LET end == IF aligned THEN align_up_4k(heap_pointer + HEADER) + RoundUp(size)
               ELSE (IF heap_pointer < HEAP_PAGED_BASE THEN HEAP_PAGED_BASE
                     ELSE align_up_4k(heap_pointer)) + HEADER + RoundUp(size)
    IN  /\ aligned \/ Reusable(RoundUp(size)) = {}
        /\ \/ Spare = {}
           \/ end > HEAP_PAGED_LIMIT
           \/ aligned /\ align_up_4k(heap_pointer + HEADER) - HEADER < HEAP_PAGED_BASE
        /\ UNCHANGED heapVars

Allocate(kind) ==
    LET aligned == kind \in AlignedKinds
    IN  \/ aligned /\ heap_alloc_paged_aligned(SizeOf[kind])
        \/ ~ aligned /\ heap_alloc_paged(SizeOf[kind])
        \/ Refused(SizeOf[kind], aligned)

(* The address the call returned: that of the slot it filled. *)
Returned ==
    IF \A i \in Slots : paged_heap_blocks'[i].free = 1 \/ paged_heap_blocks'[i] = paged_heap_blocks[i]
    THEN NONE
    ELSE LET i == CHOOSE i \in Slots : paged_heap_blocks'[i].free = 0
                                         /\ paged_heap_blocks'[i] # paged_heap_blocks[i]
         IN  paged_heap_blocks'[i].address

SlotAt(a) == {i \in Slots : Live(i) /\ paged_heap_blocks[i].address = a}

(* heap_free of an address: a block that is not in use is left alone. *)
FreeAddress(a) ==
    IF SlotAt(a) = {} THEN UNCHANGED heapVars ELSE \E i \in SlotAt(a) : heap_free(i)

-----------------------------------------------------------------------------
(* Creating a process, an address space, a task or a plain block. *)

Busy == freeing # <<>>

(* The creation under way returns result: the caller goes on to the next, or to
   what it does with them. *)
Finish(result) ==
    /\ made' = Append(made, result)
    /\ making' = Tail(making)
    /\ stage' = IF Tail(making) = <<>> THEN "dispose" ELSE making[2]
    /\ parts' = NoParts

Continue(next, p) == stage' = next /\ parts' = p /\ UNCHANGED <<made, making>>

(* Addresses to free: a structure's own, or one read from a field of it when due. *)
Self(a) == [of |-> a, field |-> "self"]
Field(a, f) == [of |-> a, field |-> f]

OwnProcess == IF parts.process = NONE THEN <<>> ELSE <<Self(parts.process)>>

(* Mutant: the page directory is not given back when there are no tables. *)
undo_keeps_directory(failed) ==
    CASE failed \in {"process", "block"} -> <<>>
      [] failed = "space" -> OwnProcess
      [] failed = "directory" -> <<Self(parts.space)>> \o OwnProcess
      [] failed = "tables" -> <<Self(parts.space)>> \o OwnProcess
      [] failed = "task" -> IF parts.process = NONE THEN <<>> ELSE <<Self(parts.space)>> \o OwnProcess
      [] failed = "stack" -> <<Self(parts.task)>> \o
                IF parts.process = NONE THEN <<>> ELSE <<Self(parts.space)>> \o OwnProcess

(* What is freed on the way out when an allocation fails.  process_create without a
   task gives back the address space structure, not its directory and tables. *)
Undo(failed) ==
    LET creator == IF parts.process = NONE THEN <<>> ELSE <<Self(parts.space)>> \o OwnProcess
    IN  CASE failed \in {"process", "block"} -> <<>>
          [] failed = "space" -> OwnProcess
          [] failed = "directory" -> <<Self(parts.space)>> \o OwnProcess
          [] failed = "tables" -> <<Field(parts.space, "directory"), Self(parts.space)>> \o OwnProcess
          [] failed = "task" -> creator
          [] failed = "stack" -> <<Self(parts.task)>> \o creator

(* A step of a creation: one allocation, then Then(a) with the address it returned. *)
Create(kind, Then(_)) ==
    /\ ~ Busy /\ stage = kind
    /\ Allocate(kind)
    /\ IF Returned # NONE THEN Then(Returned) /\ UNCHANGED failures
       ELSE /\ Finish(NONE) /\ freeing' = Undo(kind)
            /\ failures' = failures \cup {kind}
            /\ UNCHANGED <<memory, task_list>>
    /\ before' = IF parts = NoParts THEN InUse ELSE before
    /\ UNCHANGED <<current_task, session, firstHeap>>
    /\ Quiet

process_create ==
    LET then(a) ==
          /\ memory' = Put(memory, a, [image |-> Image(a, SizeOf.process, page_table'),
                                       state |-> "READY", space |-> NONE, task |-> NONE])
          /\ Continue("space", [parts EXCEPT !.process = a])
          /\ UNCHANGED <<task_list, freeing>>
    IN  Create("process", then)

(* address_space_create writes nothing into the structure before it has a directory. *)
address_space_create ==
    LET then(a) ==
          /\ Continue("directory", [parts EXCEPT !.space = a])
          /\ UNCHANGED <<memory, task_list, freeing>>
    IN  Create("space", then)

space_directory ==
    LET then(a) ==
          /\ memory' = Put(Put(memory, a, [image |-> Image(a, SizeOf.directory, page_table')]),
                 parts.space, [image |-> Image(parts.space, SizeOf.space, page_table'),
                               directory |-> a, tables |-> NONE])
          /\ Continue("tables", parts)
          /\ UNCHANGED <<task_list, freeing>>
    IN  Create("directory", then)

(* The end of address_space_create; process_create stores what it returned. *)
space_tables ==
    LET then(a) ==
          LET written == Put([memory EXCEPT ![parts.space].tables = a],
                             a, [image |-> Image(a, SizeOf.tables, page_table')])
          IN  /\ IF parts.process = NONE
                 THEN memory' = written /\ Finish(parts.space)
                 ELSE memory' = [written EXCEPT ![parts.process].space = parts.space]
                      /\ Continue("task", parts)
              /\ UNCHANGED <<task_list, freeing>>
    IN  Create("tables", then)

task_create ==
    LET then(a) ==
          /\ memory' = Put(memory, a, Task(a, page_table'))
          /\ Continue("stack", [parts EXCEPT !.task = a])
          /\ UNCHANGED <<task_list, freeing>>
    IN  Create("task", then)

(* The end of task_create puts the task on the list; task_create_user then gives
   the kernel stack back, since the task runs on the user stack. *)
task_create_user ==
    LET then(a) ==
          /\ memory' = [memory EXCEPT ![parts.task].process = parts.process]
          /\ task_list' = Append(task_list, parts.task)
          /\ freeing' = <<Self(a)>>
          /\ Continue("context", parts)
    IN  Create("stack", then)

(* Without a context the task is returned finished, which is not a failure. *)
task_context ==
    LET t == parts.task
        final == IF parts.process = NONE THEN t ELSE parts.process
        linked(m) == IF parts.process = NONE THEN m
                     ELSE [m EXCEPT ![parts.process].task = t]
        a == Returned
    IN  /\ ~ Busy /\ stage = "context"
        /\ Allocate("context")
        /\ memory' = linked(
              IF a = NONE THEN [memory EXCEPT ![t].state = "FINISHED"]
              ELSE Put([memory EXCEPT ![t].context = a], a,
                       [image |-> Image(a, SizeOf.context, page_table')]))
        /\ Finish(final)
        /\ failures' = IF a = NONE THEN failures \cup {"context"} ELSE failures
        /\ UNCHANGED <<task_list, current_task, session, freeing, firstHeap, before>>
        /\ Quiet

syscall_alloc ==
    LET then(a) ==
          /\ memory' = Put(memory, a, [image |-> Image(a, SizeOf.block, page_table')])
          /\ Finish(a)
          /\ UNCHANGED <<task_list, freeing>>
    IN  Create("block", then)

-----------------------------------------------------------------------------
(* Disposing of what was created. *)

(* The caller returns; its successor starts.  The shell begins without a current
   task; the heap after its first utility is remembered. *)
Return(list, current) ==
    LET next == IF InShell THEN session ELSE session + 1
        makes == IF next > Len(BootSessions) THEN Utility.makes ELSE BootSessions[next].makes
    IN  /\ session' = next
        /\ making' = makes
        /\ stage' = IF next > Len(BootSessions) THEN "prepare"
                    ELSE IF makes = <<>> THEN "dispose" ELSE makes[1]
        /\ made' = <<>> /\ parts' = NoParts
        /\ task_list' = list
        /\ current_task' = IF next > Len(BootSessions) THEN NONE ELSE current
        /\ firstHeap' = IF InShell /\ firstHeap = <<>> THEN heapVars ELSE firstHeap

Disposing(how) ==
    /\ ~ Busy /\ stage = "dispose"
    /\ Caller.dispose \in how
    /\ ~ (Caller.all /\ NONE \in Range(made))

(* Something is missing: the tests return without freeing the rest. *)
GiveUp ==
    /\ ~ Busy /\ stage = "dispose"
    /\ Caller.all /\ NONE \in Range(made)
    /\ Return(task_list, current_task)
    /\ UNCHANGED <<heapVars, memory, freeing, failures, before>>
    /\ Quiet

(* user_stack_test leaves its task on the list, finished. *)
Keep ==
    /\ Disposing({"keep"})
    /\ memory' = [memory EXCEPT ![made[1]].state = "FINISHED"]
    /\ Return(task_list, current_task)
    /\ UNCHANGED <<heapVars, freeing, failures, before>>
    /\ Quiet

(* heap_dynamic_test has its block grown before it frees it, and keeps it if it
   cannot be. *)
Grow ==
    LET old == made[1]
    IN  /\ Disposing({"grow"})
        /\ \/ \E i \in SlotAt(old) : heap_realloc(i, SizeOf.grown)
           \/ Refused(RoundUp(SizeOf.grown), FALSE)
        /\ IF Returned = NONE
           THEN /\ Return(task_list, current_task) /\ UNCHANGED memory
                /\ failures' = failures \cup {"grown"}
           ELSE /\ memory' = Put(Without(memory, old), Returned,
                        [image |-> Image(Returned, SizeOf.grown, page_table')])
                /\ made' = <<Returned>> /\ stage' = "destroy"
                /\ UNCHANGED <<task_list, current_task, session, making, parts, firstHeap,
                               failures>>
        /\ UNCHANGED <<freeing, before>>
        /\ Quiet

Destroy(how) ==
    /\ Disposing(how)
    /\ stage' = "destroy"
    /\ UNCHANGED <<heapVars, memory, task_list, current_task, session, making, parts, made,
                   freeing, firstHeap, failures, before>>
    /\ Quiet

(* The task the caller runs, or has the system calls made for. *)
Chosen == CASE Caller.dispose = "identity" -> memory[made[1]].task
            [] Caller.dispose = "program"  -> UserTest
            [] OTHER                       -> made[1]

(* A task without a context is not run, and three of the four utilities leave it. *)
Run ==
    /\ Disposing({"identity", "program", "terminate", "utility"})
    /\ IF NONE \in Range(made)
       THEN stage' = "destroy" /\ UNCHANGED <<memory, current_task, task_list, session, making,
                                              parts, made, firstHeap>>
       ELSE IF memory[Chosen].context = NONE
       THEN Return(task_list, current_task) /\ UNCHANGED memory
       ELSE /\ current_task' = Chosen
            /\ memory' = [memory EXCEPT ![Chosen].state = "RUNNING"]
            /\ stage' = "running"
            /\ UNCHANGED <<task_list, session, making, parts, made, firstHeap>>
    /\ UNCHANGED <<heapVars, freeing, failures, before>>
    /\ Quiet

(* The task ends (process_terminate) or, in security_identity_syscall_test, is put
   back; the caller restores the task that was current before. *)
Stop ==
    /\ stage = "running"
    /\ LET t == current_task
           p == memory[t].process
           ended == [memory EXCEPT ![t].state = "FINISHED"]
       IN  memory' = IF Caller.dispose = "identity" THEN memory
                     ELSE IF p = NONE THEN ended
                     ELSE [ended EXCEPT ![p].state = "FINISHED"]
    /\ current_task' = IF Caller.dispose \in {"program", "terminate"} THEN UserTest ELSE NONE
    /\ stage' = "destroy"
    /\ UNCHANGED <<heapVars, task_list, session, making, parts, made, freeing, firstHeap,
                   failures, before>>
    /\ Quiet

(* What task_destroy frees: nothing if the task is current or not on the list. *)
Destructible(t) == t # current_task /\ t \in Range(task_list)

(* Mutant: the context of a destroyed task is never freed. *)
doom_keeps_context(t) == IF Destructible(t) THEN <<Self(t)>> ELSE <<>>

TaskDoom(t) == IF Destructible(t) THEN <<Field(t, "context"), Self(t)>> ELSE <<>>

(* Mutant: the structure is freed before the fields that are read from it. *)
space_freed_first(s) == <<Self(s), Field(s, "tables"), Field(s, "directory")>>

SpaceDoom(s) == <<Field(s, "tables"), Field(s, "directory"), Self(s)>>

(* The process is intact until it is freed, so its fields may be read at the start. *)
ProcessDoom(p) == TaskDoom(memory[p].task) \o SpaceDoom(memory[p].space) \o <<Self(p)>>

(* process_instance_isolation_test frees its processes itself, without their tasks. *)
Doom(a) ==
    CASE Caller.dispose \in {"block", "grow"} -> <<Self(a)>>
      [] Caller.dispose = "space" -> SpaceDoom(a)
      [] Caller.dispose = "instance" -> SpaceDoom(memory[a].space) \o <<Self(a)>>
      [] Caller.dispose \in {"process", "identity"} -> ProcessDoom(a)
      [] OTHER -> TaskDoom(a)

(* Mutant: a destroyed task stays on the list. *)
task_stays_listed(a) == {}

TaskOf(a) ==
    CASE Caller.dispose \in {"process", "identity"} -> {memory[a].task}
      [] Caller.dispose \in {"terminate", "utility"} -> {a}
      [] OTHER -> {}

(* process_destroy, task_destroy or the test's own calls, for the next one made. *)
DestroyNext ==
    /\ ~ Busy /\ stage = "destroy" /\ made # <<>>
    /\ made' = Tail(made)
    /\ IF Head(made) = NONE THEN UNCHANGED <<freeing, task_list>>
       ELSE /\ freeing' = Doom(Head(made))
            /\ LET found == {k \in DOMAIN task_list : /\ task_list[k] \in TaskOf(Head(made))
                                                     /\ Destructible(task_list[k])}
               IN  task_list' = IF found = {} THEN task_list
                                ELSE RemoveAt(task_list, CHOOSE k \in found : TRUE)
    /\ UNCHANGED <<heapVars, memory, current_task, session, making, stage, parts, firstHeap,
                   failures, before>>
    /\ Quiet

EndSession ==
    /\ ~ Busy /\ stage = "destroy" /\ made = <<>>
    /\ Return(task_list, current_task)
    /\ UNCHANGED <<heapVars, memory, freeing, failures, before>>
    /\ Quiet

Due == LET f == Head(freeing) IN IF f.field = "self" THEN f.of ELSE memory[f.of][f.field]

(* heap_free of the next address. *)
Release ==
    /\ Busy
    /\ FreeAddress(Due)
    /\ memory' = Without(memory, Due)
    /\ freeing' = Tail(freeing)
    /\ UNCHANGED <<task_list, current_task, session, making, stage, parts, made, firstHeap,
                   failures, before>>
    /\ Quiet

-----------------------------------------------------------------------------
(* Ring 3: the loader, and the system calls of the task that runs. *)

(* user_secinfo_prepare and its like; a utility whose image is refused returns. *)
UserPrepare ==
    /\ stage = "prepare"
    /\ \/ \E image \in Loadable : Load(image) /\ stage' = "task"
       \/ LoadFails /\ UNCHANGED stage
    /\ UNCHANGED <<heapVars, memory, task_list, current_task, session, making, parts, made,
                   freeing, firstHeap, failures, before>>

(* In the shell the process of secusers is a local of shell_run_secusers, which
   outlives the task; the other utilities have none. *)
Backed == IF InShell THEN BOOLEAN ELSE {memory[current_task].process # NONE}

UserSyscall ==
    /\ stage = "running" /\ access = NoAccess
    /\ \E backed \in Backed : UserCall(backed)
    /\ UNCHANGED <<heapVars, taskVars>>

(* The program's own instructions between two system calls. *)
UserComputes ==
    /\ stage = "running" /\ access # NoAccess
    /\ UNCHANGED <<heapVars, taskVars>>
    /\ Quiet

TasksNext ==
    \/ process_create \/ address_space_create \/ space_directory \/ space_tables
    \/ task_create \/ task_create_user \/ task_context \/ syscall_alloc
    \/ GiveUp \/ Keep \/ Grow \/ Run \/ Stop
    \/ Destroy({"space", "process", "instance", "block"})
    \/ DestroyNext \/ EndSession \/ Release
    \/ UserPrepare \/ UserSyscall \/ UserComputes

TasksSpec == TasksInit /\ [][TasksNext]_vars
-----------------------------------------------------------------------------
Addresses == 0 .. HEAP_PAGED_LIMIT

(* Type invariant. *)
TasksTypeOK ==
    /\ HeapTypeOK
    /\ DOMAIN memory \subseteq Addresses
    /\ task_list \in Seq(DOMAIN memory)
    /\ current_task \in DOMAIN memory \cup {NONE}
    /\ session \in 1 .. Len(BootSessions) + 1
    /\ \A k \in DOMAIN made : made[k] \in Addresses

(* What the kernel can still reach: the list, what its caller holds or is making or
   freeing, and what their fields lead to (not back from a task to its process).  The
   structure freed last is the one the others are read from, up to the end. *)
Leads(S) == S \cup UNION {{memory[a][f] : f \in DOMAIN memory[a] \cap
                              {"space", "task", "directory", "tables", "context"}} :
                          a \in S \cap DOMAIN memory}

Reachable ==
    LET due == {k \in DOMAIN freeing : freeing[k].field # "self" \/ (k > 1 /\ k = Len(freeing))}
        roots == Range(task_list) \cup Range(made) \cup {parts.process, parts.space, parts.task}
    IN  (Leads(Leads(roots)) \cap DOMAIN memory) \cup {freeing[k].of : k \in due}

(* The header of a page-aligned block lies on the page of the block before it, so that
   mapping or freeing either one takes that page from the other.  In the order the
   kernel makes and frees its structures none loses its contents while the kernel can
   still reach it, whichever allocations fail, with one exception: when an address space
   gets its directory but not its tables (kernel.c 1492), the freed directory's slot is
   reused for a small block later, and its header page is mapped anew under the
   structure before it.  After that failure this says nothing. *)
IntactUnlessTablesFail == "tables" \notin failures => \A a \in Reachable : Intact(a)

(* Once interrupts are on, or while a task runs, the timer may walk the list. *)
TickPossible == current_task # NONE /\ (InShell \/ stage = "running")

task_schedule_next ==
    LET n == Len(task_list)
        at == {k \in 1 .. n - 1 : task_list[k] = current_task}
        start == IF at = {} THEN 1 ELSE (CHOOSE k \in at : TRUE) + 1
        walk == [k \in 1 .. n |-> task_list[((start + k - 2) % n) + 1]]
        ready == {k \in 1 .. n : memory[walk[k]].state = "READY"}
    IN  IF ready = {} THEN NONE ELSE walk[CHOOSE k \in ready : \A j \in ready : k <= j]

(* The structures about to be freed. *)
Selves(entries) == {e.of : e \in {x \in entries : x.field = "self"}}
Doomed == Selves(Range(freeing))

(* Whenever the timer may walk the list, no task on it has been freed or is about to be,
   the current one is on it and its process is still held by its creator, although one
   of the boot tests frees two processes under their tasks; and the task it would choose
   has a context that was not freed.  This holds whichever allocations fail; whether the
   contents of those structures are those written is IntactUnlessTablesFail. *)
TickSound ==
    TickPossible =>
        /\ \A t \in Range(task_list) : t \in DOMAIN memory /\ t \notin Doomed
        /\ current_task \in Range(task_list)
        /\ LET p == memory[current_task].process
           IN  p # NONE => p \in Range(made) /\ p \in DOMAIN memory /\ p \notin Doomed
        /\ task_schedule_next # NONE =>
              /\ task_schedule_next \in Range(task_list)
              /\ memory[task_schedule_next].context \in DOMAIN memory

(* A creation that fails gives back every block it took, except that process_create
   without its task keeps a page directory and its tables; and as long as nothing has
   failed, all that a caller leaves in use is the listed tasks and their contexts. *)
Owned == Range(task_list) \cup {memory[t].context : t \in Range(task_list)}

NothingLost ==
    /\ (~ Busy /\ made # <<>> /\ parts = NoParts /\ stage # "destroy") /\ Last(made) = NONE =>
          \/ InUse = before
          \/ /\ Caller.makes[Len(made)] = "process"
             /\ before \subseteq InUse /\ Cardinality(InUse \ before) = 2
             /\ {paged_heap_blocks[i].size : i \in UNION {SlotAt(a) : a \in InUse \ before}}
                  = {RoundUp(SizeOf.directory), RoundUp(SizeOf.tables)}
    /\ (~ Busy /\ made = <<>> /\ parts = NoParts /\ stage # "destroy") /\ failures = {} =>
          InUse \subseteq Owned

(* Every utility leaves the heap exactly as the first one did, blocks, frames and
   heap_pointer: utilities can be run for ever. *)
UtilitiesRepeat ==
    InShell /\ firstHeap # <<>> /\ stage \in {"prepare", "task"} => heapVars = firstHeap
=============================================================================

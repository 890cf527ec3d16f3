---------------------------- MODULE SecurityAudit ----------------------------
(***************************************************************************)
(* The security core of the kernel, src/security.c: privilege decisions    *)
(* and the fixed ring of audit events they are recorded in.                *)
(*                                                                         *)
(* The kernel calls it from system-call handlers (interrupts off) and from *)
(* boot-time tests (no tasks running), so one call is one action.          *)
(***************************************************************************)
EXTENDS Naturals, Sequences

CONSTANTS SECURITY_MAX_AUDIT_EVENTS, \* 16 in security.h
          SeqModulus,                \* unsigned int: 2^32
          Pids                       \* process and task identifiers

ASSUME AuditAssumption ==
    /\ SECURITY_MAX_AUDIT_EVENTS \in Nat \ {0}
    /\ SeqModulus \in Nat
    /\ SeqModulus > SECURITY_MAX_AUDIT_EVENTS
    /\ Pids \subseteq Nat

N == SECURITY_MAX_AUDIT_EVENTS

SECURITY_PRIVILEGE_KERNEL == 0
SECURITY_PRIVILEGE_USER == 3
SECURITY_DENIED == 0
SECURITY_ALLOWED == 1
SECURITY_OPERATION_PROTECTED_TEST == 1
SECURITY_OPERATION_RESOURCE_ACCESS == 2
SECURITY_AUDIT_FILTER_ALL == 0
SECURITY_AUDIT_FILTER_RESULT == 1
SECURITY_AUDIT_FILTER_OPERATION == 2

Privileges == {SECURITY_PRIVILEGE_KERNEL, SECURITY_PRIVILEGE_USER}
Results == {SECURITY_DENIED, SECURITY_ALLOWED}

(* A slot of the ring; cleared slots hold 0 in every field. *)
security_audit_event_t ==
    [sequence : 0 .. SeqModulus - 1, pid : Pids \cup {0}, privilege : Privileges,
     operation : 0 .. 2, result : Results]

NoEvent == [sequence |-> 0, pid |-> 0, privilege |-> 0, operation |-> 0,
            result |-> 0]

VARIABLES audit_events,   \* the ring, indexed 0 .. N-1 as in C
          audit_head,     \* position of the oldest event
          audit_count,    \* number of events stored
          audit_sequence  \* sequence number of the newest event

auditVars == <<audit_events, audit_head, audit_count, audit_sequence>>

(* Position in the ring of the offset-th oldest event. *)
Position(offset) == (audit_head + offset) % N

(* The static initialisers of security.c. *)
AuditInit ==
    /\ audit_events = [p \in 0 .. N - 1 |-> NoEvent]
    /\ audit_head = 0
    /\ audit_count = 0
    /\ audit_sequence = 0

-----------------------------------------------------------------------------
(* The five field assignments and the bookkeeping around them. *)
WriteEvent(position, head, count, sequence, pid, privilege, operation, result) ==
    /\ audit_count' = count
    /\ audit_head' = head
    /\ audit_sequence' = sequence
    /\ audit_events' = [audit_events EXCEPT ![position] =
           [sequence |-> sequence, pid |-> pid, privilege |-> privilege,
            operation |-> operation, result |-> result]]

NextSequence == (audit_sequence + 1) % SeqModulus

(* Three plausible slips in security_audit_record, to test the properties with. *)

(* The ring takes one event too many before it overwrites. *)
record_limit_off_by_one(pid, privilege, operation, result) ==
    IF audit_count <= N
    THEN WriteEvent(Position(audit_count), audit_head, audit_count + 1, NextSequence,
                    pid, privilege, operation, result)
    ELSE WriteEvent(audit_head, Position(1), audit_count, NextSequence,
                    pid, privilege, operation, result)

(* The head stays put when a full ring overwrites its oldest event. *)
record_head_stuck(pid, privilege, operation, result) ==
    IF audit_count < N
    THEN WriteEvent(Position(audit_count), audit_head, audit_count + 1, NextSequence,
                    pid, privilege, operation, result)
    ELSE WriteEvent(audit_head, audit_head, audit_count, NextSequence,
                    pid, privilege, operation, result)

(* Only events that take a new slot are numbered. *)
record_sequence_missed(pid, privilege, operation, result) ==
    IF audit_count < N
    THEN WriteEvent(Position(audit_count), audit_head, audit_count + 1, NextSequence,
                    pid, privilege, operation, result)
    ELSE WriteEvent(audit_head, Position(1), audit_count, audit_sequence,
                    pid, privilege, operation, result)

-----------------------------------------------------------------------------
(* security_audit_record: append while there is room; once the ring is full,
   overwrite the oldest event and move the head on. *)
security_audit_record(pid, privilege, operation, result) ==
    IF audit_count < N
    THEN WriteEvent(Position(audit_count), audit_head, audit_count + 1, NextSequence,
                    pid, privilege, operation, result)
    ELSE WriteEvent(audit_head, Position(1), audit_count, NextSequence,
                    pid, privilege, operation, result)

(* The rule of security_authorize: smaller numbers are stronger. *)
AuthorizeResult(caller_privilege, required_privilege) ==
    IF caller_privilege <= required_privilege
    THEN SECURITY_ALLOWED ELSE SECURITY_DENIED

security_authorize(pid, caller_privilege, operation, required_privilege) ==
    security_audit_record(pid, caller_privilege, operation,
                          AuthorizeResult(caller_privilege, required_privilege))

(* The rule of security_resource_authorize: the kernel, or the owner. *)
ResourceAllowed(caller_privilege, caller_pid, resource_owner_pid) ==
    \/ caller_privilege <= SECURITY_PRIVILEGE_KERNEL
    \/ caller_pid = resource_owner_pid

security_resource_authorize(caller_pid, caller_privilege, resource_owner_pid) ==
    security_audit_record(caller_pid, caller_privilege,
        SECURITY_OPERATION_RESOURCE_ACCESS,
        IF ResourceAllowed(caller_privilege, caller_pid, resource_owner_pid)
        THEN SECURITY_ALLOWED ELSE SECURITY_DENIED)

security_init ==
    /\ audit_events' = [p \in 0 .. N - 1 |-> NoEvent]
    /\ audit_count' = 0
    /\ audit_head' = 0
    /\ audit_sequence' = 0

-----------------------------------------------------------------------------
(* The reading interface.  A read returns <<1, event>> or <<0>>: the C code
   returns the flag and copies the event through a pointer. *)

Failure == <<0>>

security_audit_get(index) ==
    IF index >= audit_count THEN Failure
    ELSE <<1, audit_events[Position(index)]>>

(* The two continue statements of the scan in security_audit_get_filtered. *)
Matches(filter_type, filter_value, event) ==
    /\ filter_type = SECURITY_AUDIT_FILTER_RESULT => event.result = filter_value
    /\ filter_type = SECURITY_AUDIT_FILTER_OPERATION
           => event.operation = filter_value

(* The value of the variable matched when the scan reaches each offset. *)
Matched(filter_type, filter_value) ==
    LET matched[offset \in 0 .. audit_count] ==
            IF offset = 0 THEN 0
            ELSE matched[offset - 1]
                 + (IF Matches(filter_type, filter_value,
                               audit_events[Position(offset - 1)]) THEN 1 ELSE 0)
    IN  matched

(* A scan that counts the events it skips as well. *)
filtered_counts_skipped(filter_type, filter_value, index) ==
    LET hits == {o \in 0 .. audit_count - 1 :
                    /\ Matches(filter_type, filter_value, audit_events[Position(o)])
                    /\ o = index}
    IN  IF filter_type > SECURITY_AUDIT_FILTER_OPERATION \/ hits = {} THEN Failure
        ELSE <<1, audit_events[Position(CHOOSE o \in hits : TRUE)]>>

security_audit_get_filtered(filter_type, filter_value, index) ==
    LET matched == Matched(filter_type, filter_value)
        hits == {o \in 0 .. audit_count - 1 :
                    /\ Matches(filter_type, filter_value, audit_events[Position(o)])
                    /\ matched[o] = index}
    IN  IF filter_type > SECURITY_AUDIT_FILTER_OPERATION \/ hits = {} THEN Failure
        ELSE <<1, audit_events[Position(CHOOSE o \in hits : TRUE)]>>

-----------------------------------------------------------------------------
(* The calls the kernel makes: SYSCALL_SECURITY_CHECK asks for the protected
   operation, which needs kernel privilege; the boot tests ask for resources and
   clear the core. *)
AuditNext ==
    \/ \E pid \in Pids, privilege \in Privileges :
           security_authorize(pid, privilege, SECURITY_OPERATION_PROTECTED_TEST,
                              SECURITY_PRIVILEGE_KERNEL)
    \/ \E pid, owner \in Pids, privilege \in Privileges :
           security_resource_authorize(pid, privilege, owner)
    \/ security_init

AuditSpec == AuditInit /\ [][AuditNext]_auditVars

-----------------------------------------------------------------------------
(* Type invariant of the ring and its counters. *)
AuditTypeOK ==
    /\ audit_events \in [0 .. N - 1 -> security_audit_event_t]
    /\ audit_head \in 0 .. N - 1
    /\ audit_count \in 0 .. N
    /\ audit_sequence \in 0 .. SeqModulus - 1

(* The events read by index 0, 1, ... are the last audit_count decisions in
   order: their sequence numbers are consecutive, across the wrap of the ring and
   of the 32-bit counter, and the last one is audit_sequence. *)
ConsecutiveSequences ==
    \A k \in 0 .. audit_count - 1 :
        (audit_events[Position(k)].sequence + (audit_count - 1 - k)) % SeqModulus
            = audit_sequence

(* The offsets of the stored events that pass a filter. *)
Wanted(filter_type, filter_value) ==
    {o \in 0 .. audit_count - 1 :
        Matches(filter_type, filter_value, audit_events[Position(o)])}

(* For every filter, the reads by index 0, 1, ... of security_audit_get_filtered go
   through the events that pass it from the oldest to the newest, each once and none
   left out, and then fail; with an unknown filter type every read fails. *)
FilteredReadIsSelection ==
    \A filter_type \in 0 .. 3, filter_value \in 0 .. 2 :
        \E count \in 0 .. N :
            \E pick \in [0 .. count - 1 -> Wanted(filter_type, filter_value)] :
                /\ \A j, k \in 0 .. count - 1 : j < k => pick[j] < pick[k]
                /\ \A o \in Wanted(filter_type, filter_value) : \E k \in 0 .. count - 1 : pick[k] = o
                /\ \A index \in 0 .. N :
                      security_audit_get_filtered(filter_type, filter_value, index)
                        = IF filter_type <= 2 /\ index < count
                          THEN <<1, audit_events[Position(pick[index])]>> ELSE Failure

(* What an event says besides its number. *)
DecisionOf(event) ==
    [pid |-> event.pid, privilege |-> event.privilege,
     operation |-> event.operation, result |-> event.result]

(* Every decision the access rules allow: only the kernel passes the protected
   test, the kernel is never refused a resource. *)
LegalDecisions ==
    {d \in [pid : Pids, privilege : Privileges, operation : 1 .. 2, result : Results] :
        /\ d.operation = SECURITY_OPERATION_PROTECTED_TEST =>
              (d.result = SECURITY_ALLOWED <=> d.privilege = SECURITY_PRIVILEGE_KERNEL)
        /\ d.privilege = SECURITY_PRIVILEGE_KERNEL => d.result = SECURITY_ALLOWED}

Log == INSTANCE AuditLog WITH
           MaxEvents <- N,
           Decisions <- LegalDecisions,
           log <- [i \in 1 .. audit_count |->
                      [sequence |-> audit_events[Position(i - 1)].sequence,
                       decision |-> DecisionOf(audit_events[Position(i - 1)])]],
           stamp <- audit_sequence

(* The ring implements the bounded chronological log: nothing is lost before
   N later decisions are recorded, nothing is reordered, and every recorded
   decision obeys the access rules of security.h. *)
ImplementsAuditLog == Log!Spec
=============================================================================

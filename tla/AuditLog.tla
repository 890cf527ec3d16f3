------------------------------ MODULE AuditLog ------------------------------
(***************************************************************************)
(* What the security core promises its readers: a bounded chronological    *)
(* log.  Every authorization decision is appended, stamped with the next   *)
(* sequence number; when the log is full the oldest decision, and only     *)
(* that one, is forgotten.  SecurityAudit implements this with a ring.     *)
(***************************************************************************)
EXTENDS Naturals, Sequences

CONSTANTS MaxEvents,   \* capacity of the log
          SeqModulus,  \* sequence numbers are counted modulo this
          Decisions    \* what a decision says, its sequence number aside

VARIABLES log,         \* the remembered decisions, oldest first
          stamp        \* sequence number of the newest decision

vars == <<log, stamp>>

Init == log = <<>> /\ stamp = 0

NextStamp == (stamp + 1) % SeqModulus

(* A decision is taken: it becomes the newest entry. *)
Decide(d) ==
    LET entry == [sequence |-> NextStamp, decision |-> d]
    IN  /\ log' = IF Len(log) < MaxEvents
                  THEN Append(log, entry)
                  ELSE Append(Tail(log), entry)
        /\ stamp' = NextStamp

(* The log is cleared and the numbering starts again. *)
Clear == log' = <<>> /\ stamp' = 0

Next == Clear \/ \E d \in Decisions : Decide(d)

Spec == Init /\ [][Next]_vars
=============================================================================

------------------------- MODULE SecurityAuditProofs -------------------------
(***************************************************************************)
(* The audit ring for every capacity, counter width and set of processes:  *)
(* its types, the numbering of its events, and that it implements the      *)
(* bounded chronological log of AuditLog.                                  *)
(***************************************************************************)
EXTENDS SecurityAudit, WellFoundedInduction, TLAPS

(* Facts about the remainder the ring and its counter are built on. *)
LEMMA ModRange ==
    ASSUME NEW n \in Nat \ {0}, NEW a \in Nat
    PROVE  a % n \in 0 .. n - 1
  OBVIOUS

LEMMA ModSmall ==
    ASSUME NEW n \in Nat \ {0}, NEW a \in 0 .. n - 1
    PROVE  a % n = a
  OBVIOUS

LEMMA ModWrap ==
    ASSUME NEW n \in Nat \ {0}, NEW a \in n .. 2 * n - 1
    PROVE  a % n = a - n
  OBVIOUS

(* Remainders are unique. *)
LEMMA ModUnique ==
    ASSUME NEW n \in Nat \ {0}, NEW q \in Nat, NEW r \in 0 .. n - 1
    PROVE  (n * q + r) % n = r
  OBVIOUS

(* Counting on from a wrapped counter is counting on from the unwrapped one. *)
LEMMA ModSuccessor ==
    ASSUME NEW n \in Nat \ {0}, NEW a \in Nat
    PROVE  ((a % n) + 1) % n = (a + 1) % n
  <1>1. PICK q \in Nat, r \in 0 .. n - 1 : a = n * q + r /\ a % n = r
    <2>1. a \div n \in Nat /\ a = n * (a \div n) + (a % n)
      OBVIOUS
    <2>2. QED
      BY <2>1, ModRange
  <1>2. CASE r + 1 < n
    <2>1. (n * q + (r + 1)) % n = r + 1
      <3>1. r + 1 \in 0 .. n - 1
        BY <1>2
      <3>2. QED
        BY <3>1, ModUnique
    <2>2. n * q + (r + 1) = a + 1
      BY <1>1
    <2>3. QED
      BY <1>1, <1>2, <2>1, <2>2
  <1>3. CASE r + 1 = n
    <2>1. (n * (q + 1) + 0) % n = 0
      <3>1. q + 1 \in Nat /\ 0 \in 0 .. n - 1
        OBVIOUS
      <3>2. QED
        BY <3>1, ModUnique
    <2>2. n * (q + 1) + 0 = a + 1
      BY <1>1, <1>3
    <2>3. QED
      BY <1>1, <1>3, <2>1, <2>2
  <1>4. QED
    BY <1>2, <1>3

(* Two offsets below the capacity never share a position. *)
LEMMA PositionsDistinct ==
    ASSUME NEW n \in Nat \ {0}, NEW h \in 0 .. n - 1,
           NEW j \in 0 .. n - 1, NEW k \in 0 .. n - 1,
           (h + j) % n = (h + k) % n
    PROVE  j = k
  <1>1. ASSUME NEW i \in 0 .. n - 1
        PROVE  (h + i) % n = IF h + i < n THEN h + i ELSE h + i - n
    OBVIOUS
  <1>2. QED
    BY <1>1

(* Advancing the head by one shifts every offset by one. *)
LEMMA PositionShift ==
    ASSUME NEW n \in Nat \ {0}, NEW h \in 0 .. n - 1, NEW k \in 0 .. n - 1
    PROVE  (((h + 1) % n) + k) % n = (h + (k + 1)) % n
  <1>1. CASE h + 1 < n
    BY <1>1, ModSmall
  <1>2. CASE h + 1 = n
    <2>1. (h + 1) % n = 0
      BY <1>2, ModWrap
    <2>2. (h + (k + 1)) % n = k
      BY <1>2, ModWrap
    <2>3. QED
      BY <2>1, <2>2, ModSmall
  <1>3. QED
    BY <1>1, <1>2

(* The slot the N-th offset lands on is the head's. *)
LEMMA PositionFull ==
    ASSUME NEW n \in Nat \ {0}, NEW h \in 0 .. n - 1
    PROVE  (h + n) % n = h
  BY ModWrap

(* The offsets below the capacity name the slots of the ring one to one. *)
LEMMA PositionFacts ==
    ASSUME AuditTypeOK
    PROVE  /\ \A k \in Nat : Position(k) \in 0 .. N - 1
           /\ \A j, k \in 0 .. N - 1 : Position(j) = Position(k) => j = k
  <1>1. N \in Nat \ {0} /\ audit_head \in 0 .. N - 1
    BY AuditAssumption DEF N, AuditTypeOK
  <1>2. ASSUME NEW k \in Nat PROVE Position(k) \in 0 .. N - 1
    BY <1>1, ModRange DEF Position
  <1>3. ASSUME NEW j \in 0 .. N - 1, NEW k \in 0 .. N - 1, Position(j) = Position(k)
        PROVE  j = k
    BY <1>1, <1>3, PositionsDistinct DEF Position
  <1>4. QED
    BY <1>2, <1>3

-----------------------------------------------------------------------------
(* The decisions the two access checks can record. *)
LEMMA DecisionsAreLegal ==
    ASSUME NEW pid \in Pids, NEW owner \in Pids, NEW privilege \in Privileges
    PROVE  /\ [pid |-> pid, privilege |-> privilege,
               operation |-> SECURITY_OPERATION_PROTECTED_TEST,
               result |-> AuthorizeResult(privilege, SECURITY_PRIVILEGE_KERNEL)]
                 \in LegalDecisions
           /\ [pid |-> pid, privilege |-> privilege,
               operation |-> SECURITY_OPERATION_RESOURCE_ACCESS,
               result |-> IF ResourceAllowed(privilege, pid, owner)
                          THEN SECURITY_ALLOWED ELSE SECURITY_DENIED]
                 \in LegalDecisions
  BY DEF LegalDecisions, AuthorizeResult, ResourceAllowed, Privileges, Results,
         SECURITY_OPERATION_PROTECTED_TEST, SECURITY_OPERATION_RESOURCE_ACCESS,
         SECURITY_PRIVILEGE_KERNEL, SECURITY_PRIVILEGE_USER, SECURITY_ALLOWED,
         SECURITY_DENIED

(* Every step of the security core records a legal decision or clears it. *)
LEMMA AuditSteps ==
    ASSUME AuditNext
    PROVE  \/ security_init
           \/ \E d \in LegalDecisions :
                 security_audit_record(d.pid, d.privilege, d.operation, d.result)
  <1>1. ASSUME NEW pid \in Pids, NEW privilege \in Privileges,
               security_authorize(pid, privilege, SECURITY_OPERATION_PROTECTED_TEST,
                                  SECURITY_PRIVILEGE_KERNEL)
        PROVE  \E d \in LegalDecisions :
                 security_audit_record(d.pid, d.privilege, d.operation, d.result)
    BY <1>1, DecisionsAreLegal DEF security_authorize
  <1>2. ASSUME NEW pid \in Pids, NEW owner \in Pids, NEW privilege \in Privileges,
               security_resource_authorize(pid, privilege, owner)
        PROVE  \E d \in LegalDecisions :
                 security_audit_record(d.pid, d.privilege, d.operation, d.result)
    BY <1>2, DecisionsAreLegal DEF security_resource_authorize
  <1>3. QED
    BY <1>1, <1>2 DEF AuditNext

(* The k-th oldest event of a ring with the given slots and head. *)
Slot(events, head, k) == events[(head + k) % N]

(* The slots after a recorded event: the newest offset holds the event, every
   other offset holds what it held, shifted by one when the ring was full. *)
LEMMA RecordSlots ==
    ASSUME AuditTypeOK, NEW d \in LegalDecisions,
           security_audit_record(d.pid, d.privilege, d.operation, d.result)
    PROVE  /\ AuditTypeOK'
           /\ audit_sequence' = NextSequence
           /\ audit_count' = IF audit_count < N THEN audit_count + 1 ELSE N
           /\ Slot(audit_events', audit_head', audit_count' - 1) =
                 [sequence |-> NextSequence, pid |-> d.pid, privilege |-> d.privilege,
                  operation |-> d.operation, result |-> d.result]
           /\ \A k \in 0 .. audit_count' - 2 :
                 Slot(audit_events', audit_head', k) =
                    Slot(audit_events, audit_head,
                         IF audit_count < N THEN k ELSE k + 1)
  <1> DEFINE e == [sequence |-> NextSequence, pid |-> d.pid,
                   privilege |-> d.privilege, operation |-> d.operation,
                   result |-> d.result]
  <1>1. N \in Nat \ {0} /\ SeqModulus \in Nat \ {0}
    BY AuditAssumption DEF N
  <1>2. NextSequence \in 0 .. SeqModulus - 1
    BY <1>1, ModRange DEF NextSequence, AuditTypeOK
  <1>3. e \in security_audit_event_t
    BY <1>2 DEF security_audit_event_t, LegalDecisions, Privileges, Results
  <1>4. CASE audit_count < N
    <2>1. /\ audit_count' = audit_count + 1 /\ audit_head' = audit_head
          /\ audit_sequence' = NextSequence
          /\ audit_events' = [audit_events EXCEPT ![Position(audit_count)] = e]
      BY <1>4 DEF security_audit_record, WriteEvent
    <2>2. Position(audit_count) \in 0 .. N - 1
      BY <1>1, ModRange DEF Position, AuditTypeOK
    <2>3. AuditTypeOK'
      BY <1>1, <1>2, <1>3, <1>4, <2>1, <2>2 DEF AuditTypeOK
    <2>4. audit_events'[Position(audit_count - 1)'] = e
      BY <1>1, <2>1, <2>2 DEF Position, AuditTypeOK
    <2>5. ASSUME NEW k \in 0 .. audit_count' - 2
          PROVE  audit_events'[Position(k)'] = audit_events[Position(k)]
      <3>1. Position(k)' = Position(k)
        BY <2>1 DEF Position
      <3>2. Position(k) # Position(audit_count) /\ Position(k) \in 0 .. N - 1
        BY <1>1, <1>4, <2>1, PositionFacts DEF AuditTypeOK
      <3>3. QED
        BY <2>1, <3>1, <3>2 DEF AuditTypeOK
    <2>6. QED
      BY <1>4, <2>1, <2>3, <2>4, <2>5 DEF Slot, Position
  <1>5. CASE ~ (audit_count < N)
    <2>1. /\ audit_count' = N /\ audit_count = N /\ audit_head' = Position(1)
          /\ audit_sequence' = NextSequence
          /\ audit_events' = [audit_events EXCEPT ![audit_head] = e]
      BY <1>1, <1>5 DEF security_audit_record, WriteEvent, AuditTypeOK
    <2>2. Position(1) \in 0 .. N - 1
      BY <1>1, ModRange DEF Position, AuditTypeOK
    <2>3. AuditTypeOK'
      BY <1>1, <1>2, <1>3, <2>1, <2>2 DEF AuditTypeOK
    <2>4. ASSUME NEW k \in 0 .. N - 1
          PROVE  Position(k)' = Position(k + 1)
      BY <1>1, <2>1, PositionShift DEF Position, AuditTypeOK
    <2>5. Position(N) = audit_head
      BY <1>1, PositionFull DEF Position, AuditTypeOK
    <2>6. audit_events'[Position(audit_count - 1)'] = e
      <3>1. Position(N - 1)' = audit_head
        BY <1>1, <2>4, <2>5
      <3>2. QED
        BY <1>1, <2>1, <3>1 DEF AuditTypeOK, Position
    <2>7. ASSUME NEW k \in 0 .. audit_count' - 2
          PROVE  audit_events'[Position(k)'] = audit_events[Position(k + 1)]
      <3>1. Position(k + 1) # Position(0) /\ Position(k + 1) \in 0 .. N - 1
        BY <1>1, <2>1, PositionFacts DEF AuditTypeOK
      <3>2. Position(0) = audit_head
        BY <1>1, ModSmall DEF Position, AuditTypeOK
      <3>3. QED
        BY <1>1, <2>1, <2>4, <3>1, <3>2 DEF AuditTypeOK
    <2>8. QED
      BY <1>5, <2>1, <2>3, <2>6, <2>7 DEF Slot, Position
  <1>6. QED
    BY <1>4, <1>5

(* Every call keeps the ring well formed. *)
LEMMA AuditTypeStep ==
    ASSUME AuditTypeOK, [AuditNext]_auditVars
    PROVE  AuditTypeOK'
  <1>1. CASE UNCHANGED auditVars
    BY <1>1 DEF auditVars, AuditTypeOK
  <1>2. CASE security_init
    BY <1>2, AuditAssumption
    DEF security_init, AuditTypeOK, N, NoEvent, security_audit_event_t, Privileges,
        Results, SECURITY_PRIVILEGE_KERNEL, SECURITY_DENIED
  <1>3. ASSUME NEW d \in LegalDecisions,
               security_audit_record(d.pid, d.privilege, d.operation, d.result)
        PROVE  AuditTypeOK'
    BY <1>3, RecordSlots
  <1>4. QED
    BY <1>1, <1>2, <1>3, AuditSteps

(* Type correctness: the head stays inside the ring, the count inside the
   capacity, and every slot holds a well-formed event. *)
THEOREM AuditTypeCorrect == AuditSpec => []AuditTypeOK
  <1>1. AuditInit => AuditTypeOK
    BY AuditAssumption
    DEF AuditInit, AuditTypeOK, N, NoEvent, security_audit_event_t, Privileges,
        Results, SECURITY_PRIVILEGE_KERNEL, SECURITY_DENIED
  <1>2. AuditTypeOK /\ [AuditNext]_auditVars => AuditTypeOK'
    BY AuditTypeStep
  <1>3. QED
    BY <1>1, <1>2, PTL DEF AuditSpec

(* The numbering of the events survives the wrap of the ring and of the counter:
   the k-th oldest event carries the k-th of the last audit_count numbers. *)
THEOREM SequencesConsecutive == AuditSpec => []ConsecutiveSequences
  <1>1. AuditInit => ConsecutiveSequences
    BY DEF AuditInit, ConsecutiveSequences
  <1>2. AuditTypeOK /\ ConsecutiveSequences /\ [AuditNext]_auditVars
          => ConsecutiveSequences'
    <2> SUFFICES ASSUME AuditTypeOK, ConsecutiveSequences, [AuditNext]_auditVars
                 PROVE  ConsecutiveSequences'
      OBVIOUS
    <2>0. N \in Nat \ {0} /\ SeqModulus \in Nat \ {0}
      BY AuditAssumption DEF N
    <2>1. CASE UNCHANGED auditVars
      BY <2>1 DEF auditVars, ConsecutiveSequences, Position
    <2>2. CASE security_init
      BY <2>2 DEF security_init, ConsecutiveSequences
    <2>3. ASSUME NEW d \in LegalDecisions,
                 security_audit_record(d.pid, d.privilege, d.operation, d.result)
          PROVE  ConsecutiveSequences'
      <3>1. /\ AuditTypeOK' /\ NextSequence \in 0 .. SeqModulus - 1
            /\ audit_count' = IF audit_count < N THEN audit_count + 1 ELSE N
            /\ audit_count \in 0 .. N
            /\ audit_sequence' = NextSequence
        BY <2>3, RecordSlots DEF AuditTypeOK
      <3>2. ASSUME NEW k \in 0 .. audit_count' - 1
            PROVE  (Slot(audit_events', audit_head', k).sequence
                       + (audit_count' - 1 - k)) % SeqModulus = NextSequence
        <4>1. CASE k = audit_count' - 1
          <5>1. Slot(audit_events', audit_head', k).sequence = NextSequence
            <6>1. Slot(audit_events', audit_head', k) =
                    [sequence |-> NextSequence, pid |-> d.pid,
                     privilege |-> d.privilege, operation |-> d.operation,
                     result |-> d.result]
              BY <2>3, <4>1, RecordSlots
            <6>2. QED
              BY <6>1
          <5>2. audit_count' - 1 - k = 0
            BY <2>0, <3>1, <4>1
          <5>3. QED
            BY <2>0, <3>1, <5>1, <5>2, ModSmall
        <4>2. CASE k \in 0 .. audit_count' - 2
          <5>1. PICK j \in 0 .. audit_count - 1 :
                   /\ j = IF audit_count < N THEN k ELSE k + 1
                   /\ audit_count' - 1 - k = (audit_count - 1 - j) + 1
            BY <2>0, <3>1, <4>2
          <5>2. Slot(audit_events', audit_head', k) = Slot(audit_events, audit_head, j)
            BY <2>3, <4>2, <5>1, RecordSlots
          <5>3. Slot(audit_events, audit_head, j).sequence \in Nat
            BY <2>0, <3>1, PositionFacts
            DEF AuditTypeOK, security_audit_event_t, Slot, Position
          <5>4. PICK a \in Nat :
                   a = Slot(audit_events, audit_head, j).sequence
                         + (audit_count - 1 - j)
            BY <3>1, <5>3
          <5>5. a % SeqModulus = audit_sequence
            BY <5>4 DEF ConsecutiveSequences, Slot, Position
          <5>6. (a + 1) % SeqModulus = NextSequence
            BY <2>0, <5>5, ModSuccessor DEF NextSequence
          <5>7. Slot(audit_events', audit_head', k).sequence
                   + (audit_count' - 1 - k) = a + 1
            BY <3>1, <5>1, <5>2, <5>3, <5>4
          <5>8. QED
            BY <5>6, <5>7
        <4>3. QED
          BY <2>0, <3>1, <4>1, <4>2
      <3>3. QED
        BY <3>1, <3>2 DEF ConsecutiveSequences, Slot, Position
    <2>4. QED
      BY <2>1, <2>2, <2>3, AuditSteps
  <1>3. QED
    BY <1>1, <1>2, AuditTypeCorrect, PTL DEF AuditSpec

-----------------------------------------------------------------------------
(* The entry of the abstract log that stands for an event. *)
Entry(event) == [sequence |-> event.sequence, decision |-> DecisionOf(event)]

(* Refinement: every call is a step of the bounded chronological log, for every
   capacity of the ring and every width of the counter. *)
THEOREM AuditRefinement == AuditSpec => ImplementsAuditLog
  <1> DEFINE slots == [i \in 1 .. audit_count |->
                          Entry(Slot(audit_events, audit_head, i - 1))]
  <1>1. AuditInit => Log!Init
    BY DEF AuditInit, Log!Init
  <1>2. AuditTypeOK /\ [AuditNext]_auditVars => [Log!Next]_Log!vars
    <2> SUFFICES ASSUME AuditTypeOK, [AuditNext]_auditVars
                 PROVE  [Log!Next]_Log!vars
      OBVIOUS
    <2>1. CASE UNCHANGED auditVars
      BY <2>1 DEF auditVars, Log!vars, Position, DecisionOf
    <2>2. CASE security_init
      BY <2>2 DEF security_init, Log!Next, Log!Clear
    <2>3. ASSUME NEW d \in LegalDecisions,
                 security_audit_record(d.pid, d.privilege, d.operation, d.result)
          PROVE  Log!Decide(d)
      <3> DEFINE entry == [sequence |-> NextSequence, decision |-> d]
      <3>1. /\ audit_count \in 0 .. N /\ N \in Nat \ {0}
            /\ audit_count' = IF audit_count < N THEN audit_count + 1 ELSE N
            /\ audit_sequence' = NextSequence
        BY <2>3, RecordSlots, AuditAssumption DEF AuditTypeOK, N
      <3>2. Entry(Slot(audit_events', audit_head', audit_count' - 1)) = entry
        <4>1. Slot(audit_events', audit_head', audit_count' - 1) =
                [sequence |-> NextSequence, pid |-> d.pid, privilege |-> d.privilege,
                 operation |-> d.operation, result |-> d.result]
          BY <2>3, RecordSlots
        <4>2. d = [pid |-> d.pid, privilege |-> d.privilege,
                   operation |-> d.operation, result |-> d.result]
          BY DEF LegalDecisions
        <4>3. QED
          BY <4>1, <4>2 DEF Entry, DecisionOf
      <3>3. CASE audit_count < N
        <4>1. Append(slots, entry) =
                [i \in 1 .. audit_count + 1 |->
                    IF i = audit_count + 1 THEN entry
                    ELSE Entry(Slot(audit_events, audit_head, i - 1))]
          BY <3>1
        <4>2. ASSUME NEW i \in 1 .. audit_count
              PROVE  Slot(audit_events', audit_head', i - 1)
                       = Slot(audit_events, audit_head, i - 1)
          <5>1. i - 1 \in 0 .. audit_count' - 2
            BY <3>1, <3>3
          <5>2. QED
            BY <2>3, <3>3, <5>1, RecordSlots
        <4>3. slots' = Append(slots, entry)
          BY <3>1, <3>2, <3>3, <4>1, <4>2
        <4>4. Len(slots) = audit_count
          BY <3>1
        <4>5. QED
          BY <3>1, <3>3, <4>3, <4>4
          DEF Log!Decide, Log!NextStamp, NextSequence, Slot, Position, Entry
      <3>4. CASE ~ (audit_count < N)
        <4>1. Append(Tail(slots), entry) =
                [i \in 1 .. N |->
                    IF i = N THEN entry
                    ELSE Entry(Slot(audit_events, audit_head, i))]
          <5>1. audit_count = N
            BY <3>1, <3>4
          <5>2. Tail(slots) = [i \in 1 .. N - 1 |-> slots[i + 1]]
            BY <3>1, <5>1
          <5>3. ASSUME NEW i \in 1 .. N - 1
                PROVE  slots[i + 1] = Entry(Slot(audit_events, audit_head, i))
            <6>1. i + 1 \in 1 .. audit_count /\ (i + 1) - 1 = i
              BY <3>1, <5>1
            <6>2. QED
              BY <6>1
          <5>4. Tail(slots) =
                  [i \in 1 .. N - 1 |-> Entry(Slot(audit_events, audit_head, i))]
            BY <5>2, <5>3
          <5>5. PICK t : t = Tail(slots)
            OBVIOUS
          <5> HIDE DEF slots
          <5>6. t = [i \in 1 .. N - 1 |-> Entry(Slot(audit_events, audit_head, i))]
            BY <5>4, <5>5
          <5>7. Append(t, entry) = [i \in 1 .. N |-> IF i = N THEN entry ELSE t[i]]
            BY <3>1, <5>6
          <5>8. ASSUME NEW i \in 1 .. N, i # N
                PROVE  t[i] = Entry(Slot(audit_events, audit_head, i))
            BY <3>1, <5>6, <5>8
          <5>9. QED
            BY <5>5, <5>7, <5>8
        <4>2. ASSUME NEW i \in 1 .. N - 1
              PROVE  Slot(audit_events', audit_head', i - 1)
                       = Slot(audit_events, audit_head, i)
          <5>1. i - 1 \in 0 .. audit_count' - 2 /\ (i - 1) + 1 = i
            BY <3>1, <3>4
          <5>2. QED
            BY <2>3, <3>4, <5>1, RecordSlots
        <4>3. slots' = Append(Tail(slots), entry)
          <5>1. audit_count' = N
            BY <3>1, <3>4
          <5>2. ASSUME NEW i \in 1 .. N
                PROVE  Entry(Slot(audit_events', audit_head', i - 1)) =
                         IF i = N THEN entry
                         ELSE Entry(Slot(audit_events, audit_head, i))
            BY <3>1, <3>2, <4>2, <5>1
          <5>3. slots' = [i \in 1 .. N |->
                            Entry(Slot(audit_events', audit_head', i - 1))]
            BY <5>1
          <5>4. QED
            BY <4>1, <5>2, <5>3
        <4>4. Len(slots) = audit_count
          BY <3>1
        <4>5. QED
          BY <3>1, <3>4, <4>3, <4>4
          DEF Log!Decide, Log!NextStamp, NextSequence, Slot, Position, Entry
      <3>5. QED
        BY <3>3, <3>4
    <2>4. QED
      BY <2>1, <2>2, <2>3, AuditSteps DEF Log!Next
  <1>3. QED
    BY <1>1, <1>2, AuditTypeCorrect, PTL DEF AuditSpec, ImplementsAuditLog, Log!Spec

-----------------------------------------------------------------------------
(* The filtered read.  Induction, by the least number principle. *)
LEMMA LeastOffset ==
    ASSUME NEW T \in SUBSET Nat, T # {}
    PROVE  \E x \in T : \A y \in T : x <= y
  <1>1. PICK x \in T : \A y \in T : ~ (<<y, x>> \in OpToRel(<, Nat))
    BY NatLessThanWellFounded, WFMin, Zenon
  <1>2. \A y \in T : ~ (y < x)
    BY <1>1 DEF OpToRel
  <1>3. QED
    BY <1>2

LEMMA OffsetInduction ==
    ASSUME NEW T \in SUBSET Nat, 0 \in T, \A n \in T : n + 1 \in T
    PROVE  T = Nat
  <1> SUFFICES ASSUME Nat \ T # {} PROVE FALSE
    OBVIOUS
  <1>1. PICK x \in Nat \ T : \A y \in Nat \ T : x <= y
    BY LeastOffset
  <1>2. x # 0 /\ x - 1 \in Nat /\ x - 1 \in T
    BY <1>1
  <1>3. QED
    BY <1>1, <1>2

(* g holds the values of matched up to offset n. *)
Scans(filter_type, filter_value, n, g) ==
    g = [offset \in 0 .. n |->
            IF offset = 0 THEN 0
            ELSE g[offset - 1]
                 + (IF Matches(filter_type, filter_value,
                               audit_events[Position(offset - 1)]) THEN 1 ELSE 0)]

LEMMA ScanExists ==
    ASSUME NEW ft, NEW fv, NEW n \in Nat
    PROVE  \E g : Scans(ft, fv, n, g)
  <1> DEFINE More(offset) == IF Matches(ft, fv, audit_events[Position(offset - 1)]) THEN 1 ELSE 0
             T == {m \in Nat : \E g : Scans(ft, fv, m, g)}
  <1>1. 0 \in T
    <2>1. Scans(ft, fv, 0, [o \in 0 .. 0 |-> 0])
      BY DEF Scans
    <2>2. QED
      BY <2>1
  <1>2. ASSUME NEW m \in T PROVE m + 1 \in T
    <2>1. PICK g : Scans(ft, fv, m, g)
      OBVIOUS
    <2> DEFINE h == [o \in 0 .. m + 1 |-> IF o = m + 1 THEN g[m] + More(m + 1) ELSE g[o]]
    <2>2. \A o \in 0 .. m : g[o] = IF o = 0 THEN 0 ELSE g[o - 1] + More(o)
      BY <2>1 DEF Scans
    <2> HIDE DEF More
    <2>3. ASSUME NEW o \in 0 .. m + 1
          PROVE  h[o] = IF o = 0 THEN 0 ELSE h[o - 1] + More(o)
      BY <2>2
    <2>4. DOMAIN h = 0 .. m + 1 /\ h = [o \in DOMAIN h |-> h[o]]
      OBVIOUS
    <2> HIDE DEF h
    <2>5. h = [o \in 0 .. m + 1 |-> IF o = 0 THEN 0 ELSE h[o - 1] + More(o)]
      BY <2>3, <2>4
    <2>6. Scans(ft, fv, m + 1, h)
      BY <2>5 DEF Scans, More
    <2>7. QED
      BY <2>6
  <1>3. T = Nat
    <2> HIDE DEF T
    <2>1. T \in SUBSET Nat
      BY DEF T
    <2>2. QED
      BY <1>1, <1>2, <2>1, OffsetInduction
  <1>4. QED
    BY <1>3

(* The scan counts the wanted events it has passed. *)
LEMMA MatchedCounts ==
    ASSUME AuditTypeOK, NEW ft, NEW fv
    PROVE  LET m == Matched(ft, fv)
           IN  /\ m[0] = 0
               /\ \A o \in 0 .. audit_count - 1 :
                     m[o + 1] = m[o] + (IF o \in Wanted(ft, fv) THEN 1 ELSE 0)
  <1> DEFINE c == CHOOSE g : Scans(ft, fv, audit_count, g)
  <1>1. audit_count \in Nat
    BY AuditAssumption DEF AuditTypeOK, N
  <1>2. Scans(ft, fv, audit_count, c)
    BY <1>1, ScanExists
  <1>3. Matched(ft, fv) = c
    BY DEF Matched, Scans
  <1> HIDE DEF c
  <1>4. ASSUME NEW o \in 0 .. audit_count
        PROVE  c[o] = IF o = 0 THEN 0
                      ELSE c[o - 1] + (IF Matches(ft, fv, audit_events[Position(o - 1)]) THEN 1 ELSE 0)
    BY <1>2 DEF Scans
  <1>5. c[0] = 0
    BY <1>1, <1>4
  <1>6. ASSUME NEW o \in 0 .. audit_count - 1
        PROVE  c[o + 1] = c[o] + (IF o \in Wanted(ft, fv) THEN 1 ELSE 0)
    <2>1. o + 1 \in 0 .. audit_count /\ o + 1 # 0 /\ (o + 1) - 1 = o
      BY <1>1
    <2>2. c[o + 1] = c[o] + (IF Matches(ft, fv, audit_events[Position(o)]) THEN 1 ELSE 0)
      BY <1>4, <2>1
    <2>3. QED
      BY <2>2 DEF Wanted
  <1>7. QED
    BY <1>3, <1>5, <1>6

(* m counts the members of W, which are below c. *)
Counts(m, W, c) ==
    /\ \A o \in W : o \in Nat /\ o < c
    /\ m[0] = 0
    /\ \A o \in 0 .. c - 1 : m[o + 1] = m[o] + (IF o \in W THEN 1 ELSE 0)

(* Counting the members of W from below numbers them in ascending order. *)
LEMMA Counting ==
    ASSUME NEW c \in Nat, NEW W, NEW m, Counts(m, W, c)
    PROVE  /\ m[c] \in 0 .. c
           /\ \A o \in W : m[o] \in 0 .. m[c] - 1
           /\ \A o, p \in W : o < p => m[o] < m[p]
           /\ \A k \in 0 .. m[c] - 1 : \E o \in W : m[o] = k
  <1> DEFINE Good(n) == /\ m[n] \in 0 .. n
                        /\ \A o \in W : o < n => m[o] \in 0 .. m[n] - 1
                        /\ \A o, p \in W : o < p /\ p < n => m[o] < m[p]
                        /\ \A k \in 0 .. m[n] - 1 : \E o \in W : o < n /\ m[o] = k
             T == {n \in Nat : n <= c => Good(n)}
  <1>0. /\ \A o \in W : o \in Nat /\ o < c
        /\ m[0] = 0
        /\ \A o \in 0 .. c - 1 : m[o + 1] = m[o] + (IF o \in W THEN 1 ELSE 0)
    BY DEF Counts
  <1>1. 0 \in T
    BY <1>0
  <1>2. ASSUME NEW n \in T PROVE n + 1 \in T
    <2>1. SUFFICES ASSUME n + 1 <= c PROVE Good(n + 1)
      OBVIOUS
    <2>2. n \in Nat /\ n \in 0 .. c - 1 /\ Good(n)
      BY <2>1
    <2>3. CASE n \in W
      <3>1. m[n + 1] = m[n] + 1 /\ m[n] \in Nat
        BY <1>0, <2>2, <2>3
      <3>2. \A o \in W : o \in Nat /\ (o < n + 1 <=> o < n \/ o = n)
        BY <1>0, <2>2
      <3>3. m[n + 1] \in 0 .. n + 1
        BY <2>2, <3>1
      <3>4. \A o \in W : o < n + 1 => m[o] \in 0 .. m[n + 1] - 1
        BY <2>2, <3>1, <3>2
      <3>5. \A o, p \in W : o < p /\ p < n + 1 => m[o] < m[p]
        BY <2>2, <3>1, <3>2
      <3>6. \A k \in 0 .. m[n + 1] - 1 : \E o \in W : o < n + 1 /\ m[o] = k
        BY <2>2, <2>3, <3>1, <3>2
      <3>7. QED
        BY <3>3, <3>4, <3>5, <3>6
    <2>4. CASE n \notin W
      <3>1. m[n + 1] = m[n] /\ m[n] \in Nat
        BY <1>0, <2>2, <2>4
      <3>2. ASSUME NEW o \in W PROVE o \in Nat /\ (o < n + 1 <=> o < n)
        <4>1. o \in Nat /\ o # n
          BY <1>0, <2>4
        <4>2. QED
          BY <2>2, <4>1
      <3>3. QED
        BY <2>2, <3>1, <3>2
    <2>5. QED
      BY <2>3, <2>4
  <1>3. T = Nat
    <2> HIDE DEF T
    <2>1. T \in SUBSET Nat
      BY DEF T
    <2>2. QED
      BY <1>1, <1>2, <2>1, OffsetInduction
  <1>4. Good(c)
    BY <1>3
  <1>5. QED
    BY <1>0, <1>4

(* What the scan of security_audit_get_filtered finds. *)
LEMMA FilteredFinds ==
    ASSUME AuditTypeOK, NEW ft \in Nat, NEW fv
    PROVE  \E count \in 0 .. N : \E pick \in [0 .. count - 1 -> Wanted(ft, fv)] :
              /\ \A j, k \in 0 .. count - 1 : j < k => pick[j] < pick[k]
              /\ \A o \in Wanted(ft, fv) : \E k \in 0 .. count - 1 : pick[k] = o
              /\ \A index \in Nat :
                    security_audit_get_filtered(ft, fv, index)
                      = IF ft <= 2 /\ index < count
                        THEN <<1, audit_events[Position(pick[index])]>> ELSE Failure
  <1> DEFINE W == Wanted(ft, fv)
             m == Matched(ft, fv)
             count == m[audit_count]
             pick == [k \in 0 .. count - 1 |-> CHOOSE o \in W : m[o] = k]
  <1>1. audit_count \in Nat /\ audit_count \in 0 .. N /\ N \in Nat
    BY AuditAssumption DEF AuditTypeOK, N
  <1>2. \A o \in W : o \in Nat /\ o < audit_count
    BY <1>1 DEF Wanted
  <1>3. Counts(m, W, audit_count)
    BY <1>2, MatchedCounts DEF Counts
  <1> HIDE DEF W, m
  <1>4. /\ m[audit_count] \in 0 .. audit_count
        /\ \A o \in W : m[o] \in 0 .. count - 1
        /\ \A o, p \in W : o < p => m[o] < m[p]
        /\ \A k \in 0 .. count - 1 : \E o \in W : m[o] = k
    BY <1>1, <1>3, Counting
  <1>5. count \in 0 .. N /\ count \in Nat
    BY <1>1, <1>4
  <1>6. \A o, p \in W : m[o] = m[p] => o = p
    <2>1. \A o \in W : o \in Nat /\ m[o] \in Nat
      BY <1>1, <1>2, <1>4, <1>5
    <2>2. QED
      BY <1>4, <2>1
  <1>7. \A k \in 0 .. count - 1 : pick[k] \in W /\ m[pick[k]] = k
    BY <1>4
  <1>8. pick \in [0 .. count - 1 -> W]
    BY <1>7
  <1> HIDE DEF pick
  <1>9. ASSUME NEW j \in 0 .. count - 1, NEW k \in 0 .. count - 1, j < k
        PROVE  pick[j] < pick[k]
    <2>1. pick[j] \in W /\ pick[k] \in W /\ m[pick[j]] = j /\ m[pick[k]] = k
      BY <1>7
    <2>2. pick[j] \in Nat /\ pick[k] \in Nat
      BY <1>1, <1>2, <2>1
    <2>3. ~ (pick[k] < pick[j]) /\ pick[j] # pick[k]
      BY <1>4, <1>5, <1>9, <2>1
    <2>4. QED
      BY <2>2, <2>3
  <1>10. \A o \in W : \E k \in 0 .. count - 1 : pick[k] = o
    BY <1>4, <1>6, <1>7
  <1>11. ASSUME NEW index \in Nat
         PROVE  security_audit_get_filtered(ft, fv, index)
                  = IF ft <= 2 /\ index < count
                    THEN <<1, audit_events[Position(pick[index])]>> ELSE Failure
    <2> DEFINE hits == {o \in 0 .. audit_count - 1 :
                           /\ Matches(ft, fv, audit_events[Position(o)])
                           /\ m[o] = index}
    <2>1. hits = {o \in W : m[o] = index}
      BY DEF W, Wanted
    <2>2. security_audit_get_filtered(ft, fv, index) =
             IF ft > 2 \/ hits = {} THEN Failure
             ELSE <<1, audit_events[Position(CHOOSE o \in hits : TRUE)]>>
      BY DEF security_audit_get_filtered, m, SECURITY_AUDIT_FILTER_OPERATION
    <2> HIDE DEF hits
    <2>3. ft > 2 <=> ~ (ft <= 2)
      OBVIOUS
    <2>4. CASE index < count
      <3>1. index \in 0 .. count - 1
        BY <1>5, <2>4
      <3>2. hits = {pick[index]}
        BY <1>6, <1>7, <2>1, <3>1
      <3>3. (CHOOSE o \in hits : TRUE) = pick[index]
        BY <3>2
      <3>4. QED
        BY <2>2, <2>3, <2>4, <3>2, <3>3
    <2>5. CASE ~ (index < count)
      <3>1. hits = {}
        BY <1>4, <1>5, <2>1, <2>5
      <3>2. QED
        BY <2>2, <2>5, <3>1
    <2>6. QED
      BY <2>4, <2>5
  <1> HIDE DEF count
  <1>12. QED
    BY <1>5, <1>8, <1>9, <1>10, <1>11 DEF W

(* For every capacity of the ring, reading by filter and index goes through the events
   that pass the filter in the order they were recorded, after any number of events
   and clearings. *)
THEOREM FilteredReadSelects == AuditSpec => []FilteredReadIsSelection
  <1>1. AuditTypeOK => FilteredReadIsSelection
    <2> SUFFICES ASSUME AuditTypeOK PROVE FilteredReadIsSelection
      OBVIOUS
    <2>1. 0 .. 3 \subseteq Nat /\ 0 .. N \subseteq Nat
      OBVIOUS
    <2>2. QED
      BY <2>1, FilteredFinds DEF FilteredReadIsSelection
  <1>2. QED
    BY <1>1, AuditTypeCorrect, PTL
=============================================================================

------------------------- MODULE PaymentLedgerProofs -------------------------
(***************************************************************************)
(* Proofs about PaymentLedger, for any number of payments, callers and     *)
(* calls.  LedgerInv is inductive: because a transaction that updates a    *)
(* row holds its lock and has read it as it is (UpdatesUnderLock), every   *)
(* commit merges one input into the record, and a merge keeps the three    *)
(* properties, whatever the order of the inputs.                           *)
(***************************************************************************)
EXTENDS PaymentLedger, TLAPS

LEMMA RankFacts ==
  /\ \A s \in PaymentStatuses \cup {"ABSENT"} : paymentStatusRank(s) \in 0..5
  /\ \A s \in PaymentStatuses : paymentStatusRank(s) >= 1
BY DEF PaymentStatuses, paymentStatusRank

\* A merge keeps the record's type, never lowers its rank or its time, takes in
\* what the input knows, and erases nothing.
LEMMA MergeFacts ==
  ASSUME NEW existing \in Record, existing.status # "ABSENT", NEW in \in Input,
         NEW m, m = Merged(existing, in)
  PROVE  /\ m \in Record /\ m.status \in {in.status, existing.status}
         /\ m.status # "ABSENT"
         /\ paymentStatusRank(m.status) >= paymentStatusRank(existing.status)
         /\ paymentStatusRank(m.status) >= paymentStatusRank(in.status)
         /\ m.identity = IF in.identity # NoIdentity THEN in.identity ELSE existing.identity
         /\ m.at \in {in.at, existing.at} /\ m.at >= in.at /\ m.at >= existing.at
<1>1. in \in Record /\ in.status # "ABSENT"
  BY DEF Input
<1>2. m \in Record
  BY <1>1 DEF Merged, MergedStatus, Record
<1>3. /\ m.status = IF paymentStatusRank(in.status) >= paymentStatusRank(existing.status)
                    THEN in.status ELSE existing.status
      /\ m.identity = IF in.identity # NoIdentity THEN in.identity ELSE existing.identity
      /\ m.at = IF in.at > existing.at THEN in.at ELSE existing.at
  BY DEF Merged, MergedStatus
<1>4. /\ paymentStatusRank(in.status) \in Int /\ paymentStatusRank(existing.status) \in Int
      /\ in.at \in Int /\ existing.at \in Int
  BY <1>1, RankFacts, MaxTimeAssumption DEF Record
<1> QED
  BY <1>1, <1>2, <1>3, <1>4

LEMMA LedgerInit == Init => LedgerInv
<1> SUFFICES ASSUME Init PROVE LedgerInv
  OBVIOUS
<1>1. NoRecord \in Record
  BY MaxTimeAssumption DEF NoRecord, Record
<1>2. NoCall \in Call /\ NoCall.pc = "idle"
  BY <1>1 DEF NoCall, Call
<1>3. TypeOK
  BY <1>1, <1>2, MaxUpsertsAssumption DEF Init, TypeOK
<1> QED
  BY <1>2, <1>3
  DEF Init, LedgerInv, NoRecord, UpdatesUnderLock, CallsHaveInput, AbsentIsBlank,
      BlankIsBlank, StatusIsTopRanked, StatusReported, IdentityKept, LatestOccurrence

\* A call that goes idle without a commit, giving up its lock if it had one.
LEMMA GivesUp ==
  ASSUME LedgerInv, NEW c \in Callers, call' = [call EXCEPT ![c] = NoCall],
         UNCHANGED <<record, applied, begun>>,
         lock' \in [Payments -> Callers \cup {NoCaller}],
         \A d \in Callers : d # c /\ call[d].pc = "update" =>
           lock'[call[d].payment] = lock[call[d].payment]
  PROVE  LedgerInv'
<1> USE DEF LedgerInv
<1>1. NoCall \in Call /\ NoCall.pc = "idle"
  BY MaxTimeAssumption DEF NoCall, Call, NoRecord, Record
<1>2. TypeOK'
  BY <1>1 DEF TypeOK
<1>3. call'[c] = NoCall /\ \A d \in Callers : d # c => call'[d] = call[d]
  BY DEF TypeOK
<1>4. UpdatesUnderLock' /\ CallsHaveInput'
  BY <1>1, <1>3 DEF UpdatesUnderLock, CallsHaveInput
<1>5. AbsentIsBlank' /\ BlankIsBlank' /\ StatusIsTopRanked' /\ StatusReported'
  BY DEF AbsentIsBlank, BlankIsBlank, StatusIsTopRanked, StatusReported
<1>6. IdentityKept' /\ LatestOccurrence'
  BY DEF IdentityKept, LatestOccurrence
<1> QED
  BY <1>2, <1>4, <1>5, <1>6

\* A commit by c of row r, which takes in c's input and keeps what was there;
\* no other transaction is about to update the row.
LEMMA Commits ==
  ASSUME LedgerInv, NEW c \in Callers, NEW p \in Payments, p = call[c].payment,
         NEW in \in Input, in = call[c].input, NEW r \in Record, Commit(c, r),
         lock' \in [Payments -> Callers \cup {NoCaller}],
         \A d \in Callers : d # c /\ call[d].pc = "update" =>
           call[d].payment # p /\ lock'[call[d].payment] = lock[call[d].payment],
         r.status # "ABSENT",
         r.status \in {in.status, record[p].status},
         paymentStatusRank(r.status) >= paymentStatusRank(record[p].status),
         paymentStatusRank(r.status) >= paymentStatusRank(in.status),
         r.identity = IF in.identity # NoIdentity THEN in.identity ELSE record[p].identity,
         r.at >= in.at, r.at >= record[p].at,
         r.at = in.at \/ (r.at = record[p].at /\ record[p].status # "ABSENT")
  PROVE  LedgerInv'
<1> USE DEF LedgerInv
<1>1. /\ record' = [record EXCEPT ![p] = r]
      /\ applied' = [applied EXCEPT ![p] = @ \cup {in}]
      /\ call' = [call EXCEPT ![c] = NoCall] /\ UNCHANGED begun
  BY DEF Commit
<1>2. NoCall \in Call /\ NoCall.pc = "idle"
  BY MaxTimeAssumption DEF NoCall, Call, NoRecord, Record
<1>3. TypeOK'
  BY <1>1, <1>2 DEF TypeOK
<1>4. /\ record'[p] = r /\ applied'[p] = applied[p] \cup {in}
      /\ \A q \in Payments : q # p => record'[q] = record[q] /\ applied'[q] = applied[q]
      /\ call'[c] = NoCall /\ \A d \in Callers : d # c => call'[d] = call[d]
  BY <1>1 DEF TypeOK
<1>5. UpdatesUnderLock' /\ CallsHaveInput'
  BY <1>2, <1>4 DEF UpdatesUnderLock, CallsHaveInput
<1>6. AbsentIsBlank' /\ BlankIsBlank'
  <2>1. in \in applied'[p]
    BY <1>4
  <2>2. applied'[p] # {}
    BY <2>1
  <2>3. AbsentIsBlank'
    BY <1>4, <2>2 DEF AbsentIsBlank
  <2> QED
    BY <1>4, <2>3 DEF BlankIsBlank
<1>7. StatusIsTopRanked'
  <2>1. \A i \in applied[p] : /\ paymentStatusRank(i.status) \in Int
                              /\ paymentStatusRank(i.status) <= paymentStatusRank(record[p].status)
    BY RankFacts DEF StatusIsTopRanked, TypeOK, Input, Record
  <2>2. paymentStatusRank(r.status) \in Int /\ paymentStatusRank(record[p].status) \in Int
    BY RankFacts DEF TypeOK, Record
  <2>3. \A i \in applied'[p] : paymentStatusRank(i.status) <= paymentStatusRank(record'[p].status)
    BY <1>4, <2>1, <2>2
  <2> QED
    BY <1>4, <2>3 DEF StatusIsTopRanked
<1>8. StatusReported'
  BY <1>4 DEF StatusReported
<1>9. IdentityKept'
  <2>1. CASE in.identity # NoIdentity
    BY <1>4, <2>1 DEF IdentityKept
  <2>2. CASE in.identity = NoIdentity
    <3>1. r.identity = record[p].identity
      BY <2>2
    <3> QED
      BY <1>4, <2>2, <3>1 DEF IdentityKept
  <2> QED BY <2>1, <2>2
<1>10. LatestOccurrence'
  <2>1. \A i \in applied[p] : i.at \in Int /\ i.at <= record[p].at
    BY MaxTimeAssumption DEF LatestOccurrence, TypeOK, Input, Record
  <2>2. r.at \in Int /\ record[p].at \in Int /\ in.at \in Int
    BY MaxTimeAssumption DEF TypeOK, Record, Input
  <2>3. \A i \in applied'[p] : i.at <= record'[p].at
    BY <1>4, <2>1, <2>2
  <2>4. \E i \in applied'[p] : i.at = record'[p].at
    BY <1>4 DEF LatestOccurrence, AbsentIsBlank
  <2> QED
    BY <1>4, <2>3, <2>4 DEF LatestOccurrence
<1> QED
  BY <1>3, <1>5, <1>6, <1>7, <1>8, <1>9, <1>10

\* Every step of UpsertPayment preserves the invariant.
LEMMA LedgerNext == LedgerInv /\ [Next]_vars => LedgerInv'
<1> SUFFICES ASSUME LedgerInv, [Next]_vars PROVE LedgerInv'
  OBVIOUS
<1> USE DEF LedgerInv
<1>1. CASE UNCHANGED vars
  BY <1>1 DEF vars, TypeOK, UpdatesUnderLock, CallsHaveInput, AbsentIsBlank, BlankIsBlank,
              StatusIsTopRanked, StatusReported, IdentityKept, LatestOccurrence
<1>2. ASSUME NEW c \in Callers, NEW p \in Payments, NEW in \in Input, Begin(c, p, in)
      PROVE  LedgerInv'
  <2>1. [pc |-> "select", payment |-> p, input |-> in, existing |-> NoRecord] \in Call
    BY MaxTimeAssumption DEF Call, Input, NoRecord, Record
  <2>2. begun' \in 0..MaxUpserts
    BY <1>2, MaxUpsertsAssumption DEF Begin, TypeOK
  <2>3. TypeOK'
    BY <1>2, <2>1, <2>2 DEF Begin, TypeOK
  <2>4. /\ \A d \in Callers : d # c => call'[d] = call[d]
        /\ call'[c].pc = "select" /\ call'[c].payment = p /\ call'[c].input = in
    BY <1>2 DEF Begin, TypeOK
  <2>5. UNCHANGED <<record, lock, applied>>
    BY <1>2 DEF Begin
  <2>6. UpdatesUnderLock' /\ CallsHaveInput'
    BY <2>4, <2>5 DEF UpdatesUnderLock, CallsHaveInput
  <2>7. AbsentIsBlank' /\ BlankIsBlank' /\ StatusIsTopRanked' /\ StatusReported'
    BY <2>5 DEF AbsentIsBlank, BlankIsBlank, StatusIsTopRanked, StatusReported
  <2>8. IdentityKept' /\ LatestOccurrence'
    BY <2>5 DEF IdentityKept, LatestOccurrence
  <2> QED
    BY <2>3, <2>6, <2>7, <2>8
<1>3. ASSUME NEW c \in Callers, Select(c) PROVE LedgerInv'
  <2> DEFINE p == call[c].payment
  <2>1. p \in Payments /\ call[c] \in Call /\ record[p] \in Record /\ call[c].input \in Input
    BY <1>3 DEF Select, CallsHaveInput, TypeOK
  <2>2. UNCHANGED <<record, applied, begun>>
    BY <1>3 DEF Select
  <2>3. AbsentIsBlank' /\ BlankIsBlank' /\ StatusIsTopRanked' /\ StatusReported'
    BY <2>2 DEF AbsentIsBlank, BlankIsBlank, StatusIsTopRanked, StatusReported
  <2>4. IdentityKept' /\ LatestOccurrence'
    BY <2>2 DEF IdentityKept, LatestOccurrence
  <2>5. CASE record[p].status = "ABSENT"
    <3>1. call' = [call EXCEPT ![c].pc = "create"] /\ UNCHANGED lock
      BY <1>3, <2>5 DEF Select
    <3>2. [call[c] EXCEPT !.pc = "create"] \in Call
      BY <2>1 DEF Call
    <3>3. TypeOK'
      BY <2>2, <3>1, <3>2 DEF TypeOK
    <3>4. /\ \A d \in Callers : d # c => call'[d] = call[d]
          /\ call'[c].pc = "create" /\ call'[c].payment = p /\ call'[c].input = call[c].input
      BY <2>1, <3>1 DEF TypeOK, Call
    <3>5. UpdatesUnderLock' /\ CallsHaveInput'
      BY <2>1, <2>2, <3>1, <3>4 DEF UpdatesUnderLock, CallsHaveInput
    <3> QED
      BY <2>3, <2>4, <3>3, <3>5
  <2>6. CASE record[p].status # "ABSENT"
    <3>1. /\ lock[p] = NoCaller /\ lock' = [lock EXCEPT ![p] = c]
          /\ call' = [call EXCEPT ![c].pc = "update", ![c].existing = record[p]]
      BY <1>3, <2>6 DEF Select
    <3>2. [call[c] EXCEPT !.pc = "update", !.existing = record[p]] \in Call
      BY <2>1 DEF Call
    <3>3. TypeOK'
      BY <2>2, <3>1, <3>2 DEF TypeOK
    <3>4. /\ \A d \in Callers : d # c => call'[d] = call[d]
          /\ call'[c].payment = p /\ call'[c].input = call[c].input
          /\ call'[c].existing = record[p]
      BY <2>1, <3>1 DEF TypeOK, Call
    <3>5. UpdatesUnderLock'
      BY <2>1, <2>2, <2>6, <3>1, <3>4, NoCallerAssumption DEF UpdatesUnderLock, TypeOK
    <3>6. CallsHaveInput'
      BY <2>1, <3>4 DEF CallsHaveInput
    <3> QED
      BY <2>3, <2>4, <3>3, <3>5, <3>6
  <2> QED BY <2>5, <2>6
<1>4. ASSUME NEW c \in Callers, Create(c) PROVE LedgerInv'
  <2> DEFINE p == call[c].payment
             in == call[c].input
  <2>1. p \in Payments /\ in \in Input /\ in \in Record /\ in.status # "ABSENT"
    BY <1>4 DEF Create, CallsHaveInput, Input
  <2>2. record[p] = NoRecord
    BY <1>4, <2>1 DEF Create, BlankIsBlank
  <2>3. /\ paymentStatusRank(in.status) \in Int /\ paymentStatusRank(in.status) >= 0
        /\ paymentStatusRank("ABSENT") = 0 /\ in.at \in Int /\ in.at >= 0
    BY <2>1, RankFacts, MaxTimeAssumption DEF Record, paymentStatusRank
  <2>4. ASSUME NEW d \in Callers, d # c, call[d].pc = "update" PROVE call[d].payment # p
    BY <2>2, <2>4 DEF UpdatesUnderLock, NoRecord
  <2>5. Commit(c, in) /\ UNCHANGED lock
    BY <1>4 DEF Create
  <2>6. lock' \in [Payments -> Callers \cup {NoCaller}]
    BY <2>5 DEF TypeOK
  <2>7. in.identity = IF in.identity # NoIdentity THEN in.identity ELSE record[p].identity
    BY <2>2 DEF NoRecord
  <2>8. /\ paymentStatusRank(in.status) >= paymentStatusRank(record[p].status)
        /\ in.at >= record[p].at
    BY <2>2, <2>3 DEF NoRecord
  <2> HIDE DEF in, p
  <2> QED
    BY <2>1, <2>3, <2>4, <2>5, <2>6, <2>7, <2>8, Commits DEF p, in
<1>5. ASSUME NEW c \in Callers, CreateConflicts(c) PROVE LedgerInv'
  BY <1>5, GivesUp DEF CreateConflicts, TypeOK
<1>6. ASSUME NEW c \in Callers, Update(c) PROVE LedgerInv'
  <2> DEFINE p == call[c].payment
             in == call[c].input
             r == Merged(call[c].existing, in)
  <2>1. /\ p \in Payments /\ in \in Input /\ lock[p] = c /\ record[p] \in Record
        /\ call[c].existing = record[p] /\ record[p].status # "ABSENT"
    BY <1>6 DEF Update, CallsHaveInput, UpdatesUnderLock, TypeOK
  <2>2. /\ r \in Record /\ r.status \in {in.status, record[p].status} /\ r.status # "ABSENT"
        /\ paymentStatusRank(r.status) >= paymentStatusRank(record[p].status)
        /\ paymentStatusRank(r.status) >= paymentStatusRank(in.status)
        /\ r.identity = IF in.identity # NoIdentity THEN in.identity ELSE record[p].identity
        /\ r.at \in {in.at, record[p].at} /\ r.at >= in.at /\ r.at >= record[p].at
    BY <2>1, MergeFacts
  <2>3. ASSUME NEW d \in Callers, d # c, call[d].pc = "update" PROVE call[d].payment # p
    BY <2>1, <2>3 DEF UpdatesUnderLock
  <2>4. Commit(c, r) /\ lock' = [lock EXCEPT ![p] = NoCaller]
    BY <1>6 DEF Update, Unlock
  <2>5. lock' \in [Payments -> Callers \cup {NoCaller}]
    BY <2>4 DEF TypeOK
  <2>6. ASSUME NEW d \in Callers, d # c, call[d].pc = "update"
        PROVE  lock'[call[d].payment] = lock[call[d].payment]
    BY <2>3, <2>4, <2>6 DEF UpdatesUnderLock, TypeOK
  <2> HIDE DEF in, p, r
  <2> QED
    BY <2>1, <2>2, <2>3, <2>4, <2>5, <2>6, Commits DEF p, in
<1>7. ASSUME NEW c \in Callers, Rollback(c) PROVE LedgerInv'
  <2>1. call' = [call EXCEPT ![c] = NoCall] /\ UNCHANGED <<record, applied, begun>>
    BY <1>7 DEF Rollback
  <2>2. lock' \in [Payments -> Callers \cup {NoCaller}]
    BY <1>7 DEF Rollback, Unlock, TypeOK
  <2>3. ASSUME NEW d \in Callers, d # c, call[d].pc = "update"
        PROVE  lock'[call[d].payment] = lock[call[d].payment]
    <3>1. lock[call[d].payment] = d /\ call[d].payment \in Payments
      BY <2>3 DEF UpdatesUnderLock
    <3>2. CASE call[c].pc = "update"
      BY <1>7, <2>3, <3>1, <3>2 DEF Rollback, Unlock, UpdatesUnderLock, TypeOK
    <3>3. CASE call[c].pc # "update"
      BY <1>7, <3>3 DEF Rollback
    <3> QED BY <3>2, <3>3
  <2> QED
    BY <2>1, <2>2, <2>3, GivesUp
<1> QED
  BY <1>1, <1>2, <1>3, <1>4, <1>5, <1>6, <1>7 DEF Next

\* The invariant holds throughout every behaviour of the table.
THEOREM LedgerInvariant == Spec => []LedgerInv
  BY LedgerInit, LedgerNext, PTL DEF Spec

\* StatusIsTopRanked: a record has the highest-ranked status ever committed to
\* it, for any number of payments, callers and calls in any overlap.
THEOREM StatusIsTopRankedHolds == Spec => []StatusIsTopRanked
<1>1. LedgerInv => StatusIsTopRanked
  BY DEF LedgerInv
<1> QED
  BY <1>1, LedgerInvariant, PTL

\* IdentityKept: a payment's owner, once known, is never erased.
THEOREM IdentityKeptHolds == Spec => []IdentityKept
<1>1. LedgerInv => IdentityKept
  BY DEF LedgerInv
<1> QED
  BY <1>1, LedgerInvariant, PTL

\* LatestOccurrence: occurred_at is the latest of the committed ones.
THEOREM LatestOccurrenceHolds == Spec => []LatestOccurrence
<1>1. LedgerInv => LatestOccurrence
  BY DEF LedgerInv
<1> QED
  BY <1>1, LedgerInvariant, PTL

-----------------------------------------------------------------------------
\* LocksAreHeld: a row lock belongs to a transaction that is about to commit, so
\* those that wait for a lock never wait in a circle, and no lock is left behind.
THEOREM LocksAreHeldHolds == Spec => []LocksAreHeld
<1>1. Init => LocksAreHeld
  BY DEF Init, LocksAreHeld
<1>2. LedgerInv /\ LocksAreHeld /\ [Next]_vars => LocksAreHeld'
  <2> SUFFICES ASSUME LedgerInv, LocksAreHeld, [Next]_vars,
                      NEW p \in Payments, lock'[p] # NoCaller
               PROVE  call'[lock'[p]].pc = "update" /\ call'[lock'[p]].payment = p
    BY DEF LocksAreHeld
  <2> USE DEF LedgerInv
  <2>1. ASSUME NEW c \in Callers, lock'[p] = lock[p], call[c].pc # "update",
               \A d \in Callers : d # c => call'[d] = call[d]
        PROVE  call'[lock'[p]].pc = "update" /\ call'[lock'[p]].payment = p
    BY <2>1 DEF LocksAreHeld, TypeOK
  <2>2. ASSUME NEW c \in Callers, call[c].pc = "update",
               lock' = [lock EXCEPT ![call[c].payment] = NoCaller],
               \A d \in Callers : d # c => call'[d] = call[d]
        PROVE  call'[lock'[p]].pc = "update" /\ call'[lock'[p]].payment = p
    <3>1. p # call[c].payment /\ lock'[p] = lock[p]
      BY <2>2 DEF TypeOK
    <3>2. lock[p] \in Callers /\ lock[p] # c
      BY <3>1 DEF LocksAreHeld, TypeOK
    <3> QED
      BY <2>2, <3>1, <3>2 DEF LocksAreHeld
  <2>3. CASE UNCHANGED vars
    BY <2>3 DEF vars, LocksAreHeld
  <2>4. ASSUME NEW c \in Callers,
               \/ \E q \in Payments, in \in Input : Begin(c, q, in)
               \/ Create(c) \/ CreateConflicts(c)
        PROVE  call'[lock'[p]].pc = "update" /\ call'[lock'[p]].payment = p
    BY <2>1, <2>4 DEF Begin, Create, CreateConflicts, Commit, TypeOK
  <2>5. ASSUME NEW c \in Callers, Select(c)
        PROVE  call'[lock'[p]].pc = "update" /\ call'[lock'[p]].payment = p
    <3>1. CASE record[call[c].payment].status = "ABSENT"
      BY <2>1, <2>5, <3>1 DEF Select, TypeOK
    <3>2. CASE record[call[c].payment].status # "ABSENT"
      <4>1. /\ lock' = [lock EXCEPT ![call[c].payment] = c]
            /\ call' = [call EXCEPT ![c].pc = "update", ![c].existing = record[call[c].payment]]
            /\ call[c].pc = "select" /\ call[c] \in Call
        BY <2>5, <3>2 DEF Select, TypeOK
      <4>2. call'[c].pc = "update" /\ call'[c].payment = call[c].payment
        BY <4>1 DEF TypeOK, Call
      <4>3. CASE p = call[c].payment
        BY <4>1, <4>2, <4>3 DEF TypeOK
      <4>4. CASE p # call[c].payment
        <5>1. lock'[p] = lock[p] /\ \A d \in Callers : d # c => call'[d] = call[d]
          BY <4>1, <4>4 DEF TypeOK
        <5> QED
          BY <2>1, <4>1, <5>1
      <4> QED
        BY <4>3, <4>4
    <3> QED
      BY <3>1, <3>2
  <2>6. ASSUME NEW c \in Callers, Update(c)
        PROVE  call'[lock'[p]].pc = "update" /\ call'[lock'[p]].payment = p
    BY <2>2, <2>6 DEF Update, Unlock, Commit, TypeOK
  <2>7. ASSUME NEW c \in Callers, Rollback(c)
        PROVE  call'[lock'[p]].pc = "update" /\ call'[lock'[p]].payment = p
    BY <2>1, <2>2, <2>7 DEF Rollback, Unlock, TypeOK
  <2> QED
    BY <2>3, <2>4, <2>5, <2>6, <2>7 DEF Next
<1> QED
  BY <1>1, <1>2, LedgerInvariant, PTL DEF Spec

LEMMA OneRankOneStatus ==
  ASSUME NEW s \in PaymentStatuses, NEW t \in PaymentStatuses,
         paymentStatusRank(s) = paymentStatusRank(t)
  PROVE  SameStatus(s, t)
BY DEF PaymentStatuses, paymentStatusRank, SameStatus

\* RedeliveryHarmless: an event that the record has taken in already ranks no
\* higher than the record and is no later, so merging it again changes neither.
THEOREM RedeliveryHarmlessHolds == Spec => RedeliveryHarmless
<1> DEFINE Harmless ==
      \A p \in Payments : applied'[p] = applied[p] =>
        /\ SameStatus(record'[p].status, record[p].status)
        /\ record'[p].at = record[p].at
<1>1. ASSUME LedgerInv, [Next]_vars, NEW p \in Payments, applied'[p] = applied[p]
      PROVE  /\ SameStatus(record'[p].status, record[p].status)
             /\ record'[p].at = record[p].at
  <2> USE <1>1 DEF LedgerInv
  <2>1. CASE record'[p] = record[p]
    BY <2>1 DEF SameStatus
  <2>2. ASSUME NEW c \in Callers, NEW r, Commit(c, r), call[c].pc # "idle", p = call[c].payment
        PROVE  /\ call[c].input \in applied[p] /\ call[c].input \in Input
               /\ record'[p] = r /\ record[p].status # "ABSENT"
    <3>1. applied'[p] = applied[p] \cup {call[c].input} /\ record'[p] = r
      BY <2>2 DEF Commit, TypeOK
    <3>2. call[c].input \in applied[p]
      BY <1>1, <3>1
    <3> QED
      BY <2>2, <3>1, <3>2 DEF AbsentIsBlank, CallsHaveInput
  <2>3. ASSUME NEW c \in Callers, Create(c), p = call[c].payment PROVE FALSE
    BY <2>2, <2>3 DEF Create
  <2>4. ASSUME NEW c \in Callers, Update(c), p = call[c].payment
        PROVE  /\ SameStatus(record'[p].status, record[p].status)
               /\ record'[p].at = record[p].at
    <3> DEFINE in == call[c].input
               r == Merged(call[c].existing, in)
    <3>1. /\ in \in applied[p] /\ in \in Input
          /\ record'[p] = r /\ record[p].status # "ABSENT"
      BY <2>2, <2>4 DEF Update
    <3>2. call[c].existing = record[p] /\ record[p] \in Record
      BY <2>4 DEF Update, UpdatesUnderLock, TypeOK
    <3>3. /\ paymentStatusRank(in.status) <= paymentStatusRank(record[p].status)
          /\ in.at <= record[p].at
      BY <3>1 DEF StatusIsTopRanked, LatestOccurrence
    <3>4. /\ r \in Record /\ r.status \in {in.status, record[p].status} /\ r.status # "ABSENT"
          /\ paymentStatusRank(r.status) >= paymentStatusRank(record[p].status)
          /\ r.at \in {in.at, record[p].at} /\ r.at >= record[p].at
      BY <3>1, <3>2, MergeFacts
    <3> HIDE DEF in, r
    <3>5. /\ paymentStatusRank(in.status) \in Int /\ in.at \in Int
          /\ paymentStatusRank(record[p].status) \in Int /\ record[p].at \in Int
      BY <3>1, <3>2, RankFacts, MaxTimeAssumption DEF Input, Record
    <3>6. r.at = record[p].at
      BY <3>3, <3>4, <3>5
    <3>7. paymentStatusRank(r.status) = paymentStatusRank(record[p].status)
      BY <3>3, <3>4, <3>5
    <3>8. r.status \in PaymentStatuses /\ record[p].status \in PaymentStatuses
      BY <3>1, <3>2, <3>4 DEF Record
    <3> QED
      BY <3>1, <3>6, <3>7, <3>8, OneRankOneStatus
  <2>5. ASSUME NEW c \in Callers, NEW r, Commit(c, r), p # call[c].payment
        PROVE  record'[p] = record[p]
    BY <2>5 DEF Commit, TypeOK
  <2>6. ASSUME NEW c \in Callers,
               \/ \E q \in Payments, in \in Input : Begin(c, q, in)
               \/ Select(c) \/ CreateConflicts(c) \/ Rollback(c)
        PROVE  record'[p] = record[p]
    BY <2>6 DEF Begin, Select, CreateConflicts, Rollback
  <2>7. CASE UNCHANGED vars
    BY <2>1, <2>7 DEF vars
  <2>8. ASSUME NEW c \in Callers, Create(c) \/ Update(c), p # call[c].payment
        PROVE  record'[p] = record[p]
    BY <2>5, <2>8 DEF Create, Update
  <2> QED
    BY <1>1, <2>1, <2>3, <2>4, <2>6, <2>7, <2>8 DEF Next
<1>2. LedgerInv /\ [Next]_vars => [Harmless]_vars
  BY <1>1
<1> QED
  BY <1>2, LedgerInvariant, PTL DEF RedeliveryHarmless, Spec

\* OrderIrrelevant: rank and time of a record are the greatest of the events it
\* has taken in, which no order of them can change.
THEOREM OrderIrrelevantHolds == Spec => []OrderIrrelevant
<1>1. LedgerInv => OrderIrrelevant
  <2> SUFFICES ASSUME LedgerInv, NEW p \in Payments, NEW q \in Payments, applied[p] = applied[q]
               PROVE  /\ SameStatus(record[p].status, record[q].status)
                      /\ record[p].at = record[q].at
                      /\ record[p].identity = NoIdentity <=> record[q].identity = NoIdentity
    BY DEF OrderIrrelevant
  <2> USE DEF LedgerInv
  <2>1. CASE applied[p] = {}
    BY <2>1 DEF AbsentIsBlank, BlankIsBlank, SameStatus
  <2>2. CASE applied[p] # {}
    <3>1. record[p].status # "ABSENT" /\ record[q].status # "ABSENT"
      BY <2>2 DEF AbsentIsBlank
    <3>2. /\ record[p].at \in Int /\ record[q].at \in Int
          /\ paymentStatusRank(record[p].status) \in Int
          /\ paymentStatusRank(record[q].status) \in Int
          /\ record[p].status \in PaymentStatuses /\ record[q].status \in PaymentStatuses
      BY <3>1, RankFacts, MaxTimeAssumption DEF TypeOK, Record
    <3>3. record[p].at <= record[q].at /\ record[q].at <= record[p].at
      BY <2>2 DEF LatestOccurrence
    <3>4. /\ paymentStatusRank(record[p].status) <= paymentStatusRank(record[q].status)
          /\ paymentStatusRank(record[q].status) <= paymentStatusRank(record[p].status)
      BY <3>1 DEF StatusIsTopRanked, StatusReported
    <3>5. record[p].at = record[q].at
      BY <3>2, <3>3
    <3>6. SameStatus(record[p].status, record[q].status)
      BY <3>2, <3>4, OneRankOneStatus
    <3> QED
      BY <3>5, <3>6 DEF IdentityKept
  <2> QED
    BY <2>1, <2>2
<1> QED
  BY <1>1, LedgerInvariant, PTL

-----------------------------------------------------------------------------
\* A row of the table that a commit writes is one of the abstract record's.
LEMMA SameRecords == Input = Promise!Event /\ \A s : Promise!paymentStatusRank(s) = paymentStatusRank(s)
<1>1. ASSUME NEW r \in Record, r.status # "ABSENT" PROVE r \in Promise!Event
  BY <1>1 DEF Record, Promise!Event, Promise!PaymentStatuses, PaymentStatuses
<1>2. ASSUME NEW r \in Promise!Event PROVE r \in Record /\ r.status # "ABSENT"
  BY <1>2 DEF Record, Promise!Event, Promise!PaymentStatuses, PaymentStatuses
<1> QED
  BY <1>1, <1>2 DEF Input, Promise!paymentStatusRank, paymentStatusRank

\* ImplementsPaymentRecord: UpsertPayment's transaction is an atomic merge.  The
\* row that a Create fills is blank, and the one that an Update merges into is
\* what the record still is; every other statement is a stutter.
THEOREM LedgerImplementsRecord == Spec => ImplementsPaymentRecord
<1>1. Init => Promise!Init
  BY DEF Init, NoRecord, Promise!Init
<1>2. LedgerInv /\ [Next]_vars => [Promise!Next]_Promise!vars
  <2> SUFFICES ASSUME LedgerInv, [Next]_vars PROVE [Promise!Next]_Promise!vars
    OBVIOUS
  <2> USE DEF LedgerInv
  <2>1. ASSUME NEW c \in Callers, NEW p \in Payments, p = call[c].payment,
               NEW in \in Input, in = call[c].input, NEW r \in Input, Commit(c, r),
               Promise!TakesIn(record[p], in, r)
        PROVE  Promise!Next
    <3>1. record' = [record EXCEPT ![p] = r] /\ applied' = [applied EXCEPT ![p] = @ \cup {in}]
      BY <2>1 DEF Commit
    <3> QED
      BY <2>1, <3>1, SameRecords DEF Promise!Next, Promise!Upsert
  <2>2. ASSUME NEW c \in Callers, Create(c) PROVE Promise!Next
    <3> DEFINE p == call[c].payment
               in == call[c].input
    <3>1. p \in Payments /\ in \in Input /\ in \in Record /\ in.status # "ABSENT"
      BY <2>2 DEF Create, CallsHaveInput, Input
    <3>2. record[p] = NoRecord
      BY <2>2, <3>1 DEF Create, BlankIsBlank
    <3>3. /\ paymentStatusRank(in.status) \in Int /\ paymentStatusRank(in.status) >= 0
          /\ paymentStatusRank("ABSENT") = 0 /\ in.at \in Int /\ in.at >= 0
      BY <3>1, RankFacts, MaxTimeAssumption DEF Record, paymentStatusRank
    <3>4. Promise!TakesIn(NoRecord, in, in)
      BY <3>1, <3>3, SameRecords DEF NoRecord, Promise!TakesIn
    <3>5. Commit(c, in)
      BY <2>2 DEF Create
    <3> HIDE DEF p, in
    <3> QED
      BY <2>1, <3>1, <3>2, <3>4, <3>5 DEF p, in
  <2>3. ASSUME NEW c \in Callers, Update(c) PROVE Promise!Next
    <3> DEFINE p == call[c].payment
               in == call[c].input
               r == Merged(call[c].existing, in)
    <3>1. /\ p \in Payments /\ in \in Input /\ record[p] \in Record
          /\ call[c].existing = record[p] /\ record[p].status # "ABSENT"
      BY <2>3 DEF Update, CallsHaveInput, UpdatesUnderLock, TypeOK
    <3>2. /\ r \in Input /\ r.status \in {in.status, record[p].status}
          /\ paymentStatusRank(r.status) >= paymentStatusRank(record[p].status)
          /\ paymentStatusRank(r.status) >= paymentStatusRank(in.status)
          /\ r.identity = IF in.identity # NoIdentity THEN in.identity ELSE record[p].identity
          /\ r.at \in {in.at, record[p].at} /\ r.at >= in.at /\ r.at >= record[p].at
      BY <3>1, MergeFacts DEF Input
    <3>3. Promise!TakesIn(record[p], in, r)
      <4>1. /\ paymentStatusRank(r.status) \in Int /\ paymentStatusRank(in.status) \in Int
            /\ paymentStatusRank(record[p].status) \in Int
            /\ r.at \in Int /\ in.at \in Int /\ record[p].at \in Int
        BY <3>1, <3>2, RankFacts, MaxTimeAssumption DEF Input, Record
      <4> HIDE DEF p, in, r
      <4> QED
        BY <3>2, <4>1, SameRecords DEF Promise!TakesIn
    <3>4. Commit(c, r)
      BY <2>3 DEF Update
    <3> HIDE DEF p, in, r
    <3> QED
      BY <2>1, <3>1, <3>2, <3>3, <3>4 DEF p, in
  <2>4. ASSUME UNCHANGED <<record, applied>> PROVE UNCHANGED Promise!vars
    BY <2>4 DEF Promise!vars
  <2>5. CASE UNCHANGED vars
    BY <2>4, <2>5 DEF vars
  <2>6. ASSUME NEW c \in Callers, NEW p \in Payments, NEW in \in Input, Begin(c, p, in)
        PROVE  UNCHANGED Promise!vars
    BY <2>4, <2>6 DEF Begin
  <2>7. ASSUME NEW c \in Callers, Select(c) \/ CreateConflicts(c) \/ Rollback(c)
        PROVE  UNCHANGED Promise!vars
    BY <2>4, <2>7 DEF Select, CreateConflicts, Rollback
  <2> QED
    BY <2>2, <2>3, <2>5, <2>6, <2>7 DEF Next
<1> QED
  BY <1>1, <1>2, LedgerInvariant, PTL DEF Spec, ImplementsPaymentRecord, Promise!Spec
=============================================================================

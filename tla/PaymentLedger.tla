---------------------------- MODULE PaymentLedger ----------------------------
(***************************************************************************)
(* UpsertPayment: the payment_events table under concurrent transactions.  *)
(*                                                                         *)
(* A transaction selects its row FOR UPDATE, which locks the row when      *)
(* there is one and nothing when there is none, then creates the row or    *)
(* merges into what it read.  Two transactions may both find no row; the   *)
(* unique index lets one create succeed and fails the other, whose webhook *)
(* is then retried.                                                        *)
(*                                                                         *)
(* Of a payment's fields the model keeps the three that are merged         *)
(* differently: status (by rank), occurred_at (the latest) and identity_id *)
(* (the last non-empty one: customer_id, subscription_id, price_id, kind,  *)
(* currency and amount_minor are merged in the same way).                  *)
(***************************************************************************)
EXTENDS PaymentStatus

CONSTANTS
  Payments,    \* (provider, external id) pairs
  Callers,     \* goroutines that call UpsertPayment
  Identities,  \* identity ids
  NoIdentity,  \* the empty identity_id
  NoCaller,    \* an unlocked row
  NoPayment,   \* what an idle caller works on
  MaxTime,     \* bound: occurred_at is in 0..MaxTime
  MaxUpserts   \* bound: calls of UpsertPayment in one behaviour

ASSUME MaxTimeAssumption == MaxTime \in Nat
ASSUME MaxUpsertsAssumption == MaxUpserts \in Nat
ASSUME NoIdentityAssumption == NoIdentity \notin Identities
ASSUME NoCallerAssumption == NoCaller \notin Callers

VARIABLES
  record,   \* record[p]: the payment_events row of p
  lock,     \* lock[p]: the caller whose transaction holds p's row lock
  call,     \* call[c]: the call that c is in
  applied,  \* history: applied[p] is the set of inputs committed for p
  begun     \* calls so far

vars == <<record, lock, call, applied, begun>>

-----------------------------------------------------------------------------
Record == [status   : PaymentStatuses \cup {"ABSENT"},
           identity : Identities \cup {NoIdentity},
           at       : 0..MaxTime]
NoRecord == [status |-> "ABSENT", identity |-> NoIdentity, at |-> 0]
Input == {r \in Record : r.status # "ABSENT"}

Call == [pc       : {"idle", "select", "create", "update"},
         payment  : Payments \cup {NoPayment},
         input    : Record,
         existing : Record]  \* the row that SELECT ... FOR UPDATE returned
NoCall == [pc |-> "idle", payment |-> NoPayment, input |-> NoRecord, existing |-> NoRecord]

TypeOK ==
  /\ record \in [Payments -> Record]
  /\ lock \in [Payments -> Callers \cup {NoCaller}]
  /\ call \in [Callers -> Call]
  /\ applied \in [Payments -> SUBSET Input]
  /\ begun \in 0..MaxUpserts

Init ==
  /\ record = [p \in Payments |-> NoRecord]
  /\ lock = [p \in Payments |-> NoCaller]
  /\ call = [c \in Callers |-> NoCall]
  /\ applied = [p \in Payments |-> {}]
  /\ begun = 0

-----------------------------------------------------------------------------
Begin(c, p, in) ==
  /\ call[c].pc = "idle"
  /\ begun < MaxUpserts
  /\ begun' = begun + 1
  /\ call' = [call EXCEPT ![c] = [pc |-> "select", payment |-> p, input |-> in,
                                  existing |-> NoRecord]]
  /\ UNCHANGED <<record, lock, applied>>

\* SELECT ... FOR UPDATE: takes the lock of the row it finds, and waits for
\* another transaction that has it.
SelectUnlocked(c) ==
  LET p == call[c].payment IN
  /\ call[c].pc = "select"
  /\ call' = [call EXCEPT ![c].pc = IF record[p].status = "ABSENT" THEN "create" ELSE "update",
                          ![c].existing = record[p]]
  /\ UNCHANGED <<record, lock, applied, begun>>
Select(c) ==
  LET p == call[c].payment IN
  /\ call[c].pc = "select"
  /\ \/ /\ record[p].status = "ABSENT"
        /\ call' = [call EXCEPT ![c].pc = "create"]
        /\ UNCHANGED lock
     \/ /\ record[p].status # "ABSENT"
        /\ lock[p] = NoCaller
        /\ lock' = [lock EXCEPT ![p] = c]
        /\ call' = [call EXCEPT ![c].pc = "update", ![c].existing = record[p]]
  /\ UNCHANGED <<record, applied, begun>>

Commit(c, r) ==
  LET p == call[c].payment IN
  /\ record' = [record EXCEPT ![p] = r]
  /\ applied' = [applied EXCEPT ![p] = @ \cup {call[c].input}]
  /\ call' = [call EXCEPT ![c] = NoCall]
  /\ UNCHANGED begun

\* INSERT: the row was not there when the transaction looked.
Create(c) ==
  /\ call[c].pc = "create"
  /\ record[call[c].payment].status = "ABSENT"
  /\ Commit(c, call[c].input)
  /\ UNCHANGED lock

\* INSERT: another transaction created the row first; idx_payment_provider_
\* external refuses a second one and the call returns the error.
CreateOverwrites(c) ==
  /\ call[c].pc = "create"
  /\ record[call[c].payment].status # "ABSENT"
  /\ Commit(c, call[c].input)
  /\ UNCHANGED lock
CreateConflicts(c) ==
  /\ call[c].pc = "create"
  /\ record[call[c].payment].status # "ABSENT"
  /\ call' = [call EXCEPT ![c] = NoCall]
  /\ UNCHANGED <<record, lock, applied, begun>>

\* What the updates map makes of the existing row: empty values are left out,
\* occurred_at only moves forward, status only to one of at least its rank.
MergedErasing(existing, in) ==
  [status   |-> MergedStatus(existing.status, in.status),
   identity |-> in.identity,
   at       |-> IF in.at > existing.at THEN in.at ELSE existing.at]
Merged(existing, in) ==
  [status   |-> MergedStatus(existing.status, in.status),
   identity |-> IF in.identity # NoIdentity THEN in.identity ELSE existing.identity,
   at       |-> IF in.at > existing.at THEN in.at ELSE existing.at]

Unlock(c) == lock' = [lock EXCEPT ![call[c].payment] = NoCaller]

Update(c) ==
  /\ call[c].pc = "update"
  /\ Commit(c, Merged(call[c].existing, call[c].input))
  /\ Unlock(c)

\* The transaction is rolled back: a database error, a canceled request
\* context or the end of the process.
Rollback(c) ==
  /\ call[c].pc # "idle"
  /\ call' = [call EXCEPT ![c] = NoCall]
  /\ IF call[c].pc = "update" THEN Unlock(c) ELSE UNCHANGED lock
  /\ UNCHANGED <<record, applied, begun>>

Next ==
  \E c \in Callers :
    \/ \E p \in Payments, in \in Input : Begin(c, p, in)
    \/ Select(c) \/ Create(c) \/ CreateConflicts(c) \/ Update(c) \/ Rollback(c)

Spec == Init /\ [][Next]_vars

-----------------------------------------------------------------------------
\* UpsertPayment: whatever the order and the overlap of the calls, the record
\* has the highest-ranked status that was ever committed, so a late PENDING
\* does not undo a REFUNDED and no concurrent update is lost.
StatusIsTopRanked ==
  \A p \in Payments : \A in \in applied[p] :
    paymentStatusRank(in.status) <= paymentStatusRank(record[p].status)

\* UpsertPayment: an identity, once known, is never erased by an event that
\* does not carry one, and is one that some event carried.
IdentityKept ==
  \A p \in Payments :
    IF record[p].identity = NoIdentity
      THEN \A in \in applied[p] : in.identity = NoIdentity
      ELSE \E in \in applied[p] : in.identity = record[p].identity

\* UpsertPayment: occurred_at is that of the latest event, in any order.
LatestOccurrence ==
  \A p \in Payments : applied[p] # {} =>
    /\ \A in \in applied[p] : in.at <= record[p].at
    /\ \E in \in applied[p] : in.at = record[p].at

\* A status is one that some event reported.
StatusReported ==
  \A p \in Payments :
    record[p].status # "ABSENT" => \E in \in applied[p] : in.status = record[p].status

\* SELECT ... FOR UPDATE: a transaction about to update a row holds its lock
\* and has read the row as it still is.
UpdatesUnderLock ==
  \A c \in Callers : call[c].pc = "update" =>
    /\ call[c].payment \in Payments /\ lock[call[c].payment] = c
    /\ call[c].existing = record[call[c].payment]
    /\ record[call[c].payment].status # "ABSENT"
CallsHaveInput ==
  \A c \in Callers : call[c].pc # "idle" =>
    call[c].payment \in Payments /\ call[c].input \in Input
AbsentIsBlank ==
  \A p \in Payments : applied[p] = {} <=> record[p].status = "ABSENT"
BlankIsBlank ==
  \A p \in Payments : record[p].status = "ABSENT" => record[p] = NoRecord

\* What the three properties need to be inductive.
LedgerInv ==
  /\ TypeOK
  /\ UpdatesUnderLock /\ CallsHaveInput /\ AbsentIsBlank /\ BlankIsBlank
  /\ StatusIsTopRanked /\ StatusReported
  /\ IdentityKept /\ LatestOccurrence

\* Transactions: a row lock is held by a transaction that is past its SELECT, for
\* the row it works on; one that waits for a lock holds none, so transactions
\* never wait in a circle, and one that is over holds none either.
LocksAreHeld ==
  \A p \in Payments : lock[p] # NoCaller =>
    call[lock[p]].pc = "update" /\ call[lock[p]].payment = p

\* Which of two statuses of one rank a record shows depends on which came last;
\* only CANCELED and FAILED have a rank in common.
SameStatus(s, t) == s = t \/ {s, t} = {"CANCELED", "FAILED"}

\* UpsertPayment: an event that is delivered again changes neither the status
\* nor the time of the record that has taken it in.
RedeliveryHarmless ==
  [][\A p \in Payments : applied'[p] = applied[p] =>
       /\ SameStatus(record'[p].status, record[p].status)
       /\ record'[p].at = record[p].at]_vars

\* UpsertPayment: records that have taken in the same events agree, whatever the
\* order of the events, the overlap of the calls and the repetitions.
OrderIrrelevant ==
  \A p, q \in Payments : applied[p] = applied[q] =>
    /\ SameStatus(record[p].status, record[q].status)
    /\ record[p].at = record[q].at
    /\ record[p].identity = NoIdentity <=> record[q].identity = NoIdentity

\* UpsertPayment: seen from outside, the statements of a call are one step that
\* merges its input into the record, or none: no call overwrites a record that
\* another created, none merges into a row that has changed since it was read,
\* and one that fails leaves nothing behind.
Promise == INSTANCE PaymentRecord
ImplementsPaymentRecord == Promise!Spec
=============================================================================

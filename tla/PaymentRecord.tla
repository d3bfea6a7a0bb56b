---------------------------- MODULE PaymentRecord ----------------------------
(***************************************************************************)
(* What UpsertPayment promises, with nothing of its transaction: each      *)
(* event of a payment is taken into the record of the payment in one step. *)
(* The record then says what the higher-ranked of the two said, knows what *)
(* either knew, and carries the later time.  An event may also be refused, *)
(* which leaves the record as it was.                                      *)
(*                                                                         *)
(* PaymentLedger implements this module (see PaymentLedgerProofs).         *)
(***************************************************************************)
EXTENDS PaymentStatus

CONSTANTS Payments,    \* (provider, external id) pairs
          Identities,  \* identity ids
          NoIdentity,  \* the empty identity_id
          MaxTime      \* bound: occurred_at is in 0..MaxTime

VARIABLES record,   \* record[p]: the payment_events row of p
          applied   \* applied[p]: the events taken into it

vars == <<record, applied>>

Event == [status   : PaymentStatuses,
          identity : Identities \cup {NoIdentity},
          at       : 0..MaxTime]

Init ==
  /\ record = [p \in Payments |-> [status |-> "ABSENT", identity |-> NoIdentity, at |-> 0]]
  /\ applied = [p \in Payments |-> {}]

\* What of the old record and of the event must be in the new record.
TakesIn(old, event, new) ==
  /\ new \in Event
  /\ new.status \in {old.status, event.status}
  /\ \A r \in {old, event} : paymentStatusRank(r.status) <= paymentStatusRank(new.status)
  /\ IF event.identity # NoIdentity THEN new.identity = event.identity
                                    ELSE new.identity = old.identity
  /\ new.at \in {old.at, event.at} /\ old.at <= new.at /\ event.at <= new.at

Upsert(p, event) ==
  \E new \in Event :
    /\ TakesIn(record[p], event, new)
    /\ record' = [record EXCEPT ![p] = new]
    /\ applied' = [applied EXCEPT ![p] = @ \cup {event}]

Next == \E p \in Payments, event \in Event : Upsert(p, event)

Spec == Init /\ [][Next]_vars
=============================================================================

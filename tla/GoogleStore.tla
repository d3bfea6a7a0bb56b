------------------------------ MODULE GoogleStore ------------------------------
(***************************************************************************)
(* One Google Play subscription (one purchase token) and the handlers that *)
(* follow it.  VerifyStorePurchase, a real-time developer notification and *)
(* reconciliation ask Google for the present state, acknowledge the        *)
(* purchase where that is pending, and store subscription and payment; a   *)
(* voided-purchase notification rewrites the stored row as refunded        *)
(* without asking.  Calls and writes of different handlers interleave; an  *)
(* upsert is a step (SubscriptionSync and PaymentLedger have its           *)
(* statements).                                                            *)
(***************************************************************************)
EXTENDS Integers, PaymentStatus

CONSTANTS
  Identities,   \* identities of the application
  Buyer,        \* the one whose account binding the purchase carries
  Unknown,      \* no identity
  Handlers,     \* requests: store purchases and notifications
  Reconcilers,  \* background reconciliation
  MaxOrders,    \* bound: orders, one for each paid period
  MaxFaults     \* bound: failing calls, statements and processes

ASSUME BuyerAssumption == Buyer \in Identities /\ Unknown \notin Identities
ASSUME ActorsAssumption == Handlers \cap Reconcilers = {}
ASSUME BoundsAssumption == MaxOrders \in Nat /\ MaxFaults \in Nat

VARIABLES
  google,   \* Google's side of the subscription
  refunded, \* orders whose voided-purchase notification is SUCCEEDED
  row,      \* the payment_subscriptions record
  payment,  \* payment[o]: status of the payment_events record of order o
  task,     \* task[a]: what actor a is doing
  faults

vars == <<google, refunded, row, payment, task, faults>>

-----------------------------------------------------------------------------
Actors == Handlers \cup Reconcilers
Orders == 1..MaxOrders
States == {"PENDING", "ACTIVE", "IN_GRACE_PERIOD", "ON_HOLD", "CANCELED", "EXPIRED"}  \* PAUSED is as ON_HOLD
Statuses == {"ACTIVE", "TRIALING", "PAST_DUE", "CANCELED", "EXPIRED", "REFUNDED"}

Google == [state : States,
           order : 0..MaxOrders,       \* the latest, 0: not bought yet
           acknowledged : BOOLEAN,
           refused : BOOLEAN,          \* history: Google has refused to acknowledge it
           voided : SUBSET Orders]

Row == [owner : Identities \cup {Unknown}, status : Statuses, order : 0..MaxOrders]
NoRow == [owner |-> Unknown, status |-> "EXPIRED", order |-> 0]

Task == [pc : {"idle", "lookup", "get", "acknowledge", "subscribe", "pay"},
         proof : BOOLEAN,                        \* requireOwnership
         void : 0..MaxOrders,                    \* order a voided purchase names
         owner : Identities \cup {Unknown},
         status : Statuses, order : 0..MaxOrders]  \* what is to be stored
NoTask == [pc |-> "idle", proof |-> FALSE, void |-> 0, owner |-> Unknown,
           status |-> "EXPIRED", order |-> 0]

TypeOK ==
  /\ google \in Google
  /\ refunded \subseteq google.voided
  /\ row \in Row
  /\ payment \in [Orders -> PaymentStatuses \cup {"ABSENT"}]
  /\ task \in [Actors -> Task]
  /\ faults \in 0..MaxFaults

Init ==
  /\ google = [state |-> "EXPIRED", order |-> 0, acknowledged |-> FALSE,
               refused |-> FALSE, voided |-> {}]
  /\ refunded = {}
  /\ row = NoRow
  /\ payment = [o \in Orders |-> "ABSENT"]
  /\ task = [a \in Actors |-> NoTask]
  /\ faults = 0

Fault == faults < MaxFaults /\ faults' = faults + 1

-----------------------------------------------------------------------------
(* Google Play.                                                             *)

\* The purchase, and every renewal, is an order of its own; only the purchase
\* waits for an acknowledgement, and it may wait for its money before that.
Order(state) ==
  /\ google.order < MaxOrders
  /\ IF google.order = 0 THEN state \in {"ACTIVE", "PENDING"}
     ELSE state = "ACTIVE" /\ google.state \notin {"EXPIRED", "PENDING"}
  /\ google' = [google EXCEPT !.order = @ + 1, !.state = state]
  /\ UNCHANGED <<refunded, row, payment, task, faults>>

Successors(state) ==
  CASE state = "PENDING" -> {"ACTIVE", "EXPIRED"}
    [] state = "ACTIVE" -> {"IN_GRACE_PERIOD", "CANCELED"}
    [] state = "IN_GRACE_PERIOD" -> {"ON_HOLD", "CANCELED"}
    [] state \in {"ON_HOLD", "CANCELED"} -> {"EXPIRED"}
    [] state = "EXPIRED" -> {}
ChangeState(state) ==
  /\ google.order > 0
  /\ state \in Successors(google.state)
  /\ google' = [google EXCEPT !.state = state]
  /\ UNCHANGED <<refunded, row, payment, task, faults>>

\* A refund, which may revoke the subscription too.
Void(o, state) ==
  /\ o <= google.order /\ o \notin google.voided /\ google.state # "PENDING"
  /\ state \in {google.state, "EXPIRED"}
  /\ google' = [google EXCEPT !.voided = @ \cup {o}, !.state = state]
  /\ UNCHANGED <<refunded, row, payment, task, faults>>

Play == \E state \in States :
  Order(state) \/ ChangeState(state) \/ \E o \in Orders : Void(o, state)

-----------------------------------------------------------------------------
(* How a handler starts.                                                    *)

Begin(a, new) ==
  /\ task[a].pc = "idle"
  /\ google.order > 0
  /\ task' = [task EXCEPT ![a] = new]
  /\ UNCHANGED <<google, refunded, row, payment, faults>>

\* VerifyStorePurchase: any identity may send the token in.
VerifyStorePurchase(h, identity) ==
  Begin(h, [NoTask EXCEPT !.pc = "get", !.proof = TRUE, !.owner = identity])

\* processNotification: a subscription notification, which says nothing but the
\* token and comes any number of times; a voided purchase, until it succeeds.
SubscriptionNotification(h) == Begin(h, [NoTask EXCEPT !.pc = "lookup"])
VoidedNotification(h, o) ==
  /\ o \in google.voided \ refunded
  /\ Begin(h, [NoTask EXCEPT !.pc = "lookup", !.void = o])

\* ReconcileSubscription of a stored row.
ReconcileSubscription(r) ==
  /\ row # NoRow
  /\ Begin(r, [NoTask EXCEPT !.pc = "get", !.owner = row.owner])

-----------------------------------------------------------------------------
(* Its steps.                                                               *)

Fails(a) ==
  /\ task' = [task EXCEPT ![a] = NoTask]
  /\ UNCHANGED <<google, refunded, row, payment>>

\* GetSubscriptionByExternal; a notification for a row that is not there yet
\* fails, and comes again.  Of a voided purchase all that is stored is kept for
\* the write, with the status changed.
Lookup(a) ==
  /\ task[a].pc = "lookup"
  /\ \/ row = NoRow /\ Fails(a)
     \/ /\ row # NoRow
        /\ task' = [task EXCEPT ![a] =
             IF task[a].void = 0
               THEN [task[a] EXCEPT !.pc = "get", !.owner = row.owner]
               ELSE [task[a] EXCEPT !.pc = "subscribe", !.owner = row.owner,
                                    !.order = row.order, !.status = "REFUNDED"]]
        /\ UNCHANGED <<google, refunded, row, payment>>
  /\ UNCHANGED faults

mapGoogleV2Status(state) ==
  CASE state = "ACTIVE" -> "ACTIVE"
    [] state = "IN_GRACE_PERIOD" -> "TRIALING"
    [] state = "ON_HOLD" -> "PAST_DUE"
    [] state = "CANCELED" -> "CANCELED"
    [] OTHER -> "EXPIRED"

\* The obfuscated account id of the purchase against accountBinding(identityID).
BoundUnchecked(a) == TRUE
Bound(a) == task[a].proof => task[a].owner = Buyer

\* Subscriptionsv2.Get and the checks of its answer; the acknowledgement is asked
\* for whenever it is pending, by whichever handler.
GetAcknowledgesPurchases(a) ==
  /\ task[a].pc = "get"
  /\ \/ ~Bound(a) /\ Fails(a)
     \/ /\ Bound(a)
        /\ task' = [task EXCEPT ![a].pc = IF google.acknowledged \/ ~task[a].proof THEN "subscribe"
                                          ELSE "acknowledge",
                                ![a].status = mapGoogleV2Status(google.state),
                                ![a].order = google.order]
        /\ UNCHANGED <<google, refunded, row, payment>>
  /\ UNCHANGED faults
Get(a) ==
  /\ task[a].pc = "get"
  /\ \/ ~Bound(a) /\ Fails(a)
     \/ /\ Bound(a)
        /\ task' = [task EXCEPT ![a].pc = IF google.acknowledged THEN "subscribe" ELSE "acknowledge",
                                ![a].status = mapGoogleV2Status(google.state),
                                ![a].order = google.order]
        /\ UNCHANGED <<google, refunded, row, payment>>
  /\ UNCHANGED faults

\* Google acknowledges what has been paid for.  It may refuse (400, 409) what has
\* been acknowledged before, a purchase that is pending or has ended and, as a
\* fault, any other.
Acknowledges == google.state # "PENDING" /\ google' = [google EXCEPT !.acknowledged = TRUE]
Refuses ==
  /\ google' = [google EXCEPT !.refused = @ \/ ~google.acknowledged]
  /\ IF google.acknowledged \/ google.state \in {"PENDING", "EXPIRED"} THEN UNCHANGED faults
     ELSE Fault

\* Subscriptions.Acknowledge.  A refusal is taken for "already done"; any other
\* error fails the handler, though the call may have taken effect.
AcknowledgeIgnored(a) ==
  /\ task[a].pc = "acknowledge"
  /\ \/ Acknowledges /\ UNCHANGED faults
     \/ Refuses
     \/ UNCHANGED google /\ Fault
  /\ task' = [task EXCEPT ![a].pc = "subscribe"]
  /\ UNCHANGED <<refunded, row, payment>>
Acknowledge(a) ==
  /\ task[a].pc = "acknowledge"
  /\ \/ Acknowledges /\ UNCHANGED faults /\ task' = [task EXCEPT ![a].pc = "subscribe"]
     \/ Refuses /\ task' = [task EXCEPT ![a].pc = "subscribe"]
     \/ Acknowledges /\ Fault /\ task' = [task EXCEPT ![a] = NoTask]
  /\ UNCHANGED <<refunded, row, payment>>

\* UpsertSubscription: of two owners that differ the stored one stays, and the
\* handler fails; status and period are replaced whatever they were.
Foreign(a) == row # NoRow /\ row.owner # task[a].owner
UpsertRefundedStays(a) ==
  /\ task[a].pc = "subscribe"
  /\ \/ Foreign(a) /\ Fails(a)
     \/ /\ ~Foreign(a)
        /\ row' = [owner |-> task[a].owner, order |-> task[a].order,
                   status |-> IF row.status = "REFUNDED" THEN row.status ELSE task[a].status]
        /\ task' = [task EXCEPT ![a].pc = "pay"]
        /\ UNCHANGED <<google, refunded, payment>>
  /\ UNCHANGED faults
UpsertSubscription(a) ==
  /\ task[a].pc = "subscribe"
  /\ \/ Foreign(a) /\ Fails(a)
     \/ /\ ~Foreign(a)
        /\ row' = [owner |-> task[a].owner, order |-> task[a].order, status |-> task[a].status]
        /\ task' = [task EXCEPT ![a].pc = "pay"]
        /\ UNCHANGED <<google, refunded, payment>>
  /\ UNCHANGED faults

\* UpsertPayment, and the handler returns nil: a voided order is refunded, the
\* latest order of a subscription that is in force has been paid.
PayLastWrite(a) ==
  /\ task[a].pc = "pay"
  /\ payment' =
       IF task[a].void # 0 THEN [payment EXCEPT ![task[a].void] = "REFUNDED"]
       ELSE IF task[a].status \in {"ACTIVE", "TRIALING"}
         THEN [payment EXCEPT ![task[a].order] = "SUCCEEDED"]
         ELSE payment
  /\ refunded' = refunded \cup ({task[a].void} \cap Orders)
  /\ task' = [task EXCEPT ![a] = NoTask]
  /\ UNCHANGED <<google, row, faults>>
UpsertPayment(a) ==
  /\ task[a].pc = "pay"
  /\ payment' =
       IF task[a].void # 0 THEN [payment EXCEPT ![task[a].void] = MergedStatus(@, "REFUNDED")]
       ELSE IF task[a].status \in {"ACTIVE", "TRIALING"}
         THEN [payment EXCEPT ![task[a].order] = MergedStatus(@, "SUCCEEDED")]
         ELSE payment
  /\ refunded' = refunded \cup ({task[a].void} \cap Orders)
  /\ task' = [task EXCEPT ![a] = NoTask]
  /\ UNCHANGED <<google, row, faults>>

\* A call or a statement fails, or the process dies.
Fail(a) == task[a].pc # "idle" /\ Fails(a) /\ Fault

Work(a) == \/ Lookup(a) \/ Get(a) \/ Acknowledge(a)
           \/ UpsertSubscription(a) \/ UpsertPayment(a)

Next ==
  \/ Play
  \/ \E h \in Handlers :
       \/ \E identity \in Identities : VerifyStorePurchase(h, identity)
       \/ SubscriptionNotification(h)
       \/ \E o \in Orders : VoidedNotification(h, o)
  \/ \E r \in Reconcilers : ReconcileSubscription(r)
  \/ \E a \in Actors : Work(a) \/ Fail(a)

Spec == Init /\ [][Next]_vars

\* Handlers run on, and the reconciliation ticker fires again and again.
FairSpec ==
  /\ Spec
  /\ \A a \in Actors : WF_vars(Work(a))
  /\ \A r \in Reconcilers : WF_vars(ReconcileSubscription(r))

-----------------------------------------------------------------------------
\* verifyAndStore: a purchase is only ever stored for the identity whose account
\* binding it carries, though the handlers that come later do not check that.
OwnerIsBuyer == row # NoRow => row.owner = Buyer

\* verifyAndStore: nothing is stored, and may entitle, of which Google has not
\* had a say: it has acknowledged the purchase, which otherwise it takes back, or
\* refused to (400, 409); lost answers, failures, two handlers that acknowledge
\* at once and handlers that take the row for an answer included.
Answered == google.acknowledged \/ google.refused
StoredIsAnswered == row # NoRow => Answered

\* processNotification with UpsertPayment: once its voided notification has
\* succeeded an order's payment is refunded for good, though a handler that had
\* asked Google before may record it as succeeded afterwards.
VoidedStaysRefunded == \A o \in refunded : payment[o] = "REFUNDED"

\* verifyAndStore with processNotification: a payment is of an order that Google
\* had by then, though it is written after Google was asked.
PaymentsWereOrdered == \A o \in Orders : payment[o] # "ABSENT" => o <= google.order

\* processNotification: a refund on record is one that Google made, of that order;
\* the subscription is refunded only if an order of it was voided.
RefundsAreGoogles ==
  /\ \A o \in Orders : payment[o] = "REFUNDED" => o \in google.voided
  /\ row.status = "REFUNDED" => \E o \in Orders : o \in google.voided

\* verifyAndStore, by whichever handler: a stored purchase that is in force at
\* Google is acknowledged in the end, though it was stored when Google refused
\* that because it was still pending, or a call was lost.
InForce == google.order > 0 /\ google.state \notin {"PENDING", "EXPIRED"}
InForceIsAcknowledged == <>[](row # NoRow /\ InForce => google.acknowledged)

\* Reconcile: in the end the row says what Google says, though a slow handler or
\* a voided purchase had written what it had read before.
MirrorsGoogle ==
  <>[](row # NoRow => /\ row.order = google.order
                      /\ row.status = mapGoogleV2Status(google.state))
=============================================================================

-------------------------- MODULE StripeSubscription --------------------------
(***************************************************************************)
(* One identity that subscribes through Stripe, from the request for a     *)
(* Checkout Session to the entitlement: CreateCheckout and                 *)
(* CreateSubscription, which a client may send again with the same         *)
(* Idempotency-Key, the subscriptions as Stripe keeps them, the events     *)
(* about them in any order, their handlers, CancelSubscription and         *)
(* reconciliation.                                                         *)
(*                                                                         *)
(* The inbox lets one handler at a time have an event and delivers one     *)
(* that failed again (WebhookInbox); an upsert is one step (PaymentLedger, *)
(* SubscriptionSync).  What a one-time Checkout leads to is in             *)
(* StripePurchase.                                                         *)
(***************************************************************************)
EXTENDS PaymentStatus

CONSTANTS
  Keys,       \* idempotency keys: one for each purchase attempt of the client
  OneTime,    \* those of one-time purchases
  Requests,   \* goroutines in CreateCheckout or CreateSubscription
  Handlers,   \* goroutines in HandleWebhook or Reconcile
  None,       \* no key, no event
  MaxChanges, \* bound: changes of one subscription at Stripe
  MaxFaults   \* bound: faults of the environment in one behaviour

ASSUME KeysAssumption == OneTime \subseteq Keys /\ None \notin Keys
ASSUME SubscriptionBoundsAssumption == MaxChanges \in Nat \ {0} /\ MaxFaults \in Nat

VARIABLES
  trialDays,  \* STRIPE_TRIAL_DAYS > 0
  session,    \* session[k]: the session Stripe made for requests with key k
  refused,    \* keys of requests that Stripe answered with an idempotency error
  request,    \* request[r]: what request r is doing
  sub,        \* sub[k]: the subscription bought through k's session, at Stripe
  emitted,    \* events Stripe has emitted
  done,       \* events that are SUCCEEDED in the inbox
  task,       \* task[h]: what handler h is doing
  payment,    \* payment[k][p]: status of the payment_events row of k's p-th invoice
  row,        \* row[k]: the payment_subscriptions record
  faults

buying == <<session, refused, request>>
stored == <<payment, row>>
vars == <<trialDays, buying, sub, emitted, done, task, stored, faults>>

-----------------------------------------------------------------------------
Periods == 1..MaxChanges
Recurring == Keys \ OneTime

Live == {"trialing", "active"}
StripeStatuses == Live \cup {"none", "past_due", "unpaid", "canceled"}
\* A snapshot of a subscription: its version, status and current period.
Snapshot == [n : Nat, status : StripeStatuses, period : 0..MaxChanges]
NoSnapshot == [n |-> 0, status |-> "none", period |-> 0]

Event == [type : {"checkout", "paid", "failed", "subscription"}, key : Recurring,
          at : Snapshot]

SubscriptionStatuses == {"ACTIVE", "TRIALING", "PAST_DUE", "CANCELED", "EXPIRED"}

TypeOK ==
  /\ trialDays \in BOOLEAN
  /\ session \in [Keys -> [made : BOOLEAN, customer : BOOLEAN, trial : BOOLEAN]]
  /\ refused \subseteq Keys
  /\ request \in [Requests -> [pc : {"idle", "customer", "create"}, key : Keys \cup {None},
                               customer : BOOLEAN]]
  /\ sub \in [Recurring -> [at : Snapshot, over : 0..MaxChanges, due : BOOLEAN, ending : BOOLEAN]]
  /\ emitted \subseteq Event /\ done \subseteq emitted
  /\ task \in [Handlers -> [pc : {"idle", "payment", "retrieve", "write"},
                            key : Recurring \cup {None}, event : emitted \cup {None},
                            at : Snapshot]]
  /\ payment \in [Recurring -> [Periods -> PaymentStatuses \cup {"ABSENT"}]]
  /\ row \in [Recurring -> [status : SubscriptionStatuses \cup {"ABSENT"}, period : 0..MaxChanges]]
  /\ faults \in 0..MaxFaults

NoRequest == [pc |-> "idle", key |-> None, customer |-> FALSE]
NoTask == [pc |-> "idle", key |-> None, event |-> None, at |-> NoSnapshot]

Init ==
  /\ trialDays \in BOOLEAN
  /\ session = [k \in Keys |-> [made |-> FALSE, customer |-> FALSE, trial |-> FALSE]]
  /\ refused = {}
  /\ request = [r \in Requests |-> NoRequest]
  /\ sub = [k \in Recurring |-> [at |-> NoSnapshot, over |-> 0, due |-> FALSE, ending |-> FALSE]]
  /\ emitted = {} /\ done = {}
  /\ task = [h \in Handlers |-> NoTask]
  /\ payment = [k \in Recurring |-> [p \in Periods |-> "ABSENT"]]
  /\ row = [k \in Recurring |-> [status |-> "ABSENT", period |-> 0]]
  /\ faults = 0

Fault == faults < MaxFaults /\ faults' = faults + 1

Stored(k) == row[k].status # "ABSENT"
\* HasActiveSubscription and ActiveEntitlement: ACTIVE or TRIALING, and
\* current_period_end in the future.
Entitled(k) == row[k].status \in {"ACTIVE", "TRIALING"} /\ row[k].period > sub[k].over
HasActiveSubscription == \E k \in Recurring : Entitled(k)
\* CustomerID: the customer of some stored subscription.
CustomerKnown == \E k \in Recurring : Stored(k)

-----------------------------------------------------------------------------
(* CreateCheckout and CreateSubscription.                                   *)

BeginCheckout(r, k) ==
  /\ request[r].pc = "idle"
  /\ k \in OneTime
  /\ request' = [request EXCEPT ![r] = [NoRequest EXCEPT !.pc = "create", !.key = k]]
  /\ UNCHANGED <<trialDays, session, refused, sub, emitted, done, task, stored, faults>>

BeginSubscription(r, k) ==
  /\ request[r].pc = "idle"
  /\ k \in Recurring
  /\ ~HasActiveSubscription                 \* else ErrPaymentSubscriptionActive
  /\ request' = [request EXCEPT ![r] = [NoRequest EXCEPT !.pc = "customer", !.key = k]]
  /\ UNCHANGED <<trialDays, session, refused, sub, emitted, done, task, stored, faults>>

ReadCustomer(r) ==
  /\ request[r].pc = "customer"
  /\ request' = [request EXCEPT ![r].pc = "create", ![r].customer = CustomerKnown]
  /\ UNCHANGED <<trialDays, session, refused, sub, emitted, done, task, stored, faults>>

\* trial_end is the time of the call and the trial's length.
WithTrialAlways(r) == TRUE
WithTrial(r) == trialDays /\ request[r].key \in Recurring

\* V1CheckoutSessions.Create.  Stripe answers a second call with one key with
\* the first one's session, or with an error when the parameters differ: in the
\* customer, or in a trial_end of another second.  That is Stripe's contract for
\* idempotency keys, taken as given and without their expiry after 24 hours.  The
\* answer may be lost on its way: the client sends the request again, with the key.
Made(r, k) ==
  session' = [session EXCEPT ![k] = [made |-> TRUE, customer |-> request[r].customer,
                                     trial |-> WithTrial(r)]]
Create(r) ==
  LET k == request[r].key IN
  /\ request[r].pc = "create"
  /\ \/ ~session[k].made /\ Made(r, k) /\ UNCHANGED refused
     \/ /\ session[k].made
        /\ request[r].customer = session[k].customer
        /\ UNCHANGED <<session, refused>>
     \/ /\ session[k].made
        /\ request[r].customer # session[k].customer \/ WithTrial(r)
        /\ refused' = refused \cup {k}
        /\ UNCHANGED session
  /\ request' = [request EXCEPT ![r] = NoRequest]
  /\ UNCHANGED <<trialDays, sub, emitted, done, task, stored, faults>>

\* A statement or the call fails, or the process dies, before the call took
\* effect.
Abandon(r) ==
  /\ request[r].pc # "idle"
  /\ request' = [request EXCEPT ![r] = NoRequest]
  /\ Fault
  /\ UNCHANGED <<trialDays, session, refused, sub, emitted, done, task, stored>>

-----------------------------------------------------------------------------
(* Stripe.  A change of k emits a subscription event with a snapshot of it, *)
(* save the first, customer.subscription.created, which is not handled.     *)

Becomes(k, new, types) ==
  /\ new.at.n <= MaxChanges
  /\ sub' = [sub EXCEPT ![k] = new]
  /\ emitted' = emitted \cup {[type |-> t, key |-> k, at |-> new.at] : t \in types}
  /\ UNCHANGED <<trialDays, buying, done, task, stored, faults>>
Version(k, status, period) == [n |-> sub[k].at.n + 1, status |-> status, period |-> period]
Changes(k, status, period, types) ==
  Becomes(k, [sub[k] EXCEPT !.at = Version(k, status, period), !.over = period - 1, !.due = FALSE],
          types)

\* The customer completes the Checkout: the first invoice is paid, or there is
\* nothing to pay in a trial.
Complete(k) ==
  /\ session[k].made /\ sub[k].at.status = "none"
  /\ Changes(k, IF session[k].trial THEN "trialing" ELSE "active", 1,
             {"checkout", "paid"})

\* A period ends and the next one begins, its invoice yet to be paid.
Renew(k) ==
  /\ sub[k].at.status \in Live /\ ~sub[k].due /\ ~sub[k].ending
  /\ Becomes(k, [sub[k] EXCEPT !.at = Version(k, "active", @.period + 1), !.over = sub[k].at.period,
                               !.due = TRUE], {"subscription"})
InvoicePaid(k) ==
  /\ sub[k].due \/ sub[k].at.status = "past_due"
  /\ Changes(k, "active", sub[k].at.period, {"paid", "subscription"})
\* Stripe tries again later, or gives up as the account is configured to.
InvoiceFails(k) ==
  /\ sub[k].due \/ sub[k].at.status = "past_due"
  /\ \E status \in {"past_due", "unpaid", "canceled"} :
       Changes(k, status, sub[k].at.period, {"failed", "subscription"})
\* The period that was to be the last one is over.
EndAtPeriodEnd(k) ==
  /\ sub[k].at.status \in Live /\ sub[k].ending
  /\ Becomes(k, [sub[k] EXCEPT !.at = Version(k, "canceled", @.period), !.over = sub[k].at.period],
             {"subscription"})

Stripe(k) ==
  Complete(k) \/ Renew(k) \/ InvoicePaid(k) \/ InvoiceFails(k) \/ EndAtPeriodEnd(k)

\* CancelSubscription: of a subscription that is on record as the identity's,
\* at the end of the period or at once.  Its answer may be lost.
CancelSubscription(k) ==
  /\ Stored(k)
  /\ sub[k].at.status \notin {"none", "canceled"}
  /\ \/ Changes(k, "canceled", sub[k].at.period, {"subscription"})
     \/ /\ ~sub[k].ending
        /\ sub' = [sub EXCEPT ![k].ending = TRUE]
        /\ UNCHANGED <<trialDays, buying, emitted, done, task, stored, faults>>

-----------------------------------------------------------------------------
(* handleStripeEvent, handleStripeCheckout, handleStripeInvoice and         *)
(* ReconcileSubscription.                                                   *)

\* A delivery, or a retry, claims an event nobody is working on.  Subscription
\* events bring the snapshot that is written; the others record a payment first
\* and retrieve the subscription then.
Claim(h, e) ==
  /\ task[h].pc = "idle"
  /\ e \notin done /\ \A other \in Handlers : task[other].event # e
  /\ task' = [task EXCEPT ![h] = [pc |-> IF e.type = "subscription" THEN "write" ELSE "payment",
                                  key |-> e.key, event |-> e, at |-> e.at]]
  /\ UNCHANGED <<trialDays, buying, sub, emitted, done, stored, faults>>

\* Reconcile comes to the row of k.
ReconciledLapsed(k) == Stored(k) /\ ~Entitled(k)
Reconciled(k) == Stored(k)
Reconcile(h, k) ==
  /\ task[h].pc = "idle"
  /\ Reconciled(k)
  /\ task' = [task EXCEPT ![h] = [NoTask EXCEPT !.pc = "retrieve", !.key = k]]
  /\ UNCHANGED <<trialDays, buying, sub, emitted, done, stored, faults>>

\* An invoice's payment goes by the invoice's id, and so does the one of a
\* Checkout, whose session names its invoice.
UpsertPayment(h) ==
  LET e == task[h].event IN
  /\ task[h].pc = "payment"
  /\ payment' = [payment EXCEPT ![e.key][e.at.period] =
                   MergedStatus(@, IF e.type = "failed" THEN "FAILED" ELSE "SUCCEEDED")]
  /\ task' = [task EXCEPT ![h].pc = "retrieve"]
  /\ UNCHANGED <<trialDays, buying, sub, emitted, done, row, faults>>

\* V1Subscriptions.Retrieve.
RetrieveErrorIgnored(h) ==
  /\ task[h].pc = "retrieve"
  /\ \/ /\ task' = [task EXCEPT ![h].pc = "write", ![h].at = sub[task[h].key].at]
        /\ UNCHANGED <<done, faults>>
     \/ /\ task' = [task EXCEPT ![h] = NoTask]
        /\ done' = IF task[h].event = None THEN done ELSE done \cup {task[h].event}
        /\ Fault
  /\ UNCHANGED <<trialDays, buying, sub, emitted, stored>>
Retrieve(h) ==
  /\ task[h].pc = "retrieve"
  /\ task' = [task EXCEPT ![h].pc = "write", ![h].at = sub[task[h].key].at]
  /\ UNCHANGED <<trialDays, buying, sub, emitted, done, stored, faults>>

mapStripePaymentSubscriptionStatus(status) ==
  CASE status = "active" -> "ACTIVE"
    [] status = "trialing" -> "TRIALING"
    [] status \in {"past_due", "unpaid"} -> "PAST_DUE"
    [] status = "canceled" -> "CANCELED"
    [] OTHER -> "EXPIRED"

\* upsertStripeSubscription, and FinishWebhook, which may fail.
UpsertSubscription(h) ==
  /\ task[h].pc = "write"
  /\ row' = [row EXCEPT ![task[h].key] =
               [status |-> mapStripePaymentSubscriptionStatus(task[h].at.status),
                period |-> task[h].at.period]]
  /\ task' = [task EXCEPT ![h] = NoTask]
  /\ \/ /\ done' = IF task[h].event = None THEN done ELSE done \cup {task[h].event}
        /\ UNCHANGED faults
     \/ task[h].event # None /\ Fault /\ UNCHANGED done
  /\ UNCHANGED <<trialDays, buying, sub, emitted, payment>>

\* A statement or a call fails, and with it the event or the row's turn, or the
\* process dies.
Fail(h) ==
  /\ task[h].pc # "idle"
  /\ task' = [task EXCEPT ![h] = NoTask]
  /\ Fault
  /\ UNCHANGED <<trialDays, buying, sub, emitted, done, stored>>

Ask(r) == ReadCustomer(r) \/ Create(r)
Work(h) == UpsertPayment(h) \/ Retrieve(h) \/ UpsertSubscription(h)

Next ==
  \/ \E r \in Requests :
       \/ \E k \in Keys : BeginCheckout(r, k) \/ BeginSubscription(r, k)
       \/ Ask(r) \/ Abandon(r)
  \/ \E k \in Recurring : Stripe(k) \/ CancelSubscription(k)
  \/ \E h \in Handlers :
       \/ \E e \in emitted : Claim(h, e)
       \/ \E k \in Recurring : Reconcile(h, k)
       \/ Work(h) \/ Fail(h)

Spec == Init /\ [][Next]_vars

\* Handlers run on, and every row has its turn in reconciliation.  Until there is
\* a row, the events about k come again: Stripe redelivers what it had no 2xx for.
\* It does not once a redelivery was answered 200 as a duplicate while an attempt
\* that came to nothing held the lease (WebhookInbox!Orphaned), which takes a fault;
\* Complete emits two events that lead to the row, and where the bound allows one
\* fault, as in Subscription.cfg, one of them is not lost.
ClaimAny(k) == \E h \in Handlers, e \in emitted : e.key = k /\ Claim(h, e)
FairSpec ==
  /\ Spec
  /\ \A h \in Handlers : WF_vars(Work(h))
  /\ \A k \in Recurring : /\ SF_vars(~Stored(k) /\ ClaimAny(k))
                          /\ SF_vars(\E h \in Handlers : Reconcile(h, k))

-----------------------------------------------------------------------------
\* CreateCheckout and CreateSubscription: a repeated request gets its session;
\* Stripe refuses it only when there is a trial, whose end has moved, or when the
\* identity has become a customer since.
RetryNotRefused == \A k \in refused : k \in Recurring /\ (trialDays \/ CustomerKnown)

\* handleStripeInvoice, handleStripeCheckout: an event that is SUCCEEDED, and so
\* will not be looked at again, has left both its payment and the subscription
\* on record, whichever of the three calls failed before.
ProcessedIsRecorded ==
  \A e \in done : /\ Stored(e.key)
                  /\ e.type = "subscription" \/ payment[e.key][e.at.period] # "ABSENT"

\* ActiveEntitlement: whoever is entitled bought it through a Checkout that was
\* completed, and Stripe has said that the subscription is live in the period that
\* still runs, however late and in whatever order its events are written.
EntitledWasLive ==
  \A k \in Recurring : Entitled(k) =>
    /\ session[k].made
    /\ \E e \in emitted : /\ e.key = k /\ e.at.status \in Live
                          /\ e.at.period = row[k].period /\ e.at.period > sub[k].over

\* handleStripeInvoice, handleStripeCheckout: a payment on record is of a period
\* whose invoice Stripe said was paid, or FAILED if Stripe said it had failed.
PaymentsAreInvoices ==
  \A k \in Recurring, p \in Periods : payment[k][p] # "ABSENT" =>
    \E e \in emitted : /\ e.key = k /\ e.at.period = p
                       /\ IF payment[k][p] = "FAILED" THEN e.type = "failed"
                                                      ELSE e.type \in {"checkout", "paid"}

\* CreateSubscription to ActiveEntitlement: what a subscriber may use is in the
\* end what the subscription at Stripe entitles to, in both directions, through
\* trials, failed and late payments and cancellations.
LiveAtStripe(k) == sub[k].at.status \in Live /\ sub[k].at.period > sub[k].over
EntitledAsAtStripe == \A k \in Recurring : <>[](Entitled(k) <=> LiveAtStripe(k))
=============================================================================

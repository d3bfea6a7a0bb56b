---------------------------- MODULE StripePurchase ----------------------------
(***************************************************************************)
(* A one-time Stripe purchase from the Checkout page to the benefit: the   *)
(* events Stripe emits for one Checkout Session and its Payment Intent, if *)
(* there is anything to pay, the webhook inbox that delivers each of them  *)
(* in any order, again when it fails, twice when a lease is overrun and    *)
(* perhaps never again once answered 200, handleStripeEvent, the payment   *)
(* record, and the consumer of payment.purchase.completed.v1.              *)
(*                                                                         *)
(* The inbox is used by its promise, WebhookLifecycle, which WebhookInbox  *)
(* implements; UpsertPayment is one step, which PaymentLedger justifies.   *)
(***************************************************************************)
EXTENDS PaymentStatus

CONSTANTS Attempts,   \* processing attempts (goroutines in HandleWebhook)
          None,
          Subscribed, \* the events the webhook endpoint is subscribed to
          MaxFaults   \* bound: faults of the environment in one behaviour

ASSUME PurchaseFaultsAssumption == MaxFaults \in Nat

VARIABLES
  stripe,    \* the purchase as Stripe has it
  paymentStatus, \* payment_status of the session in checkout.session.completed
  emitted,   \* the events Stripe has emitted to the endpoint
  sellable,  \* the session has an identity and a one-time catalog product
  status,    \* status[e]: of e's record in the inbox
  holder,    \* holder[e]: the attempt whose outcome counts
  acked,     \* events answered 200 as duplicates: Stripe delivers them no more
  lapsed,    \* answered and failed events whose stored signature is too old
  attempt,   \* attempt[a]: what attempt a is doing
  record,    \* status of the payment_events row
  ledger,    \* consumer: message ids it has fulfilled
  benefits,  \* consumer: how often the benefit was granted
  faults

purchase == <<stripe, paymentStatus, emitted, sellable>>
inbox == <<status, holder, acked, lapsed>>
vars == <<purchase, inbox, attempt, record, ledger, benefits, faults>>

-----------------------------------------------------------------------------
IntentEvents == {"pi.created", "pi.declined", "pi.bounced", "pi.succeeded", "pi.canceled"}
CheckoutEvents == {"cs.completed", "cs.async_succeeded", "cs.async_failed"}
StripeEvents == IntentEvents \cup CheckoutEvents

\* ExternalID of the payment: a session with nothing to pay has no intent.
PaymentIntent == "pi"
CheckoutSession == "cs"
ExternalID == IF paymentStatus = "no_payment_required" THEN CheckoutSession ELSE PaymentIntent

Stages == {"idle", "check", "upsert", "publish", "finish"}
NoAttempt == [stage |-> "idle", event |-> None, ok |-> FALSE]

Inbox == INSTANCE WebhookLifecycle
  WITH Events <- StripeEvents, Leases <- Attempts

TypeOK ==
  /\ stripe \in {"none", "open", "processing", "paid", "free", "failed", "canceled"}
  /\ paymentStatus \in {"unpaid", "paid", "no_payment_required"}
  /\ sellable \in BOOLEAN
  /\ emitted \subseteq StripeEvents \cap Subscribed
  /\ status \in [StripeEvents -> Inbox!Statuses]
  /\ holder \in [StripeEvents -> Attempts \cup {None}]
  /\ acked \subseteq StripeEvents /\ lapsed \subseteq StripeEvents
  /\ attempt \in [Attempts -> [stage : Stages, event : StripeEvents \cup {None}, ok : BOOLEAN]]
  /\ record \in PaymentStatuses \cup {"ABSENT"}
  /\ ledger \subseteq {PaymentIntent, CheckoutSession}
  /\ benefits \in Nat
  /\ faults \in 0..MaxFaults

Init ==
  /\ stripe = "none" /\ paymentStatus = "unpaid" /\ emitted = {}
  /\ sellable \in BOOLEAN
  /\ Inbox!Init /\ lapsed = {}
  /\ attempt = [a \in Attempts |-> NoAttempt]
  /\ record = "ABSENT"
  /\ ledger = {} /\ benefits = 0
  /\ faults = 0

Fault == faults < MaxFaults /\ faults' = faults + 1

-----------------------------------------------------------------------------
(* Stripe: the life of a Checkout Session and of the Payment Intent behind it. *)
StripeMoves(from, to, events) ==
  /\ stripe = from
  /\ stripe' = to
  /\ emitted' = emitted \cup (events \cap Subscribed)
  /\ UNCHANGED <<sellable, inbox, attempt, record, ledger, benefits, faults>>

\* Nothing is left to pay (a discount of 100%): no Payment Intent is made.
CompleteFree == /\ StripeMoves("none", "free", {"cs.completed"})
                /\ paymentStatus' = "no_payment_required"
OpenIntent == StripeMoves("none", "open", {"pi.created"}) /\ UNCHANGED paymentStatus
\* A card is declined; the customer may try another on the same Checkout page.
DeclineCard == /\ "pi.declined" \notin emitted
               /\ StripeMoves("open", "open", {"pi.declined"})
               /\ UNCHANGED paymentStatus
PayNow == StripeMoves("open", "paid", {"pi.succeeded", "cs.completed"}) /\ paymentStatus' = "paid"
PayLater == StripeMoves("open", "processing", {"cs.completed"}) /\ UNCHANGED paymentStatus
ClearLater == StripeMoves("processing", "paid", {"pi.succeeded", "cs.async_succeeded"})
              /\ UNCHANGED paymentStatus
Bounce == StripeMoves("processing", "failed", {"pi.bounced", "cs.async_failed"})
          /\ UNCHANGED paymentStatus
CancelIntent == StripeMoves("open", "canceled", {"pi.canceled"}) /\ UNCHANGED paymentStatus

Stripe == \/ CompleteFree \/ OpenIntent \/ DeclineCard \/ PayNow
          \/ PayLater \/ ClearLater \/ Bounce \/ CancelIntent

-----------------------------------------------------------------------------
(* handleStripeEvent and handleStripeCheckout.                              *)
stripeCheckoutPaymentStatusCompleted(e) ==
  IF e = "cs.async_failed" THEN "FAILED" ELSE "SUCCEEDED"
stripeCheckoutPaymentStatus(e) ==
  IF e = "cs.async_failed" THEN "FAILED"
  ELSE IF e = "cs.async_succeeded" \/ paymentStatus \in {"paid", "no_payment_required"}
       THEN "SUCCEEDED" ELSE "PENDING"

EventStatus(e) ==
  CASE e = "pi.created" -> "PENDING"
    [] e = "pi.succeeded" -> "SUCCEEDED"
    [] e \in {"pi.declined", "pi.bounced"} -> "FAILED"
    [] e = "pi.canceled" -> "CANCELED"
    [] e \in CheckoutEvents -> stripeCheckoutPaymentStatus(e)

\* A Checkout in payment mode with nothing left to pay: it is checked, recorded and published.
Completes(e) == e \in CheckoutEvents /\ stripeCheckoutPaymentStatus(e) = "SUCCEEDED"

FirstStage(e) == IF Completes(e) THEN "check" ELSE "upsert"
StageAfterPublishFirst(stage, e) ==
  CASE stage = "check" -> "publish"
    [] stage = "publish" -> "upsert"
    [] OTHER -> "finish"
StageAfter(stage, e) ==
  CASE stage = "check" -> "upsert"
    [] stage = "upsert" /\ Completes(e) -> "publish"
    [] OTHER -> "finish"

\* ID of the message: topic, provider and external payment id.
MessageIDOfAttempt(a) == a
MessageID(a) == ExternalID

Begins(a, e) == attempt' = [attempt EXCEPT ![a] = [stage |-> FirstStage(e), event |-> e, ok |-> FALSE]]
Advances(a) == attempt' = [attempt EXCEPT ![a].stage = StageAfter(@, attempt[a].event),
                                          ![a].ok = TRUE]
Fails(a) == attempt' = [attempt EXCEPT ![a].stage = "finish", ![a].ok = FALSE]

\* The name of an attempt that has ended, or died, may be used again.
Free(a) == attempt[a].stage = "idle"

\* A delivery, or a retry of a failed one, claims the event; a delivery brings
\* a signature of its own.
Claim(a, e) ==
  /\ e \in emitted /\ Free(a)
  /\ Inbox!Accept(e, a)
  /\ lapsed' = lapsed \ {e}
  /\ Begins(a, e)
  /\ UNCHANGED <<purchase, record, ledger, benefits, faults>>

\* A delivery takes the event over from an attempt that died, or from one that
\* is still at work after its lease.
AtWork(e) == status[e] = "PROCESSING" /\ attempt[holder[e]].event = e
Reclaim(a, e) ==
  /\ e \in emitted /\ Free(a)
  /\ Inbox!TakeOver(e, a)
  /\ Begins(a, e)
  /\ IF AtWork(e) THEN Fault ELSE UNCHANGED faults
  /\ UNCHANGED <<purchase, lapsed, record, ledger, benefits>>

\* A delivery within the lease, of an attempt at work or of one that died, is
\* not claimed, and HandleWebhook returns nil: Stripe takes the event for done.
Duplicate(e) ==
  /\ status[e] = "PROCESSING"
  /\ Inbox!Acknowledge(e)
  /\ UNCHANGED <<purchase, lapsed, attempt, record, ledger, benefits, faults>>

\* The stored signature of a failed event outgrows the tolerance, which only
\* matters once Stripe sends no other.
SignatureAges(e) ==
  /\ status[e] = "FAILED" /\ e \in acked
  /\ lapsed' = lapsed \cup {e}
  /\ UNCHANGED <<purchase, status, holder, acked, attempt, record, ledger, benefits, faults>>

\* checkoutProduct, and the identity in the session's metadata.
Check(a) ==
  /\ attempt[a].stage = "check"
  /\ \/ sellable /\ Advances(a) /\ UNCHANGED faults
     \/ ~sellable /\ Fails(a) /\ UNCHANGED faults
     \/ Fails(a) /\ Fault                 \* the line-item lookup fails
  /\ UNCHANGED <<purchase, inbox, record, ledger, benefits>>

Upsert(a) ==
  /\ attempt[a].stage = "upsert"
  /\ \/ /\ record' = MergedStatus(record, EventStatus(attempt[a].event))
        /\ Advances(a) /\ UNCHANGED faults
     \/ Fails(a) /\ Fault /\ UNCHANGED record
  /\ UNCHANGED <<purchase, inbox, ledger, benefits>>

\* Publish calls the consumer, which grants the benefit and enters the message
\* id in its ledger in one transaction, or returns nil if the id is there.
PublishErrorIgnored(a) ==
  /\ attempt[a].stage = "publish"
  /\ \/ ledger' = ledger \cup {MessageID(a)} /\ benefits' = benefits + 1 /\ UNCHANGED faults
     \/ Fault /\ UNCHANGED <<ledger, benefits>>
  /\ Advances(a)
  /\ UNCHANGED <<purchase, inbox, record>>
Publish(a) ==
  /\ attempt[a].stage = "publish"
  /\ \/ /\ MessageID(a) \notin ledger
        /\ ledger' = ledger \cup {MessageID(a)} /\ benefits' = benefits + 1
        /\ Advances(a) /\ UNCHANGED faults
     \/ /\ MessageID(a) \in ledger
        /\ Advances(a) /\ UNCHANGED <<ledger, benefits, faults>>
     \/ Fails(a) /\ Fault /\ UNCHANGED <<ledger, benefits>>
  /\ UNCHANGED <<purchase, inbox, record>>

\* FinishWebhook by the holder; an attempt that lost its lease changes nothing.
Finish(a) ==
  LET e == attempt[a].event IN
  /\ attempt[a].stage = "finish"
  /\ \/ /\ holder[e] = a
        /\ Inbox!Settle(e)
        /\ status'[e] = IF attempt[a].ok THEN "SUCCEEDED" ELSE "FAILED"
     \/ holder[e] # a /\ UNCHANGED <<status, holder, acked>>
  /\ attempt' = [attempt EXCEPT ![a] = NoAttempt]
  /\ UNCHANGED <<purchase, lapsed, record, ledger, benefits, faults>>

Crash(a) ==
  /\ attempt[a].stage # "idle"
  /\ attempt' = [attempt EXCEPT ![a] = NoAttempt]
  /\ Fault
  /\ UNCHANGED <<purchase, inbox, record, ledger, benefits>>

Work(a) == Check(a) \/ Upsert(a) \/ Publish(a) \/ Finish(a)

Next ==
  \/ Stripe
  \/ \E a \in Attempts :
       \/ \E e \in StripeEvents : Claim(a, e) \/ Reclaim(a, e)
       \/ Work(a) \/ Crash(a)
  \/ \E e \in StripeEvents : Duplicate(e) \/ SignatureAges(e)

Spec == Init /\ [][Next]_vars

\* Stripe redelivers what it has no 200 for; the operator retries what
\* FailedWebhooks lists, as long as the stored signature verifies.
Redeliver(e) == e \notin acked /\ ~AtWork(e) /\ \E a \in Attempts : Claim(a, e) \/ Reclaim(a, e)
RetryFailed(e) == status[e] = "FAILED" /\ e \notin lapsed /\ \E a \in Attempts : Claim(a, e)

\* Attempts run on, and an event is delivered or retried again as long as the
\* code and Stripe promise it, as in WebhookInbox!Fairness.
FairSpec ==
  /\ Spec
  /\ \A a \in Attempts : WF_vars(Work(a))
  /\ \A e \in Subscribed : SF_vars(Redeliver(e)) /\ SF_vars(RetryFailed(e))

\* The interrupted or failed webhooks nobody comes back for: see
\* WebhookInbox!Orphaned and WebhookInbox!Lapsed.
Orphaned(e) == status[e] = "PROCESSING" /\ e \in acked /\ ~AtWork(e)
Lapsed(e) == status[e] = "FAILED" /\ e \in acked \cap lapsed

-----------------------------------------------------------------------------
\* Stripe asks for nothing more: the money is collected, or none was due.
Settled == stripe \in {"paid", "free"}

\* handleStripeCheckout: the benefit of one payment is granted once, however
\* often its webhook is delivered, retried after a half-done attempt, or
\* processed by two attempts at a time.
FulfilledAtMostOnce == benefits <= 1

\* handleStripeCheckout: only a Checkout that is settled, for a product of the
\* catalog, is ever fulfilled, by money collected or because Stripe required
\* none; one whose money is still to come, or has bounced, is not.
FulfilledOnlyIfSettled == benefits > 0 => Settled /\ sellable

\* handleStripeCheckout: the payment is on record before the purchase is
\* published, and with at least the rank of SUCCEEDED.
FulfilledAfterRecorded == benefits > 0 => paymentStatusRank(record) >= 2

\* HandleWebhook: a settled Checkout whose webhook is SUCCEEDED, and so will
\* never be processed again, has been fulfilled.
SucceededMeansFulfilled ==
  \A e \in emitted : status[e] = "SUCCEEDED" /\ Completes(e) => benefits > 0

\* HandleWebhook: as long as a settled purchase has not been fulfilled, the
\* inbox has an event of it that is not done; none of the failures, crashes and
\* overtaken attempts of a webhook makes it look finished.  The endpoint must
\* be subscribed to both events that a settled Checkout can have.
SettledIsAwaited ==
  /\ {"cs.completed", "cs.async_succeeded"} \subseteq Subscribed
  /\ Settled /\ benefits = 0
  => \E e \in emitted : Completes(e) /\ status[e] # "SUCCEEDED"

\* handleStripeEvent: a payment is on record as SUCCEEDED only if it is settled;
\* the status on record is always that of an event that Stripe has emitted.
RecordedPaidOnlyIfSettled ==
  /\ record # "ABSENT" => \E e \in emitted : EventStatus(e) = record
  /\ record = "SUCCEEDED" => Settled

\* The chain from payment to benefit: a settled purchase is fulfilled in the
\* end, through any finite number of failures, crashes and overrun leases,
\* unless Stripe was answered 200 while an attempt that came to nothing held
\* the lease, and the webhook was then orphaned or lapsed.
SettledIsFulfilled ==
  <>[](Settled /\ sellable =>
         benefits = 1 \/ \E e \in emitted : Completes(e) /\ (Orphaned(e) \/ Lapsed(e)))

-----------------------------------------------------------------------------
(* What the documentation says and the code does not do.                   *)

\* docs/EVENTS.md: the event is emitted only after payment-system records the
\* successful payment.
FulfilledMeansRecordedSuccessful == benefits > 0 => record = "SUCCEEDED"
=============================================================================

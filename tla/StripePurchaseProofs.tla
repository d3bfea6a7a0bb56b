------------------------- MODULE StripePurchaseProofs -------------------------
(***************************************************************************)
(* One purchase is fulfilled once, when nothing is left to pay, after it   *)
(* has been recorded, and before its webhook is SUCCEEDED: for any number  *)
(* of processing attempts and faults, and any subscribed events.           *)
(*                                                                         *)
(* An attempt past the check of a settled Checkout has a sellable product, *)
(* one that is about to publish has recorded the payment, and one that is  *)
(* to report success has published.  That nothing else completes follows   *)
(* from the events: Stripe emits one that completes only once settled.     *)
(***************************************************************************)
EXTENDS StripePurchase, TLAPS

USE DEF purchase, inbox

StripeStates == {"none", "open", "processing", "paid", "free", "failed", "canceled"}
AttemptRecord == [stage : Stages, event : StripeEvents \cup {None}, ok : BOOLEAN]
Records == PaymentStatuses \cup {"ABSENT"}
Rank == paymentStatusRank(record)

EventsExplained ==
  /\ paymentStatus = "paid" => stripe = "paid"
  /\ paymentStatus = "no_payment_required" => stripe = "free"
  /\ "cs.async_succeeded" \in emitted => stripe = "paid"
  /\ "cs.completed" \in emitted => stripe \notin {"none", "open"}
  /\ \A e \in StripeEvents : status[e] # "ABSENT" => e \in emitted
GrantedOnce == \/ benefits = 0 /\ ledger = {}
               \/ benefits = 1 /\ ledger = {ExternalID}
Explained(t) ==
  t.stage # "idle" =>
    /\ t.event \in emitted
    /\ t.stage = "check" => Completes(t.event)
    /\ t.stage = "upsert" /\ Completes(t.event) => sellable
    /\ t.stage = "publish" => Completes(t.event) /\ sellable /\ Rank >= 2
    /\ t.stage = "finish" /\ t.ok /\ Completes(t.event) => benefits > 0
AttemptsExplained == \A a \in Attempts : Explained(attempt[a])

Inv ==
  /\ TypeOK
  /\ EventsExplained
  /\ GrantedOnce
  /\ AttemptsExplained
  /\ FulfilledOnlyIfSettled /\ FulfilledAfterRecorded /\ SucceededMeansFulfilled

-----------------------------------------------------------------------------
(* UpsertPayment.                                                           *)

LEMMA RankBounds == ASSUME NEW s \in Records PROVE paymentStatusRank(s) \in 0..5
BY DEF Records, PaymentStatuses, paymentStatusRank

\* The rank of a payment never falls, and is at least that of what was written.
LEMMA MergeRaises ==
  ASSUME NEW old \in Records, NEW new \in Records
  PROVE  /\ MergedStatus(old, new) \in Records
         /\ paymentStatusRank(MergedStatus(old, new)) >= paymentStatusRank(old)
         /\ paymentStatusRank(MergedStatus(old, new)) >= paymentStatusRank(new)
BY RankBounds DEF MergedStatus

LEMMA EventStatusIsRecord ==
  ASSUME NEW e \in StripeEvents
  PROVE  /\ EventStatus(e) \in Records
         /\ Completes(e) => EventStatus(e) = "SUCCEEDED"
<1>1. CASE e \in CheckoutEvents
  BY <1>1 DEF EventStatus, Completes, stripeCheckoutPaymentStatus, CheckoutEvents, Records,
              PaymentStatuses
<1>2. CASE e \in IntentEvents
  BY <1>2 DEF EventStatus, Completes, CheckoutEvents, IntentEvents, Records, PaymentStatuses
<1> QED BY <1>1, <1>2 DEF StripeEvents

\* Stripe emits an event that completes only when nothing is left to pay.
LEMMA CompletesOnlyIfSettled ==
  ASSUME Inv, NEW e \in emitted, Completes(e)
  PROVE  Settled
BY DEF Settled, Inv, EventsExplained, Completes, CheckoutEvents, stripeCheckoutPaymentStatus

-----------------------------------------------------------------------------
LEMMA InitInv == ASSUME Init PROVE Inv
<1>1. TypeOK
  <2>1. /\ status \in [StripeEvents -> Inbox!Statuses]
        /\ holder \in [StripeEvents -> Attempts \cup {None}]
    BY DEF Init, Inbox!Init, Inbox!Statuses
  <2>2. NoAttempt \in [stage : Stages, event : StripeEvents \cup {None}, ok : BOOLEAN]
    BY DEF NoAttempt, Stages
  <2>3. attempt \in [Attempts -> [stage : Stages, event : StripeEvents \cup {None}, ok : BOOLEAN]]
    BY <2>2 DEF Init
  <2>4. /\ faults \in 0..MaxFaults /\ benefits \in Nat
        /\ ledger \subseteq {PaymentIntent, CheckoutSession}
    BY PurchaseFaultsAssumption DEF Init
  <2>5. /\ paymentStatus = "unpaid" /\ sellable \in BOOLEAN
        /\ acked \subseteq StripeEvents /\ lapsed \subseteq StripeEvents
    BY DEF Init, Inbox!Init
  <2> QED BY <2>1, <2>3, <2>4, <2>5 DEF Init, TypeOK
<1>2. EventsExplained /\ SucceededMeansFulfilled
  BY DEF Init, EventsExplained, SucceededMeansFulfilled, Inbox!Init
<1>3. GrantedOnce /\ FulfilledOnlyIfSettled /\ FulfilledAfterRecorded
  BY DEF Init, GrantedOnce, FulfilledOnlyIfSettled, FulfilledAfterRecorded
<1>4. AttemptsExplained
  BY DEF Init, AttemptsExplained, Explained, NoAttempt
<1> QED BY <1>1, <1>2, <1>3, <1>4 DEF Inv

-----------------------------------------------------------------------------
(* Stripe.                                                                  *)

\* A move of Stripe's leaves what an emitted event completes as it was: the
\* session's payment_status is set at the end of its Checkout page.
LEMMA StripeMovesStep ==
  ASSUME Inv, NEW from \in StripeStates, NEW to \in StripeStates, NEW events \in SUBSET StripeEvents,
         StripeMoves(from, to, events), from \notin {"paid", "free"},
         \/ paymentStatus' = paymentStatus /\ to # "free"
         \/ paymentStatus' = "paid" /\ from = "open" /\ to = "paid"
         \/ paymentStatus' = "no_payment_required" /\ from = "none" /\ to = "free",
         to \in {"none", "open"} => from \in {"none", "open"} /\ "cs.completed" \notin events,
         "cs.async_succeeded" \in events => to = "paid"
  PROVE  Inv'
<1>1. /\ stripe = from /\ stripe' = to /\ emitted' = emitted \cup (events \cap Subscribed)
      /\ UNCHANGED <<sellable, inbox, attempt, record, ledger, benefits, faults>>
  BY DEF StripeMoves
<1>2. TypeOK'
  BY <1>1 DEF Inv, TypeOK, StripeStates
<1>3. EventsExplained'
  BY <1>1 DEF Inv, TypeOK, EventsExplained, StripeStates
<1>4. \A e \in emitted : Completes(e)' <=> Completes(e)
  BY <1>1 DEF Inv, TypeOK, EventsExplained, Completes, CheckoutEvents, stripeCheckoutPaymentStatus
<1>5. AttemptsExplained'
  BY <1>1, <1>4 DEF Inv, AttemptsExplained, Explained, Rank
<1>6. benefits = 0
  BY <1>1 DEF Inv, FulfilledOnlyIfSettled, Settled, GrantedOnce
<1>7. SucceededMeansFulfilled'
  <2> SUFFICES ASSUME NEW e \in emitted', status'[e] = "SUCCEEDED", Completes(e)'
               PROVE  benefits' > 0
    BY DEF SucceededMeansFulfilled
  <2>1. e \in emitted
    BY <1>1 DEF Inv, TypeOK, EventsExplained
  <2> QED BY <1>1, <1>4, <2>1 DEF Inv, SucceededMeansFulfilled
<1>8. GrantedOnce' /\ FulfilledOnlyIfSettled' /\ FulfilledAfterRecorded'
  BY <1>1, <1>6 DEF Inv, GrantedOnce, FulfilledOnlyIfSettled, FulfilledAfterRecorded
<1> QED BY <1>2, <1>3, <1>5, <1>7, <1>8 DEF Inv

LEMMA StripeStep == ASSUME Inv, Stripe PROVE Inv'
<1> USE DEF StripeStates, StripeEvents, CheckoutEvents, IntentEvents
<1>0. CASE CompleteFree  BY <1>0, StripeMovesStep DEF CompleteFree
<1>1. CASE OpenIntent    BY <1>1, StripeMovesStep DEF OpenIntent
<1>2. CASE DeclineCard   BY <1>2, StripeMovesStep DEF DeclineCard
<1>3. CASE PayNow        BY <1>3, StripeMovesStep DEF PayNow
<1>4. CASE PayLater      BY <1>4, StripeMovesStep DEF PayLater
<1>5. CASE ClearLater    BY <1>5, StripeMovesStep DEF ClearLater
<1>6. CASE Bounce        BY <1>6, StripeMovesStep DEF Bounce
<1>7. CASE CancelIntent  BY <1>7, StripeMovesStep DEF CancelIntent
<1> QED BY <1>0, <1>1, <1>2, <1>3, <1>4, <1>5, <1>6, <1>7 DEF Stripe

-----------------------------------------------------------------------------
(* The attempts.                                                            *)

\* An attempt goes on to new, which is explained by what it leaves behind.
LEMMA AttemptStep ==
  ASSUME Inv, NEW a \in Attempts, NEW new \in AttemptRecord,
         attempt' = [attempt EXCEPT ![a] = new], Explained(new)',
         UNCHANGED purchase,
         acked' \subseteq StripeEvents, lapsed' \subseteq StripeEvents,
         status' \in [StripeEvents -> Inbox!Statuses],
         holder' \in [StripeEvents -> Attempts \cup {None}],
         \A e \in StripeEvents : status'[e] # "ABSENT" => e \in emitted,
         faults' \in 0..MaxFaults,
         record' \in Records, Rank' >= Rank,
         GrantedOnce', benefits' >= benefits,
         FulfilledOnlyIfSettled', FulfilledAfterRecorded', SucceededMeansFulfilled'
  PROVE  Inv'
<1>1. benefits \in Nat /\ benefits' \in Nat /\ Rank \in 0..5 /\ Rank' \in 0..5
  BY RankBounds DEF Inv, TypeOK, GrantedOnce, Rank, Records
<1>2. TypeOK'
  BY <1>1 DEF Inv, TypeOK, AttemptRecord, Records, GrantedOnce, ExternalID
<1>3. EventsExplained'
  BY DEF Inv, EventsExplained
<1>4. AttemptsExplained'
  <2>1. ASSUME NEW b \in Attempts PROVE Explained(attempt[b])'
    <3>1. CASE b = a
      <4>1. attempt'[b] = new
        BY <3>1 DEF Inv, TypeOK
      <4> QED BY <4>1 DEF Explained
    <3>2. CASE b # a
      <4>1. PICK t : t = attempt[b]
        OBVIOUS
      <4>2. attempt'[b] = t
        BY <3>2, <4>1 DEF Inv, TypeOK
      <4>3. Explained(t)
        BY <4>1 DEF Inv, AttemptsExplained
      <4>4. Explained(t)'
        BY <1>1, <4>3 DEF Explained, Completes, stripeCheckoutPaymentStatus
      <4> QED BY <4>2, <4>4 DEF Explained
    <3> QED BY <3>1, <3>2
  <2> QED BY <2>1 DEF AttemptsExplained
<1> QED BY <1>2, <1>3, <1>4 DEF Inv

\* An attempt goes on without touching the payment, the inbox or the consumer.
LEMMA AttemptGoesOn ==
  ASSUME Inv, NEW a \in Attempts, NEW new \in AttemptRecord,
         attempt' = [attempt EXCEPT ![a] = new], Explained(new),
         UNCHANGED <<purchase, inbox, record, ledger, benefits>>,
         faults' \in 0..MaxFaults
  PROVE  Inv'
<1>1. Explained(new)'
  BY DEF Explained, Completes, stripeCheckoutPaymentStatus, Rank
<1>2. record' \in Records /\ Rank' >= Rank /\ benefits' >= benefits
  <2>1. record \in Records /\ Rank \in 0..5 /\ benefits \in Nat
    BY RankBounds DEF Inv, TypeOK, Rank, Records
  <2>2. record' = record /\ Rank' = Rank /\ benefits' = benefits
    BY DEF Rank
  <2> QED BY <2>1, <2>2
<1>3. GrantedOnce' /\ FulfilledOnlyIfSettled' /\ FulfilledAfterRecorded'
  BY DEF Inv, Rank, GrantedOnce, ExternalID, FulfilledOnlyIfSettled, Settled, FulfilledAfterRecorded
<1>4. SucceededMeansFulfilled'
  BY DEF Inv, SucceededMeansFulfilled, Completes, stripeCheckoutPaymentStatus
<1>5. \A e \in StripeEvents : status'[e] # "ABSENT" => e \in emitted
  BY DEF Inv, EventsExplained
<1>6. /\ status' \in [StripeEvents -> Inbox!Statuses]
      /\ holder' \in [StripeEvents -> Attempts \cup {None}]
      /\ acked' \subseteq StripeEvents /\ lapsed' \subseteq StripeEvents
  BY DEF Inv, TypeOK
<1> QED BY <1>1, <1>2, <1>3, <1>4, <1>5, <1>6, AttemptStep

\* Fails: the attempt is to report an error, which explains nothing.
LEMMA FailsStep ==
  ASSUME Inv, NEW a \in Attempts, attempt[a].stage # "idle", Fails(a), faults' \in 0..MaxFaults,
         UNCHANGED <<purchase, inbox, record, ledger, benefits>>
  PROVE  Inv'
<1> DEFINE new == [attempt[a] EXCEPT !.stage = "finish", !.ok = FALSE]
<1>1. attempt[a] \in AttemptRecord
  BY DEF Inv, TypeOK, AttemptRecord
<1>2. new \in AttemptRecord /\ new.event = attempt[a].event /\ new.stage = "finish" /\ ~new.ok
  BY <1>1 DEF AttemptRecord, Stages
<1>3. attempt' = [attempt EXCEPT ![a] = new]
  BY DEF Fails, Inv, TypeOK
<1>4. new.event \in emitted
  BY <1>2 DEF Inv, AttemptsExplained, Explained
<1> HIDE DEF new
<1> QED BY <1>2, <1>3, <1>4, AttemptGoesOn DEF Explained

\* An attempt ends, or its process dies.
LEMMA NoAttemptExplained == NoAttempt \in AttemptRecord /\ Explained(NoAttempt)
BY DEF NoAttempt, AttemptRecord, Stages, Explained

LEMMA CrashStep == ASSUME Inv, NEW a \in Attempts, Crash(a) PROVE Inv'
<1>1. faults' \in 0..MaxFaults
  BY PurchaseFaultsAssumption DEF Crash, Fault, Inv, TypeOK
<1>2. /\ attempt' = [attempt EXCEPT ![a] = NoAttempt]
      /\ UNCHANGED <<purchase, inbox, record, ledger, benefits>>
  BY DEF Crash
<1> QED BY <1>1, <1>2, NoAttemptExplained, AttemptGoesOn

LEMMA CheckStep == ASSUME Inv, NEW a \in Attempts, Check(a) PROVE Inv'
<1>1. /\ attempt[a].stage = "check"
      /\ UNCHANGED <<purchase, inbox, record, ledger, benefits>>
  BY DEF Check
<1>2. faults' \in 0..MaxFaults
  BY PurchaseFaultsAssumption DEF Check, Fault, Inv, TypeOK
<1>3. CASE Fails(a)
  BY <1>1, <1>2, <1>3, FailsStep
<1>4. CASE sellable /\ Advances(a)
  <2> DEFINE new == [attempt[a] EXCEPT !.stage = "upsert", !.ok = TRUE]
  <2>1. attempt[a] \in AttemptRecord
    BY DEF Inv, TypeOK, AttemptRecord
  <2>2. new \in AttemptRecord /\ new.event = attempt[a].event /\ new.stage = "upsert"
    BY <2>1 DEF AttemptRecord, Stages
  <2>3. attempt' = [attempt EXCEPT ![a] = new]
    BY <1>1, <1>4 DEF Advances, StageAfter, Inv, TypeOK
  <2>4. new.event \in emitted
    BY <1>1, <2>2 DEF Inv, AttemptsExplained, Explained
  <2> HIDE DEF new
  <2> QED BY <1>1, <1>2, <1>4, <2>2, <2>3, <2>4, AttemptGoesOn DEF Explained
<1> QED BY <1>3, <1>4 DEF Check

\* UpsertPayment: a paid Checkout leaves at least the rank of SUCCEEDED.
LEMMA UpsertStep == ASSUME Inv, NEW a \in Attempts, Upsert(a) PROVE Inv'
<1> DEFINE e == attempt[a].event
<1>1. /\ attempt[a].stage = "upsert"
      /\ UNCHANGED <<purchase, inbox, ledger, benefits>>
  BY DEF Upsert
<1>2. faults' \in 0..MaxFaults
  BY PurchaseFaultsAssumption DEF Upsert, Fault, Inv, TypeOK
<1>3. CASE Fails(a) /\ UNCHANGED record
  BY <1>1, <1>2, <1>3, FailsStep
<1>4. CASE record' = MergedStatus(record, EventStatus(e)) /\ Advances(a)
  <2> DEFINE new == [attempt[a] EXCEPT !.stage = StageAfter("upsert", e), !.ok = TRUE]
  <2>1. /\ attempt[a] \in AttemptRecord
        /\ e \in emitted /\ e \in StripeEvents
        /\ Completes(e) => sellable
    BY <1>1 DEF Inv, TypeOK, AttemptRecord, AttemptsExplained, Explained
  <2>2. StageAfter("upsert", e) = IF Completes(e) THEN "publish" ELSE "finish"
    BY DEF StageAfter
  <2>3. /\ new \in AttemptRecord /\ new.event = e
        /\ new.stage = IF Completes(e) THEN "publish" ELSE "finish"
    BY <2>1, <2>2 DEF AttemptRecord, Stages
  <2>4. attempt' = [attempt EXCEPT ![a] = new]
    BY <1>1, <1>4 DEF Advances, Inv, TypeOK
  <2>5. record \in Records /\ EventStatus(e) \in Records
        /\ (Completes(e) => EventStatus(e) = "SUCCEEDED")
    BY <2>1, EventStatusIsRecord DEF Inv, TypeOK, Records
  <2>6. /\ record' \in Records /\ Rank' >= Rank
        /\ Rank' >= paymentStatusRank(EventStatus(e))
    BY <1>4, <2>5, MergeRaises DEF Rank
  <2>7. Completes(e) => Rank' >= 2
    BY <2>5, <2>6 DEF paymentStatusRank
  <2>8. PICK t : t = new
    OBVIOUS
  <2>9. PICK f : f = e
    OBVIOUS
  <2> HIDE DEF new, e
  <2>10. Completes(f)' <=> Completes(f)
    BY <1>1 DEF Completes, stripeCheckoutPaymentStatus
  <2>11. Explained(t)'
    BY <1>1, <2>1, <2>3, <2>7, <2>8, <2>9, <2>10 DEF Explained
  <2>12. Rank \in 0..5 /\ Rank' \in 0..5 /\ benefits \in Nat /\ benefits' = benefits
    BY <1>1, <2>5, <2>6, RankBounds DEF Rank, Inv, TypeOK
  <2>13. benefits' >= benefits /\ GrantedOnce' /\ FulfilledOnlyIfSettled'
    BY <1>1, <2>12 DEF Inv, GrantedOnce, ExternalID, FulfilledOnlyIfSettled, Settled
  <2>14. FulfilledAfterRecorded'
    BY <2>6, <2>12 DEF Inv, FulfilledAfterRecorded, Rank
  <2>15. SucceededMeansFulfilled'
    BY <1>1 DEF Inv, SucceededMeansFulfilled, Completes, stripeCheckoutPaymentStatus
  <2>16. /\ status' \in [StripeEvents -> Inbox!Statuses]
         /\ holder' \in [StripeEvents -> Attempts \cup {None}]
         /\ \A x \in StripeEvents : status'[x] # "ABSENT" => x \in emitted
         /\ acked' \subseteq StripeEvents /\ lapsed' \subseteq StripeEvents
    BY <1>1 DEF Inv, TypeOK, EventsExplained
  <2> QED
    BY <1>1, <1>2, <2>3, <2>4, <2>6, <2>8, <2>11, <2>13, <2>14, <2>15, <2>16, AttemptStep
<1> QED BY <1>3, <1>4 DEF Upsert

\* Publish: the consumer's ledger lets the payment's message through once.
LEMMA PublishStep == ASSUME Inv, NEW a \in Attempts, Publish(a) PROVE Inv'
<1> DEFINE e == attempt[a].event
<1>1. /\ attempt[a].stage = "publish"
      /\ UNCHANGED <<purchase, inbox, record>>
  BY DEF Publish
<1>2. faults' \in 0..MaxFaults
  BY PurchaseFaultsAssumption DEF Publish, Fault, Inv, TypeOK
<1>3. CASE Fails(a) /\ UNCHANGED <<ledger, benefits>>
  BY <1>1, <1>2, <1>3, FailsStep
<1>4. CASE /\ Advances(a)
           /\ \/ /\ MessageID(a) \notin ledger
                 /\ ledger' = ledger \cup {MessageID(a)} /\ benefits' = benefits + 1
              \/ /\ MessageID(a) \in ledger
                 /\ UNCHANGED <<ledger, benefits>>
  <2> DEFINE new == [attempt[a] EXCEPT !.stage = "finish", !.ok = TRUE]
  <2>1. /\ attempt[a] \in AttemptRecord
        /\ e \in emitted /\ e \in StripeEvents
        /\ Completes(e) /\ sellable /\ Rank >= 2
    BY <1>1 DEF Inv, TypeOK, AttemptRecord, AttemptsExplained, Explained
  <2>2. new \in AttemptRecord /\ new.event = e /\ new.stage = "finish"
    BY <2>1 DEF AttemptRecord, Stages
  <2>3. attempt' = [attempt EXCEPT ![a] = new]
    BY <1>1, <1>4 DEF Advances, StageAfter, Inv, TypeOK
  <2>4. Settled
    BY <2>1, CompletesOnlyIfSettled
  <2>5. benefits' = 1 /\ ledger' = {ExternalID} /\ benefits \in 0..1
    BY <1>4 DEF MessageID, Inv, GrantedOnce
  <2>6. Rank' = Rank /\ Rank \in 0..5 /\ record' \in Records
    BY <1>1, RankBounds DEF Rank, Inv, TypeOK, Records
  <2>7. GrantedOnce' /\ FulfilledOnlyIfSettled' /\ SucceededMeansFulfilled'
    BY <1>1, <2>1, <2>4, <2>5 DEF GrantedOnce, ExternalID, FulfilledOnlyIfSettled, Settled, SucceededMeansFulfilled
  <2>8. FulfilledAfterRecorded'
    BY <2>1, <2>6 DEF FulfilledAfterRecorded, Rank
  <2>9. PICK t : t = new
    OBVIOUS
  <2> HIDE DEF new, e
  <2>10. Explained(t)'
    BY <1>1, <2>1, <2>2, <2>5, <2>9 DEF Explained
  <2>11. /\ status' \in [StripeEvents -> Inbox!Statuses]
         /\ holder' \in [StripeEvents -> Attempts \cup {None}]
         /\ \A x \in StripeEvents : status'[x] # "ABSENT" => x \in emitted
         /\ acked' \subseteq StripeEvents /\ lapsed' \subseteq StripeEvents
    BY <1>1 DEF Inv, TypeOK, EventsExplained
  <2>12. Rank' >= Rank /\ benefits' >= benefits
    BY <2>5, <2>6
  <2> QED
    BY <1>1, <1>2, <2>2, <2>3, <2>6, <2>7, <2>8, <2>9, <2>10, <2>11, <2>12, AttemptStep
<1> QED BY <1>3, <1>4 DEF Publish

-----------------------------------------------------------------------------
(* The inbox.                                                               *)

\* A step that changes no more than the inbox and an attempt; an event that it
\* makes SUCCEEDED, if it completes, has been fulfilled.
LEMMA InboxStep ==
  ASSUME Inv, NEW a \in Attempts, NEW new \in AttemptRecord,
         attempt' = [attempt EXCEPT ![a] = new], Explained(new),
         UNCHANGED <<purchase, record, ledger, benefits>>,
         acked' \subseteq StripeEvents, lapsed' \subseteq StripeEvents,
         faults' \in 0..MaxFaults,
         status' \in [StripeEvents -> Inbox!Statuses],
         holder' \in [StripeEvents -> Attempts \cup {None}],
         \A e \in StripeEvents : status'[e] # "ABSENT" => e \in emitted,
         \A e \in emitted : status'[e] = "SUCCEEDED" /\ status[e] # "SUCCEEDED" /\ Completes(e)
                             => benefits > 0
  PROVE  Inv'
<1>1. Explained(new)'
  BY DEF Explained, Completes, stripeCheckoutPaymentStatus, Rank
<1>2. record' \in Records /\ Rank' >= Rank /\ benefits' >= benefits
  <2>1. record \in Records /\ Rank \in 0..5 /\ benefits \in Nat
    BY RankBounds DEF Inv, TypeOK, Rank, Records
  <2>2. record' = record /\ Rank' = Rank /\ benefits' = benefits
    BY DEF Rank
  <2> QED BY <2>1, <2>2
<1>3. GrantedOnce' /\ FulfilledOnlyIfSettled' /\ FulfilledAfterRecorded'
  BY DEF Inv, GrantedOnce, ExternalID, FulfilledOnlyIfSettled, Settled, FulfilledAfterRecorded
<1>4. SucceededMeansFulfilled'
  BY DEF Inv, SucceededMeansFulfilled, Completes, stripeCheckoutPaymentStatus
<1> QED BY <1>1, <1>2, <1>3, <1>4, AttemptStep

\* ClaimWebhook: the attempt begins with the check of a paid Checkout, or with
\* the upsert.
LEMMA BeginsStep ==
  ASSUME Inv, NEW a \in Attempts, NEW e \in emitted, Begins(a, e),
         UNCHANGED <<purchase, record, ledger, benefits>>,
         acked' \subseteq StripeEvents, lapsed' \subseteq StripeEvents,
         faults' \in 0..MaxFaults,
         status' \in [StripeEvents -> Inbox!Statuses],
         holder' = [holder EXCEPT ![e] = a],
         \A x \in StripeEvents : status'[x] = IF x = e THEN "PROCESSING" ELSE status[x]
  PROVE  Inv'
<1>1. e \in StripeEvents
  BY DEF Inv, TypeOK
<1>2. PICK new : new = [stage |-> FirstStage(e), event |-> e, ok |-> FALSE]
  OBVIOUS
<1>3. attempt' = [attempt EXCEPT ![a] = new]
  BY <1>2 DEF Begins
<1>4. FirstStage(e) = IF Completes(e) THEN "check" ELSE "upsert"
  BY DEF FirstStage
<1>5. new \in AttemptRecord
  BY <1>1, <1>2, <1>4 DEF AttemptRecord, Stages
<1>6. Explained(new)
  BY <1>2, <1>4 DEF Explained
<1>7. holder' \in [StripeEvents -> Attempts \cup {None}]
  BY DEF Inv, TypeOK
<1>8. /\ \A x \in StripeEvents : status'[x] # "ABSENT" => x \in emitted
      /\ \A x \in emitted : status'[x] = "SUCCEEDED" => status[x] = "SUCCEEDED"
  BY DEF Inv, TypeOK, EventsExplained
<1> QED BY <1>3, <1>5, <1>6, <1>7, <1>8, InboxStep

LEMMA ClaimStep ==
  ASSUME Inv, NEW a \in Attempts, NEW e \in StripeEvents, Claim(a, e) \/ Reclaim(a, e)
  PROVE  Inv'
<1>1. /\ e \in emitted /\ Begins(a, e)
      /\ UNCHANGED <<purchase, record, ledger, benefits>>
  BY DEF Claim, Reclaim
<1>2. faults' \in 0..MaxFaults
  BY PurchaseFaultsAssumption DEF Claim, Reclaim, Fault, Inv, TypeOK
<1>3. holder' = [holder EXCEPT ![e] = a]
  BY DEF Claim, Reclaim, Inbox!Accept, Inbox!TakeOver
<1>4. \/ status' = [status EXCEPT ![e] = "PROCESSING"]
      \/ status' = status /\ status[e] = "PROCESSING"
  BY DEF Claim, Reclaim, Inbox!Accept, Inbox!TakeOver
<1>5. /\ status' \in [StripeEvents -> Inbox!Statuses]
      /\ \A x \in StripeEvents : status'[x] = IF x = e THEN "PROCESSING" ELSE status[x]
  BY <1>4 DEF Inv, TypeOK, Inbox!Statuses
<1>6. acked' \subseteq StripeEvents /\ lapsed' \subseteq StripeEvents
  BY DEF Claim, Reclaim, Inbox!Accept, Inbox!TakeOver, Inv, TypeOK
<1> QED BY <1>1, <1>2, <1>3, <1>5, <1>6, BeginsStep

\* FinishWebhook: SUCCEEDED is recorded for an attempt that has published, if
\* there was anything to publish.
LEMMA FinishStep == ASSUME Inv, NEW a \in Attempts, Finish(a) PROVE Inv'
<1>1. PICK e : e = attempt[a].event
  OBVIOUS
<1>2. /\ attempt[a].stage = "finish" /\ attempt' = [attempt EXCEPT ![a] = NoAttempt]
      /\ UNCHANGED <<purchase, record, ledger, benefits, faults>>
  BY DEF Finish
<1>3. /\ e \in emitted /\ e \in StripeEvents
      /\ attempt[a].ok /\ Completes(e) => benefits > 0
  BY <1>1, <1>2 DEF Inv, TypeOK, AttemptsExplained, Explained
<1>4. \/ /\ \E outcome \in {"SUCCEEDED", "FAILED"} : status' = [status EXCEPT ![e] = outcome]
         /\ status'[e] = IF attempt[a].ok THEN "SUCCEEDED" ELSE "FAILED"
         /\ holder' = holder
      \/ UNCHANGED <<status, holder>>
  BY <1>1 DEF Finish, Inbox!Settle
<1>5. /\ status' \in [StripeEvents -> Inbox!Statuses]
      /\ \A x \in StripeEvents : x # e => status'[x] = status[x]
      /\ status'[e] = "SUCCEEDED" /\ status[e] # "SUCCEEDED" => attempt[a].ok
  BY <1>3, <1>4 DEF Inv, TypeOK, Inbox!Statuses
<1>6. holder' \in [StripeEvents -> Attempts \cup {None}]
  BY <1>4 DEF Inv, TypeOK
<1>7. /\ \A x \in StripeEvents : status'[x] # "ABSENT" => x \in emitted
      /\ \A x \in emitted : status'[x] = "SUCCEEDED" /\ status[x] # "SUCCEEDED" /\ Completes(x)
                            => benefits > 0
  BY <1>3, <1>5 DEF Inv, TypeOK, EventsExplained
<1>8. faults' \in 0..MaxFaults /\ acked' \subseteq StripeEvents /\ lapsed' \subseteq StripeEvents
  BY <1>2 DEF Finish, Inbox!Settle, Inv, TypeOK
<1> QED BY <1>2, <1>5, <1>6, <1>7, <1>8, NoAttemptExplained, InboxStep

-----------------------------------------------------------------------------
\* An answer to a duplicate, or the age of a signature, explains nothing.
LEMMA AnswerStep ==
  ASSUME Inv, acked' \subseteq StripeEvents, lapsed' \subseteq StripeEvents,
         UNCHANGED <<purchase, status, holder, attempt, record, ledger, benefits, faults>>
  PROVE  Inv'
BY DEF Inv, TypeOK, EventsExplained, GrantedOnce, ExternalID, AttemptsExplained, Explained, Rank,
       FulfilledOnlyIfSettled, Settled, FulfilledAfterRecorded, SucceededMeansFulfilled, Completes,
       stripeCheckoutPaymentStatus

LEMMA NextInv == Inv /\ [Next]_vars => Inv'
<1> SUFFICES ASSUME Inv, [Next]_vars PROVE Inv'
  OBVIOUS
<1>1. CASE Stripe
  BY <1>1, StripeStep
<1>2. ASSUME NEW a \in Attempts, NEW e \in StripeEvents, Claim(a, e) \/ Reclaim(a, e) PROVE Inv'
  BY <1>2, ClaimStep
<1>3. ASSUME NEW a \in Attempts, Work(a) PROVE Inv'
  BY <1>3, CheckStep, UpsertStep, PublishStep, FinishStep DEF Work
<1>4. ASSUME NEW a \in Attempts, Crash(a) PROVE Inv'
  BY <1>4, CrashStep
<1>5. ASSUME NEW e \in StripeEvents, Duplicate(e) \/ SignatureAges(e) PROVE Inv'
  BY <1>5, AnswerStep DEF Duplicate, SignatureAges, Inbox!Acknowledge, Inv, TypeOK
<1>6. CASE UNCHANGED vars
  BY <1>6, AnswerStep DEF vars, Inv, TypeOK
<1> QED BY <1>1, <1>2, <1>3, <1>4, <1>5, <1>6 DEF Next

LEMMA Invariance == Spec => []Inv
<1>1. Init => Inv
  BY InitInv
<1> QED BY <1>1, NextInv, PTL DEF Spec

\* Every variable keeps its type.
THEOREM TypeCorrect == Spec => []TypeOK
<1>1. Inv => TypeOK
  BY DEF Inv
<1> QED BY <1>1, Invariance, PTL

\* handleStripeCheckout and the consumer's ledger: the benefit of one payment is
\* granted once, whichever attempts overlap, fail half-way or are repeated.
THEOREM FulfilledAtMostOnceHolds == Spec => []FulfilledAtMostOnce
<1>1. Inv => FulfilledAtMostOnce
  BY DEF Inv, GrantedOnce, FulfilledAtMostOnce
<1> QED BY <1>1, Invariance, PTL

\* handleStripeCheckout: no Checkout is fulfilled as long as Stripe has money to
\* collect for it, or that the catalog does not sell.
THEOREM FulfilledOnlyIfSettledHolds == Spec => []FulfilledOnlyIfSettled
<1>1. Inv => FulfilledOnlyIfSettled
  BY DEF Inv
<1> QED BY <1>1, Invariance, PTL

\* handleStripeCheckout: what is fulfilled is on record, at SUCCEEDED or above.
THEOREM FulfilledAfterRecordedHolds == Spec => []FulfilledAfterRecorded
<1>1. Inv => FulfilledAfterRecorded
  BY DEF Inv
<1> QED BY <1>1, Invariance, PTL

\* HandleWebhook: the webhook of a settled Checkout is SUCCEEDED, and so forgotten,
\* only once the purchase has been fulfilled.
THEOREM SucceededMeansFulfilledHolds == Spec => []SucceededMeansFulfilled
<1>1. Inv => SucceededMeansFulfilled
  BY DEF Inv
<1> QED BY <1>1, Invariance, PTL

\* A purchase that is settled has left an event behind that completes it.
SettledLeavesAnEvent ==
  {"cs.completed", "cs.async_succeeded"} \subseteq Subscribed /\ Settled
    => \/ paymentStatus \in {"paid", "no_payment_required"} /\ "cs.completed" \in emitted
       \/ "cs.async_succeeded" \in emitted

\* SettledIsAwaited: until a settled purchase is fulfilled, the inbox has an
\* event of it that is not SUCCEEDED, and so may be delivered or retried.
THEOREM SettledIsAwaitedHolds == Spec => []SettledIsAwaited
<1>1. Init => SettledLeavesAnEvent
  BY DEF Init, SettledLeavesAnEvent, Settled
<1>2. Inv /\ SettledLeavesAnEvent /\ [Next]_vars => SettledLeavesAnEvent'
  <2> SUFFICES ASSUME Inv, SettledLeavesAnEvent, [Next]_vars PROVE SettledLeavesAnEvent'
    OBVIOUS
  <2>1. CASE Stripe
    BY <2>1 DEF Stripe, CompleteFree, OpenIntent, DeclineCard, PayNow, PayLater, ClearLater, Bounce, CancelIntent,
                StripeMoves, SettledLeavesAnEvent, Settled
  <2>2. CASE UNCHANGED purchase
    BY <2>2 DEF SettledLeavesAnEvent, Settled
  <2>3. ASSUME NEW a \in Attempts,
               \/ \E e \in StripeEvents : Claim(a, e) \/ Reclaim(a, e)
               \/ Work(a) \/ Crash(a)
        PROVE  UNCHANGED purchase
    BY <2>3 DEF Claim, Reclaim, Work, Check, Upsert, Publish, Finish, Crash
  <2> QED BY <2>1, <2>2, <2>3 DEF Next, Duplicate, SignatureAges, vars
<1>3. Inv /\ SettledLeavesAnEvent => SettledIsAwaited
  <2> SUFFICES ASSUME Inv, SettledLeavesAnEvent, {"cs.completed", "cs.async_succeeded"} \subseteq Subscribed,
                      Settled, benefits = 0
               PROVE  \E e \in emitted : Completes(e) /\ status[e] # "SUCCEEDED"
    BY DEF SettledIsAwaited
  <2>1. PICK e \in emitted : Completes(e)
    BY DEF SettledLeavesAnEvent, Completes, CheckoutEvents, stripeCheckoutPaymentStatus
  <2> QED
    BY <2>1 DEF Inv, SucceededMeansFulfilled
<1> QED BY <1>1, <1>2, <1>3, Invariance, PTL DEF Spec

\* What Stripe does later does not change what an event has said.
LEMMA EventsKeepTheirWord ==
  ASSUME Inv, [Next]_vars, NEW e \in emitted
  PROVE  e \in emitted' /\ EventStatus(e)' = EventStatus(e)
<1>1. e \in StripeEvents
  BY DEF Inv, TypeOK
<1>2. CASE Stripe
  <2>1. emitted \subseteq emitted' /\ (paymentStatus' = paymentStatus \/ PayNow \/ CompleteFree)
    BY <1>2 DEF Stripe, CompleteFree, OpenIntent, DeclineCard, PayNow, PayLater, ClearLater, Bounce, CancelIntent,
                StripeMoves
  <2>2. PayNow \/ CompleteFree => e # "cs.completed"
    BY DEF PayNow, CompleteFree, StripeMoves, Inv, EventsExplained
  <2> QED
    BY <1>1, <2>1, <2>2
    DEF EventStatus, stripeCheckoutPaymentStatus, CheckoutEvents, IntentEvents, StripeEvents
<1>3. CASE UNCHANGED purchase
  BY <1>3 DEF EventStatus, stripeCheckoutPaymentStatus
<1>4. ASSUME NEW a \in Attempts,
             \/ \E x \in StripeEvents : Claim(a, x) \/ Reclaim(a, x)
             \/ Work(a) \/ Crash(a)
      PROVE  UNCHANGED purchase
  BY <1>4 DEF Claim, Reclaim, Work, Check, Upsert, Publish, Finish, Crash
<1> QED BY <1>2, <1>3, <1>4 DEF Next, Duplicate, SignatureAges, vars

\* RecordedPaidOnlyIfSettled: a status on record is one that an event reported, and
\* SUCCEEDED is reported of a settled one only.
THEOREM RecordedPaidOnlyIfSettledHolds == Spec => []RecordedPaidOnlyIfSettled
<1> DEFINE Reported == record # "ABSENT" => \E e \in emitted : EventStatus(e) = record
           PaidReported == "pi.succeeded" \in emitted => stripe = "paid"
<1>1. Init => Reported /\ PaidReported
  BY DEF Init
<1>2. Inv /\ PaidReported /\ [Next]_vars => PaidReported'
  <2> SUFFICES ASSUME Inv, PaidReported, [Next]_vars PROVE PaidReported'
    OBVIOUS
  <2>1. CASE Stripe
    BY <2>1 DEF Stripe, CompleteFree, OpenIntent, DeclineCard, PayNow, PayLater, ClearLater, Bounce, CancelIntent,
                StripeMoves
  <2>2. ASSUME NEW a \in Attempts,
               \/ \E e \in StripeEvents : Claim(a, e) \/ Reclaim(a, e)
               \/ Work(a) \/ Crash(a)
        PROVE  UNCHANGED <<stripe, emitted>>
    BY <2>2 DEF Claim, Reclaim, Work, Check, Upsert, Publish, Finish, Crash
  <2> QED BY <2>1, <2>2 DEF Next, Duplicate, SignatureAges, vars
<1>3. Inv /\ Reported /\ [Next]_vars => Reported'
  <2> SUFFICES ASSUME Inv, Reported, [Next]_vars, record' # "ABSENT"
               PROVE  \E e \in emitted' : EventStatus(e)' = record'
    OBVIOUS
  <2>1. CASE record' = record
    BY <2>1, EventsKeepTheirWord
  <2>2. ASSUME NEW a \in Attempts, Upsert(a), record' # record
        PROVE  \E e \in emitted : EventStatus(e) = record'
    <3>1. record' = EventStatus(attempt[a].event)
      BY <2>2 DEF Upsert, MergedStatus
    <3>2. attempt[a].event \in emitted
      BY <2>2 DEF Upsert, Inv, AttemptsExplained, Explained
    <3> QED BY <3>1, <3>2
  <2>3. CASE Stripe
    BY <2>1, <2>3 DEF Stripe, CompleteFree, OpenIntent, DeclineCard, PayNow, PayLater, ClearLater, Bounce,
                      CancelIntent, StripeMoves
  <2>4. ASSUME NEW a \in Attempts,
               \/ \E e \in StripeEvents : Claim(a, e) \/ Reclaim(a, e)
               \/ Check(a) \/ Publish(a) \/ Finish(a) \/ Crash(a)
        PROVE  record' = record
    BY <2>4 DEF Claim, Reclaim, Check, Publish, Finish, Crash
  <2> QED
    BY <2>1, <2>2, <2>3, <2>4, EventsKeepTheirWord DEF Next, Work, Duplicate, SignatureAges, vars
<1>4. Inv /\ Reported /\ PaidReported => RecordedPaidOnlyIfSettled
  <2> SUFFICES ASSUME Inv, PaidReported, NEW e \in emitted, EventStatus(e) = "SUCCEEDED"
               PROVE  Settled
    BY DEF RecordedPaidOnlyIfSettled
  <2>1. e \in StripeEvents
    BY DEF Inv, TypeOK
  <2>2. CASE e \in CheckoutEvents
    BY <2>2, CompletesOnlyIfSettled DEF Completes, EventStatus, CheckoutEvents
  <2>3. CASE e \in IntentEvents
    BY <2>3 DEF EventStatus, IntentEvents, CheckoutEvents, Settled
  <2> QED BY <2>1, <2>2, <2>3 DEF StripeEvents
<1> QED BY <1>1, <1>2, <1>3, <1>4, Invariance, PTL DEF Spec
=============================================================================

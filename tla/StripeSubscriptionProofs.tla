----------------------- MODULE StripeSubscriptionProofs -----------------------
(***************************************************************************)
(* A refused repetition explained, and a processed event on record: for    *)
(* any number of attempts, requests, handlers, changes at Stripe and       *)
(* faults.                                                                 *)
(*                                                                         *)
(* A customer that a request or a session names was on record, and records *)
(* stay; a handler that is past the payment of its event has recorded it.  *)
(* The subscription's period is at least 1 and never beyond its version,   *)
(* so that every event speaks of a period there is a payment for.          *)
(*                                                                         *)
(* Rows and payments are what Stripe has said: whatever is written came in *)
(* an event, or was retrieved, of a subscription whose snapshots all came  *)
(* in events (Source).                                                     *)
(***************************************************************************)
EXTENDS StripeSubscription, TLAPS

Sub == [at : Snapshot, over : 0..MaxChanges, due : BOOLEAN, ending : BOOLEAN]

RequestsExplained ==
  \A r \in Requests : request[r].pc # "idle" =>
    /\ request[r].key \in Keys
    /\ request[r].pc = "customer" => request[r].key \in Recurring
    /\ request[r].customer => request[r].key \in Recurring /\ CustomerKnown
SessionsExplained == \A k \in Keys : session[k].customer => k \in Recurring /\ CustomerKnown
PeriodsCounted ==
  /\ \A k \in Recurring :
       /\ sub[k].at.period <= sub[k].at.n /\ sub[k].at.n <= MaxChanges
       /\ sub[k].at.status = "none" \/ sub[k].at.period \in Periods
       /\ sub[k].due => sub[k].at.status # "none"
  /\ \A e \in emitted : e.at.period \in Periods
Paid(e) == e.type = "subscription" \/ payment[e.key][e.at.period] # "ABSENT"
HandlersRecorded ==
  \A h \in Handlers : task[h].pc # "idle" =>
    /\ task[h].key \in Recurring
    /\ task[h].pc = "payment" => task[h].event \in emitted
    /\ task[h].event # None =>
         /\ task[h].key = task[h].event.key
         /\ task[h].pc # "payment" => Paid(task[h].event)

Inv ==
  /\ TypeOK
  /\ RetryNotRefused
  /\ RequestsExplained /\ SessionsExplained
  /\ PeriodsCounted
  /\ ProcessedIsRecorded
  /\ HandlersRecorded

USE DEF Recurring, Periods, Live, StripeStatuses, SubscriptionStatuses, PaymentStatuses

-----------------------------------------------------------------------------
\* mapStripePaymentSubscriptionStatus yields a status of a stored subscription.
LEMMA MappedIsStatus ==
  ASSUME NEW status
  PROVE  mapStripePaymentSubscriptionStatus(status) \in SubscriptionStatuses
BY DEF mapStripePaymentSubscriptionStatus

\* UpsertPayment leaves a row.
LEMMA MergedIsPayment ==
  ASSUME NEW old \in PaymentStatuses \cup {"ABSENT"}, NEW new \in {"FAILED", "SUCCEEDED"}
  PROVE  MergedStatus(old, new) \in PaymentStatuses
BY DEF MergedStatus, paymentStatusRank

LEMMA InitInv == ASSUME Init PROVE Inv
<1>1. trialDays \in BOOLEAN /\ session \in [Keys -> [made : BOOLEAN, customer : BOOLEAN, trial : BOOLEAN]]
  BY DEF Init
<1>2. request \in [Requests -> [pc : {"idle", "customer", "create"}, key : Keys \cup {None},
                                customer : BOOLEAN]]
  BY DEF Init, NoRequest
<1>3. NoSnapshot \in Snapshot
  BY SubscriptionBoundsAssumption DEF NoSnapshot, Snapshot
<1>4. sub \in [Recurring -> Sub]
  BY <1>3, SubscriptionBoundsAssumption DEF Init, Sub
<1>5. task \in [Handlers -> [pc : {"idle", "payment", "retrieve", "write"},
                             key : Recurring \cup {None}, event : emitted \cup {None},
                             at : Snapshot]]
  BY <1>3 DEF Init, NoTask
<1>6. TypeOK
  BY <1>1, <1>2, <1>4, <1>5, SubscriptionBoundsAssumption DEF Init, TypeOK, Sub
<1>7. PeriodsCounted
  BY SubscriptionBoundsAssumption DEF Init, PeriodsCounted, NoSnapshot
<1> QED
  BY <1>6, <1>7 DEF Init, Inv, RetryNotRefused, RequestsExplained, NoRequest,
                    SessionsExplained, ProcessedIsRecorded, HandlersRecorded, NoTask

-----------------------------------------------------------------------------
(* Requests.                                                                *)

Elsewhere == UNCHANGED <<trialDays, sub, emitted, done, task, stored>>

\* What a request does concerns nothing but the requests and the sessions.
LEMMA RequestStep ==
  ASSUME Inv, Elsewhere, faults' \in 0..MaxFaults,
         session' \in [Keys -> [made : BOOLEAN, customer : BOOLEAN, trial : BOOLEAN]],
         refused' \subseteq Keys,
         request' \in [Requests -> [pc : {"idle", "customer", "create"}, key : Keys \cup {None},
                                    customer : BOOLEAN]],
         RetryNotRefused', RequestsExplained', SessionsExplained'
  PROVE  Inv'
<1>1. TypeOK'
  BY DEF Inv, TypeOK, Elsewhere, stored
<1>2. PeriodsCounted' /\ ProcessedIsRecorded' /\ HandlersRecorded'
  BY DEF Inv, Elsewhere, stored, PeriodsCounted, ProcessedIsRecorded, HandlersRecorded, Paid, Stored
<1> QED BY <1>1, <1>2 DEF Inv

\* A request goes on, or ends, and no session is made.
LEMMA RequestGoesOn ==
  ASSUME Inv, NEW r \in Requests, Elsewhere, UNCHANGED <<session, refused>>, faults' \in 0..MaxFaults,
         NEW new \in [pc : {"idle", "customer", "create"}, key : Keys \cup {None}, customer : BOOLEAN],
         request' = [request EXCEPT ![r] = new],
         new.pc # "idle" =>
           /\ new.key \in Keys
           /\ new.pc = "customer" => new.key \in Recurring
           /\ new.customer => new.key \in Recurring /\ CustomerKnown
  PROVE  Inv'
<1>1. CustomerKnown' <=> CustomerKnown
  BY DEF Elsewhere, stored, CustomerKnown, Stored
<1>2. \A s \in Requests : request'[s] = IF s = r THEN new ELSE request[s]
  BY DEF Inv, TypeOK
<1>3. RequestsExplained'
  BY <1>1, <1>2 DEF Inv, RequestsExplained
<1>4. RetryNotRefused' /\ SessionsExplained'
  BY <1>1 DEF Inv, Elsewhere, RetryNotRefused, SessionsExplained
<1>5. request' \in [Requests -> [pc : {"idle", "customer", "create"}, key : Keys \cup {None},
                                 customer : BOOLEAN]]
  BY DEF Inv, TypeOK
<1> QED BY <1>3, <1>4, <1>5, RequestStep DEF Inv, TypeOK

LEMMA BeginStep ==
  ASSUME Inv, NEW r \in Requests, NEW k \in Keys, BeginCheckout(r, k) \/ BeginSubscription(r, k)
  PROVE  Inv'
<1>1. NoRequest \in [pc : {"idle", "customer", "create"}, key : Keys \cup {None}, customer : BOOLEAN]
      /\ ~NoRequest.customer
  BY DEF NoRequest
<1>2. \A pc \in {"customer", "create"} :
        LET new == [NoRequest EXCEPT !.pc = pc, !.key = k]
        IN  /\ new \in [pc : {"idle", "customer", "create"}, key : Keys \cup {None}, customer : BOOLEAN]
            /\ new.pc = pc /\ new.key = k /\ ~new.customer
  BY DEF NoRequest
<1>3. CASE BeginCheckout(r, k)
  <2> DEFINE new == [NoRequest EXCEPT !.pc = "create", !.key = k]
  <2>1. request' = [request EXCEPT ![r] = new]
    BY <1>3 DEF BeginCheckout
  <2>2. Elsewhere /\ UNCHANGED <<session, refused, faults>>
    BY <1>3 DEF BeginCheckout, Elsewhere
  <2> HIDE DEF new
  <2>3. /\ new \in [pc : {"idle", "customer", "create"}, key : Keys \cup {None}, customer : BOOLEAN]
        /\ new.pc = "create" /\ new.key = k /\ ~new.customer
    BY <1>2 DEF new
  <2> QED BY <2>1, <2>2, <2>3, RequestGoesOn DEF Inv, TypeOK
<1>4. CASE BeginSubscription(r, k)
  <2> DEFINE new == [NoRequest EXCEPT !.pc = "customer", !.key = k]
  <2>1. request' = [request EXCEPT ![r] = new]
    BY <1>4 DEF BeginSubscription
  <2>2. Elsewhere /\ UNCHANGED <<session, refused, faults>> /\ k \in Recurring
    BY <1>4 DEF BeginSubscription, Elsewhere
  <2> HIDE DEF new
  <2>3. /\ new \in [pc : {"idle", "customer", "create"}, key : Keys \cup {None}, customer : BOOLEAN]
        /\ new.pc = "customer" /\ new.key = k /\ ~new.customer
    BY <1>2 DEF new
  <2> QED BY <2>1, <2>2, <2>3, RequestGoesOn DEF Inv, TypeOK
<1> QED BY <1>3, <1>4

\* CreateSubscription reads the customer: one it finds is on record.
LEMMA ReadCustomerStep == ASSUME Inv, NEW r \in Requests, ReadCustomer(r) PROVE Inv'
<1> DEFINE new == [request[r] EXCEPT !.pc = "create", !.customer = CustomerKnown]
<1>1. request[r] \in [pc : {"idle", "customer", "create"}, key : Keys \cup {None}, customer : BOOLEAN]
  BY DEF Inv, TypeOK
<1>2. CustomerKnown \in BOOLEAN
  BY DEF CustomerKnown
<1>3. request[r].key \in Recurring
  BY DEF Inv, RequestsExplained, ReadCustomer
<1>4. /\ new \in [pc : {"idle", "customer", "create"}, key : Keys \cup {None}, customer : BOOLEAN]
      /\ new.pc = "create" /\ new.key = request[r].key
  BY <1>1, <1>2
<1>5. new.customer => CustomerKnown
  BY <1>1, <1>2
<1>6. request' = [request EXCEPT ![r] = new]
  BY DEF ReadCustomer, Inv, TypeOK
<1>7. Elsewhere /\ UNCHANGED <<session, refused, faults>>
  BY DEF ReadCustomer, Elsewhere
<1> HIDE DEF new
<1> QED BY <1>3, <1>4, <1>5, <1>6, <1>7, RequestGoesOn DEF Inv, TypeOK

LEMMA AbandonStep == ASSUME Inv, NEW r \in Requests, Abandon(r) PROVE Inv'
<1>1. NoRequest \in [pc : {"idle", "customer", "create"}, key : Keys \cup {None}, customer : BOOLEAN]
      /\ NoRequest.pc = "idle"
  BY DEF NoRequest
<1>2. Elsewhere /\ UNCHANGED <<session, refused>> /\ faults' \in 0..MaxFaults
  BY SubscriptionBoundsAssumption DEF Abandon, Elsewhere, Fault, Inv, TypeOK
<1> QED BY <1>1, <1>2, RequestGoesOn DEF Abandon

\* V1CheckoutSessions.Create: the first call with a key makes its session; a
\* later one gets it, or is refused for a trial or for a customer that has become
\* known.
LEMMA CreateStep == ASSUME Inv, NEW r \in Requests, Create(r) PROVE Inv'
<1> DEFINE k == request[r].key
<1>1. /\ k \in Keys
      /\ request[r] \in [pc : {"idle", "customer", "create"}, key : Keys \cup {None}, customer : BOOLEAN]
      /\ request[r].customer => k \in Recurring /\ CustomerKnown
  BY DEF Inv, TypeOK, RequestsExplained, Create
<1>2. WithTrial(r) \in BOOLEAN /\ (WithTrial(r) => trialDays /\ k \in Recurring)
  BY DEF WithTrial, Inv, TypeOK
<1>3. request' = [request EXCEPT ![r] = NoRequest] /\ Elsewhere /\ UNCHANGED faults
  BY DEF Create, Elsewhere
<1>4. CustomerKnown' <=> CustomerKnown
  BY <1>3 DEF Elsewhere, stored, CustomerKnown, Stored
<1>5. NoRequest \in [pc : {"idle", "customer", "create"}, key : Keys \cup {None}, customer : BOOLEAN]
      /\ NoRequest.pc = "idle"
  BY DEF NoRequest
<1>6. CASE ~session[k].made /\ Made(r, k) /\ UNCHANGED refused
  <2> DEFINE new == [made |-> TRUE, customer |-> request[r].customer, trial |-> WithTrial(r)]
  <2>1. session' = [session EXCEPT ![k] = new]
    BY <1>6 DEF Made
  <2>2. new \in [made : BOOLEAN, customer : BOOLEAN, trial : BOOLEAN]
        /\ new.customer = request[r].customer
    BY <1>1, <1>2
  <2> HIDE DEF new
  <2>3. session' \in [Keys -> [made : BOOLEAN, customer : BOOLEAN, trial : BOOLEAN]]
        /\ \A j \in Keys : session'[j] = IF j = k THEN new ELSE session[j]
    BY <1>1, <2>1, <2>2 DEF Inv, TypeOK
  <2> HIDE DEF k
  <2>4. SessionsExplained'
    BY <1>1, <1>4, <2>2, <2>3 DEF Inv, SessionsExplained
  <2>5. RetryNotRefused'
    BY <1>3, <1>4, <1>6 DEF Inv, RetryNotRefused, Elsewhere
  <2>6. \A s \in Requests : request'[s] = IF s = r THEN NoRequest ELSE request[s]
    BY <1>3 DEF Inv, TypeOK
  <2>7. RequestsExplained'
    BY <1>4, <1>5, <2>6 DEF Inv, RequestsExplained
  <2>8. request' \in [Requests -> [pc : {"idle", "customer", "create"}, key : Keys \cup {None},
                                   customer : BOOLEAN]]
    BY <1>3, <1>5 DEF Inv, TypeOK
  <2> QED BY <1>3, <1>6, <2>3, <2>4, <2>5, <2>7, <2>8, RequestStep DEF Inv, TypeOK
<1>7. CASE UNCHANGED <<session, refused>>
  BY <1>3, <1>5, <1>7, RequestGoesOn DEF Inv, TypeOK
<1>8. CASE /\ session[k].made
           /\ request[r].customer # session[k].customer \/ WithTrial(r)
           /\ refused' = refused \cup {k}
           /\ UNCHANGED session
  <2>1. session[k].customer => k \in Recurring /\ CustomerKnown
    BY <1>1 DEF Inv, SessionsExplained
  <2>2. session[k].customer \in BOOLEAN
    BY <1>1 DEF Inv, TypeOK
  <2>3. k \in Recurring /\ (trialDays \/ CustomerKnown)
    <3>1. CASE WithTrial(r)
      BY <1>2, <3>1
    <3>2. CASE request[r].customer \/ session[k].customer
      BY <1>1, <2>1, <3>2
    <3>3. request[r].customer # session[k].customer => request[r].customer \/ session[k].customer
      BY <1>1, <2>2
    <3> QED BY <1>8, <3>1, <3>2, <3>3
  <2> HIDE DEF k
  <2>4. RetryNotRefused'
    BY <1>3, <1>4, <1>8, <2>3 DEF Inv, RetryNotRefused, Elsewhere
  <2>5. SessionsExplained'
    BY <1>4, <1>8 DEF Inv, SessionsExplained
  <2>6. \A s \in Requests : request'[s] = IF s = r THEN NoRequest ELSE request[s]
    BY <1>3 DEF Inv, TypeOK
  <2>7. RequestsExplained'
    BY <1>4, <1>5, <2>6 DEF Inv, RequestsExplained
  <2>8. request' \in [Requests -> [pc : {"idle", "customer", "create"}, key : Keys \cup {None},
                                   customer : BOOLEAN]]
    BY <1>3, <1>5 DEF Inv, TypeOK
  <2> QED BY <1>1, <1>3, <1>8, <2>4, <2>5, <2>7, <2>8, RequestStep DEF Inv, TypeOK
<1> QED BY <1>6, <1>7, <1>8 DEF Create

-----------------------------------------------------------------------------
(* Stripe.                                                                  *)

LEMMA CancelAtPeriodEndStep ==
  ASSUME Inv, NEW k \in Recurring, sub' = [sub EXCEPT ![k].ending = TRUE],
         UNCHANGED <<trialDays, buying, emitted, done, task, stored, faults>>
  PROVE  Inv'
<1>1. sub[k] \in Sub
  BY DEF Inv, TypeOK, Sub
<1>2. \A j \in Recurring : sub'[j] \in Sub /\ sub'[j].at = sub[j].at /\ sub'[j].due = sub[j].due
  BY <1>1 DEF Inv, TypeOK, Sub
<1>3. sub' \in [Recurring -> Sub]
  BY <1>2 DEF Inv, TypeOK
<1>4. TypeOK'
  BY <1>3 DEF Inv, TypeOK, buying, stored, Sub
<1>5. PeriodsCounted'
  BY <1>2 DEF Inv, PeriodsCounted
<1> QED
  BY <1>4, <1>5 DEF Inv, RetryNotRefused, RequestsExplained, SessionsExplained,
                    ProcessedIsRecorded, HandlersRecorded, Paid, Stored, CustomerKnown, buying, stored

\* A change of a subscription at Stripe to a period it has, in a version that is
\* not before the period; its events speak of that period.
LEMMA ChangeStep ==
  ASSUME Inv, NEW k \in Recurring, NEW new \in Sub,
         NEW types \in SUBSET {"checkout", "paid", "failed", "subscription"}, Becomes(k, new, types),
         new.at.period \in Periods, new.at.period <= new.at.n, new.at.status # "none"
  PROVE  Inv'
<1> DEFINE events == {[type |-> t, key |-> k, at |-> new.at] : t \in types}
<1>1. sub' = [sub EXCEPT ![k] = new] /\ emitted' = emitted \cup events /\ new.at.n <= MaxChanges
      /\ UNCHANGED <<trialDays, buying, done, task, stored, faults>>
  BY DEF Becomes
<1>2. new.at \in Snapshot
  BY DEF Sub
<1>3. \A e \in events : e \in Event /\ e.at.period \in Periods
  BY <1>2 DEF Event
<1> HIDE DEF events
<1>4. sub' \in [Recurring -> Sub] /\ \A j \in Recurring : sub'[j] = IF j = k THEN new ELSE sub[j]
  BY <1>1 DEF Inv, TypeOK, Sub
<1>5. task' \in [Handlers -> [pc : {"idle", "payment", "retrieve", "write"},
                              key : Recurring \cup {None}, event : emitted' \cup {None},
                              at : Snapshot]]
  BY <1>1 DEF Inv, TypeOK
<1>6. TypeOK'
  BY <1>1, <1>3, <1>4, <1>5 DEF Inv, TypeOK, buying, stored, Sub
<1>7. PeriodsCounted'
  BY <1>1, <1>3, <1>4 DEF Inv, PeriodsCounted
<1>8. RetryNotRefused' /\ RequestsExplained' /\ SessionsExplained'
  BY <1>1 DEF Inv, RetryNotRefused, RequestsExplained, SessionsExplained, Stored,
              CustomerKnown, buying, stored
<1>9. ProcessedIsRecorded' /\ HandlersRecorded'
  BY <1>1 DEF Inv, ProcessedIsRecorded, HandlersRecorded, Paid, Stored, stored
<1> QED BY <1>6, <1>7, <1>8, <1>9 DEF Inv

\* A change of the status, in a period that has begun.
LEMMA ChangesStep ==
  ASSUME Inv, NEW k \in Recurring, NEW status \in StripeStatuses \ {"none"}, NEW period \in Periods,
         period <= sub[k].at.n + 1,
         NEW types \in SUBSET {"checkout", "paid", "failed", "subscription"},
         Changes(k, status, period, types)
  PROVE  Inv'
<1> DEFINE new == [sub[k] EXCEPT !.at = Version(k, status, period), !.over = period - 1, !.due = FALSE]
<1>1. sub[k] \in Sub /\ sub[k].at.n \in Nat
  BY DEF Inv, TypeOK, Sub, Snapshot
<1>2. Version(k, status, period) \in Snapshot
  BY <1>1, SubscriptionBoundsAssumption DEF Version, Snapshot
<1>3. period - 1 \in 0..MaxChanges
  BY SubscriptionBoundsAssumption
<1>4. new \in Sub /\ new.at = Version(k, status, period)
  BY <1>1, <1>2, <1>3 DEF Sub
<1>5. Becomes(k, new, types)
  BY DEF Changes
<1>6. Version(k, status, period).period = period /\ Version(k, status, period).status = status
      /\ Version(k, status, period).n = sub[k].at.n + 1
  BY DEF Version
<1> HIDE DEF new
<1> QED BY <1>4, <1>5, <1>6, ChangeStep

LEMMA StripeStep ==
  ASSUME Inv, NEW k \in Recurring, Stripe(k) \/ CancelSubscription(k)
  PROVE  Inv'
<1>1. /\ sub[k] \in Sub /\ sub[k].at \in Snapshot /\ sub[k].at.n \in Nat
      /\ sub[k].at.period \in 0..MaxChanges
      /\ sub[k].at.period <= sub[k].at.n /\ sub[k].at.n <= MaxChanges
      /\ sub[k].at.status # "none" => sub[k].at.period \in Periods
      /\ sub[k].due => sub[k].at.status # "none"
  BY DEF Inv, TypeOK, PeriodsCounted, Sub, Snapshot
<1>2. CASE Complete(k)
  <2>1. PICK status \in {"trialing", "active"} : Changes(k, status, 1, {"checkout", "paid"})
    BY <1>2 DEF Complete
  <2>2. 1 \in Periods /\ 1 <= sub[k].at.n + 1
    BY <1>1, SubscriptionBoundsAssumption
  <2> QED BY <2>1, <2>2, ChangesStep
<1>3. CASE Renew(k)
  <2> DEFINE at == Version(k, "active", sub[k].at.period + 1)
             new == [sub[k] EXCEPT !.at = at, !.over = sub[k].at.period, !.due = TRUE]
  <2>1. Becomes(k, new, {"subscription"})
    <3>1. [sub[k] EXCEPT !.at = Version(k, "active", @.period + 1), !.over = sub[k].at.period,
                         !.due = TRUE] = new
      BY <1>1 DEF Sub
    <3> QED BY <1>3, <3>1 DEF Renew
  <2>2. at.n = sub[k].at.n + 1 /\ at.period = sub[k].at.period + 1 /\ at.status = "active"
    BY DEF Version
  <2>3. new.at = at
    BY <1>1 DEF Sub
  <2>4. at.n <= MaxChanges
    BY <2>1, <2>3 DEF Becomes
  <2>5. at.period \in Periods /\ at.period <= at.n
    BY <1>1, <2>2, <2>4, SubscriptionBoundsAssumption
  <2>6. at \in Snapshot
    BY <1>1, <2>2, <2>5, SubscriptionBoundsAssumption DEF Snapshot, Version
  <2> HIDE DEF at
  <2>7. new \in Sub
    BY <1>1, <2>6 DEF Sub
  <2> HIDE DEF new
  <2> QED BY <2>1, <2>2, <2>3, <2>5, <2>7, ChangeStep
<1>4. CASE InvoicePaid(k)
  <2>1. sub[k].at.period \in Periods /\ sub[k].at.period <= sub[k].at.n + 1
    BY <1>1, <1>4 DEF InvoicePaid
  <2> QED BY <1>4, <2>1, ChangesStep DEF InvoicePaid
<1>5. CASE InvoiceFails(k)
  <2>1. sub[k].at.period \in Periods /\ sub[k].at.period <= sub[k].at.n + 1
    BY <1>1, <1>5 DEF InvoiceFails
  <2> QED BY <1>5, <2>1, ChangesStep DEF InvoiceFails
<1>6. CASE EndAtPeriodEnd(k)
  <2> DEFINE at == Version(k, "canceled", sub[k].at.period)
             new == [sub[k] EXCEPT !.at = at, !.over = sub[k].at.period]
  <2>1. Becomes(k, new, {"subscription"})
    <3>1. [sub[k] EXCEPT !.at = Version(k, "canceled", @.period), !.over = sub[k].at.period] = new
      BY <1>1 DEF Sub
    <3> QED BY <1>6, <3>1 DEF EndAtPeriodEnd
  <2>2. at.n = sub[k].at.n + 1 /\ at.period = sub[k].at.period /\ at.status = "canceled"
    BY DEF Version
  <2>3. at.period \in Periods /\ at.period <= at.n
    BY <1>1, <1>6, <2>2 DEF EndAtPeriodEnd
  <2>4. at \in Snapshot
    BY <1>1, <2>2, <2>3, SubscriptionBoundsAssumption DEF Snapshot, Version
  <2>5. new.at = at
    BY <1>1 DEF Sub
  <2> HIDE DEF at
  <2>6. new \in Sub
    BY <1>1, <2>4 DEF Sub
  <2> HIDE DEF new
  <2> QED BY <2>1, <2>2, <2>3, <2>5, <2>6, ChangeStep
<1>7. CASE CancelSubscription(k)
  <2>1. sub[k].at.period \in Periods /\ sub[k].at.period <= sub[k].at.n + 1
    BY <1>1, <1>7 DEF CancelSubscription
  <2>2. CASE Changes(k, "canceled", sub[k].at.period, {"subscription"})
    BY <2>1, <2>2, ChangesStep
  <2>3. CASE ~Changes(k, "canceled", sub[k].at.period, {"subscription"})
    BY <1>7, <2>3, CancelAtPeriodEndStep DEF CancelSubscription
  <2> QED BY <2>2, <2>3
<1> QED BY <1>2, <1>3, <1>4, <1>5, <1>6, <1>7 DEF Stripe

-----------------------------------------------------------------------------
(* Handlers and reconciliation.                                             *)

Task == [pc : {"idle", "payment", "retrieve", "write"}, key : Recurring \cup {None},
          event : emitted \cup {None}, at : Snapshot]
OtherThanHandlers == UNCHANGED <<trialDays, buying, sub, emitted>>

\* A handler begins, goes on or ends; rows and payments are at least kept, and an
\* event that becomes SUCCEEDED is on record.
LEMMA HandlerStep ==
  ASSUME Inv, NEW h \in Handlers, NEW new \in Task, OtherThanHandlers, faults' \in 0..MaxFaults,
         task' = [task EXCEPT ![h] = new],
         row' \in [Recurring -> [status : SubscriptionStatuses \cup {"ABSENT"}, period : 0..MaxChanges]],
         payment' \in [Recurring -> [Periods -> PaymentStatuses \cup {"ABSENT"}]],
         \A k \in Recurring : Stored(k) => Stored(k)',
         \A e \in emitted : Paid(e) => Paid(e)',
         done' \subseteq emitted,
         \A e \in done' : e \in done \/ (Stored(e.key)' /\ Paid(e)'),
         new.pc # "idle" =>
           /\ new.key \in Recurring
           /\ new.pc = "payment" => new.event \in emitted
           /\ new.event # None => new.key = new.event.key /\ (new.pc # "payment" => Paid(new.event)')
  PROVE  Inv'
<1>1. task' \in [Handlers -> Task] /\ \A g \in Handlers : task'[g] = IF g = h THEN new ELSE task[g]
  BY DEF Inv, TypeOK, Task
<1>2. TypeOK'
  BY <1>1 DEF Inv, TypeOK, OtherThanHandlers, buying, Task
<1>3. CustomerKnown => CustomerKnown'
  BY DEF CustomerKnown
<1>4. RetryNotRefused' /\ RequestsExplained' /\ SessionsExplained'
  BY <1>3 DEF Inv, RetryNotRefused, RequestsExplained, SessionsExplained,
              OtherThanHandlers, buying
<1>5. PeriodsCounted'
  BY DEF Inv, PeriodsCounted, OtherThanHandlers
<1>6. \A e \in emitted : e.key \in Recurring
  BY DEF Inv, TypeOK, Event
<1>7. \A e \in done : Stored(e.key) /\ Paid(e) /\ e \in emitted
  BY DEF Inv, TypeOK, ProcessedIsRecorded, Paid
<1>8. \A e \in done' : Stored(e.key)' /\ Paid(e)'
  BY <1>6, <1>7
<1>9. ProcessedIsRecorded'
  BY <1>8 DEF ProcessedIsRecorded, Paid
<1>10. \A g \in Handlers : task[g].event # None => task[g].event \in emitted
  BY DEF Inv, TypeOK
<1>11. HandlersRecorded'
  BY <1>1, <1>10 DEF Inv, HandlersRecorded, OtherThanHandlers
<1> QED BY <1>2, <1>4, <1>5, <1>9, <1>11 DEF Inv

\* A step that writes nothing.
LEMMA HandlerReads ==
  ASSUME Inv, NEW h \in Handlers, NEW new \in Task, OtherThanHandlers, faults' \in 0..MaxFaults,
         UNCHANGED <<done, stored>>,
         task' = [task EXCEPT ![h] = new],
         new.pc # "idle" =>
           /\ new.key \in Recurring
           /\ new.pc = "payment" => new.event \in emitted
           /\ new.event # None => new.key = new.event.key /\ (new.pc # "payment" => Paid(new.event))
  PROVE  Inv'
<1>1. UNCHANGED <<row, payment>>
  BY DEF stored
<1>2. \A e : Paid(e)' <=> Paid(e)
  BY <1>1 DEF Paid
<1>3. \A k \in Recurring : Stored(k) => Stored(k)'
  BY <1>1 DEF Stored
<1>4. /\ row' \in [Recurring -> [status : SubscriptionStatuses \cup {"ABSENT"}, period : 0..MaxChanges]]
      /\ payment' \in [Recurring -> [Periods -> PaymentStatuses \cup {"ABSENT"}]]
      /\ done' \subseteq emitted
  BY <1>1 DEF Inv, TypeOK
<1> QED BY <1>2, <1>3, <1>4, HandlerStep

LEMMA NoTaskTyped == NoTask \in Task /\ NoTask.pc = "idle" /\ NoTask.event = None
BY SubscriptionBoundsAssumption DEF NoTask, Task, NoSnapshot, Snapshot

LEMMA ClaimStep == ASSUME Inv, NEW h \in Handlers, NEW e \in emitted, Claim(h, e) PROVE Inv'
<1> DEFINE new == [pc |-> IF e.type = "subscription" THEN "write" ELSE "payment",
                   key |-> e.key, event |-> e, at |-> e.at]
<1>1. e \in Event /\ e.key \in Recurring /\ e.at \in Snapshot
  BY DEF Inv, TypeOK, Event
<1>2. new \in Task /\ new.key = e.key /\ new.event = e
      /\ (new.pc # "payment" => e.type = "subscription")
  BY <1>1 DEF Task
<1>3. task' = [task EXCEPT ![h] = new] /\ OtherThanHandlers /\ UNCHANGED <<done, stored, faults>>
  BY DEF Claim, OtherThanHandlers
<1> HIDE DEF new
<1> QED BY <1>1, <1>2, <1>3, HandlerReads DEF Inv, TypeOK, Paid

LEMMA ReconcileStep == ASSUME Inv, NEW h \in Handlers, NEW k \in Recurring, Reconcile(h, k) PROVE Inv'
<1> DEFINE new == [NoTask EXCEPT !.pc = "retrieve", !.key = k]
<1>1. new \in Task /\ new.pc = "retrieve" /\ new.key = k /\ new.event = None
  BY NoTaskTyped DEF Task
<1>2. task' = [task EXCEPT ![h] = new] /\ OtherThanHandlers /\ UNCHANGED <<done, stored, faults>>
  BY DEF Reconcile, OtherThanHandlers
<1> HIDE DEF new
<1> QED BY <1>1, <1>2, HandlerReads DEF Inv, TypeOK

LEMMA FailStep == ASSUME Inv, NEW h \in Handlers, Fail(h) PROVE Inv'
<1>1. task' = [task EXCEPT ![h] = NoTask] /\ OtherThanHandlers /\ UNCHANGED <<done, stored>>
      /\ faults' \in 0..MaxFaults
  BY SubscriptionBoundsAssumption DEF Fail, OtherThanHandlers, Fault, Inv, TypeOK
<1> QED BY <1>1, NoTaskTyped, HandlerReads

LEMMA RetrieveStep == ASSUME Inv, NEW h \in Handlers, Retrieve(h) PROVE Inv'
<1> DEFINE new == [task[h] EXCEPT !.pc = "write", !.at = sub[task[h].key].at]
<1>1. task[h] \in Task /\ task[h].key \in Recurring
      /\ (task[h].event # None => task[h].key = task[h].event.key /\ Paid(task[h].event))
  BY DEF Retrieve, Inv, TypeOK, HandlersRecorded, Task
<1>2. sub[task[h].key].at \in Snapshot
  BY <1>1 DEF Inv, TypeOK
<1>3. new \in Task /\ new.pc = "write" /\ new.key = task[h].key /\ new.event = task[h].event
  BY <1>1, <1>2 DEF Task
<1>4. task' = [task EXCEPT ![h] = new] /\ OtherThanHandlers /\ UNCHANGED <<done, stored, faults>>
  BY DEF Retrieve, OtherThanHandlers, Inv, TypeOK
<1> HIDE DEF new
<1> QED BY <1>1, <1>3, <1>4, HandlerReads DEF Inv, TypeOK

LEMMA UpsertPaymentStep == ASSUME Inv, NEW h \in Handlers, UpsertPayment(h) PROVE Inv'
<1>0. PICK e : e = task[h].event
  OBVIOUS
<1> DEFINE p == e.at.period
           merged == MergedStatus(payment[e.key][p], IF e.type = "failed" THEN "FAILED" ELSE "SUCCEEDED")
           new == [task[h] EXCEPT !.pc = "retrieve"]
<1>1. task[h] \in Task /\ e \in emitted /\ task[h].key \in Recurring
      /\ (e # None => task[h].key = e.key)
  BY <1>0 DEF UpsertPayment, Inv, TypeOK, HandlersRecorded, Task
<1>2. e \in Event /\ e.key \in Recurring /\ p \in Periods
  BY <1>1 DEF Inv, TypeOK, PeriodsCounted, Event
<1>3. payment \in [Recurring -> [Periods -> PaymentStatuses \cup {"ABSENT"}]]
  BY DEF Inv, TypeOK
<1>4. payment[e.key][p] \in PaymentStatuses \cup {"ABSENT"}
  BY <1>2, <1>3
<1>5. merged \in PaymentStatuses
  BY <1>4, MergedIsPayment
<1>6. new \in Task /\ new.pc = "retrieve" /\ new.key = task[h].key /\ new.event = e
  BY <1>0, <1>1 DEF Task
<1>7. /\ payment' = [payment EXCEPT ![e.key][p] = merged]
      /\ task' = [task EXCEPT ![h] = new]
      /\ OtherThanHandlers /\ UNCHANGED <<done, row, faults>>
  BY <1>0 DEF UpsertPayment, OtherThanHandlers, Inv, TypeOK
<1> HIDE DEF merged, new
<1>8. /\ payment' \in [Recurring -> [Periods -> PaymentStatuses \cup {"ABSENT"}]]
      /\ \A k \in Recurring, q \in Periods :
           payment'[k][q] = IF k = e.key /\ q = p THEN merged ELSE payment[k][q]
  BY <1>2, <1>3, <1>5, <1>7
<1>9. \A f \in emitted : f.key \in Recurring /\ f.at.period \in Periods
  BY DEF Inv, TypeOK, PeriodsCounted, Event
<1>10. \A f \in emitted : Paid(f) => Paid(f)'
  BY <1>5, <1>8, <1>9 DEF Paid
<1>11. Paid(e)'
  BY <1>2, <1>5, <1>8 DEF Paid
<1>12. \A k \in Recurring : Stored(k) => Stored(k)'
  BY <1>7 DEF Stored
<1> QED
  BY <1>1, <1>6, <1>7, <1>8, <1>10, <1>11, <1>12, HandlerStep DEF Inv, TypeOK

LEMMA UpsertSubscriptionStep == ASSUME Inv, NEW h \in Handlers, UpsertSubscription(h) PROVE Inv'
<1>0. PICK e, k : e = task[h].event /\ k = task[h].key
  OBVIOUS
<1> DEFINE written == [status |-> mapStripePaymentSubscriptionStatus(task[h].at.status),
                       period |-> task[h].at.period]
<1>1. task[h] \in Task /\ k \in Recurring
      /\ (e # None => e \in emitted /\ k = e.key /\ Paid(e))
  BY <1>0 DEF UpsertSubscription, Inv, TypeOK, HandlersRecorded, Task
<1>2. task[h].at.period \in 0..MaxChanges
  BY <1>1 DEF Task, Snapshot
<1>3. written \in [status : SubscriptionStatuses \cup {"ABSENT"}, period : 0..MaxChanges]
      /\ written.status # "ABSENT"
  BY <1>2, MappedIsStatus
<1>4. /\ row' = [row EXCEPT ![k] = written] /\ task' = [task EXCEPT ![h] = NoTask]
      /\ OtherThanHandlers /\ UNCHANGED payment
      /\ done' = done \/ (done' = done \cup {e} /\ e # None)
      /\ faults' = faults \/ Fault
  BY <1>0 DEF UpsertSubscription, OtherThanHandlers
<1> HIDE DEF written
<1>5. /\ row' \in [Recurring -> [status : SubscriptionStatuses \cup {"ABSENT"}, period : 0..MaxChanges]]
      /\ \A j \in Recurring : row'[j] = IF j = k THEN written ELSE row[j]
  BY <1>1, <1>3, <1>4 DEF Inv, TypeOK
<1>6. \A j \in Recurring : Stored(j) => Stored(j)'
  BY <1>3, <1>5 DEF Stored
<1>7. Stored(k)'
  BY <1>1, <1>3, <1>5 DEF Stored
<1>8. \A f : Paid(f)' <=> Paid(f)
  BY <1>4 DEF Paid
<1>9. done' \subseteq emitted /\ \A f \in done' : f \in done \/ (Stored(f.key)' /\ Paid(f)')
  BY <1>1, <1>4, <1>7, <1>8 DEF Inv, TypeOK
<1>10. faults' \in 0..MaxFaults
  BY <1>4, SubscriptionBoundsAssumption DEF Fault, Inv, TypeOK
<1>11. payment' \in [Recurring -> [Periods -> PaymentStatuses \cup {"ABSENT"}]]
  BY <1>4 DEF Inv, TypeOK
<1> QED
  BY <1>4, <1>5, <1>6, <1>8, <1>9, <1>10, <1>11, NoTaskTyped, HandlerStep

LEMMA NextInv == ASSUME Inv, [Next]_vars PROVE Inv'
<1>1. CASE UNCHANGED vars
  <2>1. TypeOK'
    BY <1>1 DEF vars, buying, stored, Inv, TypeOK
  <2>2. RetryNotRefused' /\ RequestsExplained' /\ SessionsExplained'
    BY <1>1 DEF vars, buying, stored, Inv, RetryNotRefused, RequestsExplained,
                SessionsExplained, CustomerKnown, Stored
  <2>3. PeriodsCounted' /\ ProcessedIsRecorded' /\ HandlersRecorded'
    BY <1>1 DEF vars, stored, Inv, PeriodsCounted, ProcessedIsRecorded, HandlersRecorded, Paid, Stored
  <2> QED BY <2>1, <2>2, <2>3 DEF Inv
<1>2. CASE Next
  <2>1. ASSUME NEW r \in Requests, \/ \E k \in Keys : BeginCheckout(r, k) \/ BeginSubscription(r, k)
                                   \/ Ask(r) \/ Abandon(r)
        PROVE  Inv'
    BY <2>1, BeginStep, ReadCustomerStep, CreateStep, AbandonStep DEF Ask
  <2>2. ASSUME NEW h \in Handlers, \/ \E e \in emitted : Claim(h, e)
                                   \/ \E k \in Recurring : Reconcile(h, k)
                                   \/ Work(h) \/ Fail(h)
        PROVE  Inv'
    BY <2>2, ClaimStep, ReconcileStep, UpsertPaymentStep, RetrieveStep, UpsertSubscriptionStep,
       FailStep DEF Work
  <2>3. ASSUME NEW k \in Recurring, Stripe(k) \/ CancelSubscription(k) PROVE Inv'
    BY <2>3, StripeStep
  <2> QED BY <1>2, <2>1, <2>2, <2>3 DEF Next
<1> QED BY <1>1, <1>2

-----------------------------------------------------------------------------
LEMMA Invariant == Spec => []Inv
<1>1. Init => Inv
  BY InitInv
<1>2. Inv /\ [Next]_vars => Inv'
  BY NextInv
<1> QED BY <1>1, <1>2, PTL DEF Spec

\* Every variable keeps its type.
THEOREM TypeCorrect == Spec => []TypeOK
<1>1. Inv => TypeOK
  BY DEF Inv
<1> QED BY <1>1, Invariant, PTL

\* CreateCheckout, CreateSubscription: Stripe refuses a repeated request only for
\* a trial, or for a customer that has become known.
THEOREM RetryNotRefusedHolds == Spec => []RetryNotRefused
<1>1. Inv => RetryNotRefused
  BY DEF Inv
<1> QED BY <1>1, Invariant, PTL

\* handleStripeInvoice, handleStripeCheckout: an event that is SUCCEEDED has left
\* its payment and its subscription on record.
THEOREM ProcessedIsRecordedHolds == Spec => []ProcessedIsRecorded
<1>1. Inv => ProcessedIsRecorded
  BY DEF Inv
<1> QED BY <1>1, Invariant, PTL

-----------------------------------------------------------------------------
(* What is on record is what Stripe has said.                               *)

Said(k, at) == \E e \in emitted : e.key = k /\ e.at = at

\* The row of k is what was made of a snapshot that an event brought.
RowSaid(k) == \E e \in emitted : /\ e.key = k /\ row[k].period = e.at.period
                                 /\ row[k].status = mapStripePaymentSubscriptionStatus(e.at.status)

\* A subscription that Stripe has was bought, and what it is now has been said;
\* so has what a handler is about to write, and the payment it is about to record.
StripeSaid == \A k \in Recurring :
  sub[k].at.status # "none" => session[k].made /\ Said(k, sub[k].at)
EventsOfSubs == \A e \in emitted : sub[e.key].at.status # "none"
HandlerSaid(t) == t.pc # "idle" =>
  /\ sub[t.key].at.status # "none"
  /\ t.pc = "write" => Said(t.key, t.at)
  /\ t.pc = "payment" => t.event.type # "subscription"
RowsSaid == \A k \in Recurring : Stored(k) => sub[k].at.status # "none" /\ RowSaid(k)

Source ==
  /\ StripeSaid /\ EventsOfSubs
  /\ \A h \in Handlers : HandlerSaid(task[h])
  /\ RowsSaid /\ PaymentsAreInvoices

LEMMA InitSource == Init => Source
BY DEF Init, Source, StripeSaid, EventsOfSubs, HandlerSaid, RowsSaid, PaymentsAreInvoices,
       NoSnapshot, NoTask, Stored

\* What requests do: Checkouts are only ever made.
LEMMA RequestKeepsSource ==
  ASSUME Inv, Source, Elsewhere,
         \A k \in Keys : session[k].made => session'[k].made
  PROVE  Source'
BY DEF Source, Elsewhere, stored, StripeSaid, EventsOfSubs, HandlerSaid, RowsSaid, RowSaid,
       PaymentsAreInvoices, Said, Stored

LEMMA RequestsKeepSource ==
  ASSUME Inv, Source, NEW r \in Requests,
         \/ \E k \in Keys : BeginCheckout(r, k) \/ BeginSubscription(r, k)
         \/ Ask(r) \/ Abandon(r)
  PROVE  Source'
<1>1. Elsewhere
  BY DEF BeginCheckout, BeginSubscription, Ask, ReadCustomer, Create, Made, Abandon, Elsewhere
<1>2. session' = session \/ \E k : ~session[k].made /\ Made(r, k)
  BY DEF BeginCheckout, BeginSubscription, Ask, ReadCustomer, Create, Abandon
<1>3. ASSUME NEW j \in Keys, session[j].made PROVE session'[j].made
  <2>1. CASE session' = session
    BY <1>3, <2>1
  <2>2. ASSUME NEW k, ~session[k].made, Made(r, k) PROVE session'[j].made
    <3>1. j # k
      BY <1>3, <2>2
    <3> QED BY <1>3, <2>2, <3>1 DEF Made, Inv, TypeOK
  <2> QED BY <1>2, <2>1, <2>2
<1> QED BY <1>1, <1>3, RequestKeepsSource

\* Stripe changes a subscription that was bought, and says so.
LEMMA ChangeKeepsSource ==
  ASSUME Inv, Source, NEW k \in Recurring, NEW new, NEW types, types # {},
         Becomes(k, new, types), new.at.status # "none", session[k].made
  PROVE  Source'
<1>1. PICK t : t \in types
  OBVIOUS
<1>2. PICK e : e = [type |-> t, key |-> k, at |-> new.at]
  OBVIOUS
<1>3. /\ e \in emitted' /\ e.key = k /\ e.at = new.at
      /\ emitted \subseteq emitted'
      /\ \A f \in emitted' : f \in emitted \/ f.key = k
      /\ UNCHANGED <<trialDays, buying, done, task, stored, faults>>
  BY <1>1, <1>2 DEF Becomes
<1>4. \A j \in Recurring : sub'[j] = IF j = k THEN new ELSE sub[j]
  BY DEF Becomes, Inv, TypeOK
<1>5. \A j \in Recurring : sub[j].at.status # "none" => sub'[j].at.status # "none"
  BY <1>4
<1>6. \A j, at : Said(j, at) => Said(j, at)'
  BY <1>3 DEF Said
<1>7. StripeSaid'
  <2>1. Said(k, new.at)'
    BY <1>3 DEF Said
  <2> QED BY <1>3, <1>4, <1>6, <2>1 DEF Source, StripeSaid, buying
<1>8. EventsOfSubs'
  <2>1. \A f \in emitted : f.key \in Recurring
    BY DEF Inv, TypeOK, Event
  <2> QED BY <1>3, <1>4, <1>5, <2>1 DEF Source, EventsOfSubs
<1>9. \A h \in Handlers : HandlerSaid(task[h])'
  <2>1. \A h \in Handlers : task[h].pc # "idle" => task[h].key \in Recurring
    BY DEF Inv, HandlersRecorded
  <2> QED BY <1>3, <1>5, <1>6, <2>1 DEF Source, HandlerSaid
<1>10. RowsSaid'
  BY <1>3, <1>5 DEF Source, RowsSaid, RowSaid, Stored, stored
<1>11. PaymentsAreInvoices'
  BY <1>3 DEF Source, PaymentsAreInvoices, stored
<1> QED BY <1>7, <1>8, <1>9, <1>10, <1>11 DEF Source

LEMMA StripeKeepsSource ==
  ASSUME Inv, Source, NEW k \in Recurring, Stripe(k) \/ CancelSubscription(k)
  PROVE  Source'
<1>1. sub[k] \in Sub
  BY DEF Inv, TypeOK, Sub
<1>2. session[k].made
  <2>1. sub[k].due => sub[k].at.status # "none"
    BY DEF Inv, PeriodsCounted
  <2> QED BY <2>1 DEF Source, StripeSaid, Stripe, CancelSubscription, Complete, Renew, InvoicePaid,
                      InvoiceFails, EndAtPeriodEnd
<1>3. ASSUME NEW status, status # "none", NEW period, NEW types, types # {},
             Changes(k, status, period, types)
      PROVE  Source'
  <2>1. PICK new : new = [sub[k] EXCEPT !.at = Version(k, status, period), !.over = period - 1,
                                        !.due = FALSE]
    OBVIOUS
  <2>2. new.at = Version(k, status, period)
    BY <1>1, <2>1 DEF Sub
  <2>3. new.at.status # "none"
    BY <1>3, <2>2 DEF Version
  <2>4. Becomes(k, new, types)
    BY <1>3, <2>1 DEF Changes
  <2> QED BY <1>2, <1>3, <2>3, <2>4, ChangeKeepsSource
<1>4. CASE Complete(k)
  BY <1>3, <1>4 DEF Complete
<1>5. CASE Renew(k)
  <2>1. PICK new : new = [sub[k] EXCEPT !.at = Version(k, "active", sub[k].at.period + 1),
                                        !.over = sub[k].at.period, !.due = TRUE]
    OBVIOUS
  <2>2. [sub[k] EXCEPT !.at = Version(k, "active", @.period + 1), !.over = sub[k].at.period,
                       !.due = TRUE] = new
    BY <1>1, <2>1 DEF Sub
  <2>3. Becomes(k, new, {"subscription"})
    BY <1>5, <2>2 DEF Renew
  <2>4. new.at.status = "active"
    BY <1>1, <2>1 DEF Sub, Version
  <2> QED BY <1>2, <2>3, <2>4, ChangeKeepsSource
<1>6. CASE InvoicePaid(k)
  BY <1>3, <1>6 DEF InvoicePaid
<1>7. CASE InvoiceFails(k)
  BY <1>3, <1>7 DEF InvoiceFails
<1>8. CASE EndAtPeriodEnd(k)
  <2>1. PICK new : new = [sub[k] EXCEPT !.at = Version(k, "canceled", sub[k].at.period),
                                        !.over = sub[k].at.period]
    OBVIOUS
  <2>2. [sub[k] EXCEPT !.at = Version(k, "canceled", @.period), !.over = sub[k].at.period] = new
    BY <1>1, <2>1 DEF Sub
  <2>3. Becomes(k, new, {"subscription"})
    BY <1>8, <2>2 DEF EndAtPeriodEnd
  <2>4. new.at.status = "canceled"
    BY <1>1, <2>1 DEF Sub, Version
  <2> QED BY <1>2, <2>3, <2>4, ChangeKeepsSource
<1>9. CASE CancelSubscription(k)
  <2>1. CASE Changes(k, "canceled", sub[k].at.period, {"subscription"})
    BY <1>3, <2>1
  <2>2. CASE /\ sub' = [sub EXCEPT ![k].ending = TRUE]
             /\ UNCHANGED <<trialDays, buying, emitted, done, task, stored, faults>>
    <3>1. \A j \in Recurring : sub'[j].at = sub[j].at
      BY <1>1, <2>2 DEF Inv, TypeOK, Sub
    <3>2. \A h \in Handlers : task[h].pc # "idle" => task[h].key \in Recurring
      BY DEF Inv, HandlersRecorded
    <3>3. \A e \in emitted : e.key \in Recurring
      BY DEF Inv, TypeOK, Event
    <3> QED BY <2>2, <3>1, <3>2, <3>3
            DEF Source, StripeSaid, EventsOfSubs, HandlerSaid, RowsSaid, RowSaid,
                PaymentsAreInvoices, Said, Stored, buying, stored
  <2> QED BY <1>9, <2>1, <2>2 DEF CancelSubscription
<1> QED BY <1>4, <1>5, <1>6, <1>7, <1>8, <1>9 DEF Stripe

\* A handler goes on to new; what it writes has been said.
LEMMA HandlerKeepsSource ==
  ASSUME Inv, Source, NEW h \in Handlers, NEW new, OtherThanHandlers,
         task' = [task EXCEPT ![h] = new], HandlerSaid(new), RowsSaid', PaymentsAreInvoices'
  PROVE  Source'
<1>1. \A g \in Handlers : task'[g] = IF g = h THEN new ELSE task[g]
  BY DEF Inv, TypeOK
<1>2. \A g \in Handlers : HandlerSaid(task'[g])
  BY <1>1 DEF Source
<1>3. \A g \in Handlers : HandlerSaid(task[g])'
  BY <1>2 DEF HandlerSaid, OtherThanHandlers, Said
<1>4. StripeSaid' /\ EventsOfSubs'
  BY DEF Source, StripeSaid, EventsOfSubs, OtherThanHandlers, buying, Said
<1> QED BY <1>3, <1>4 DEF Source

LEMMA NothingWritten ==
  ASSUME Source, OtherThanHandlers, UNCHANGED <<row, payment>>
  PROVE  RowsSaid' /\ PaymentsAreInvoices'
BY DEF Source, RowsSaid, RowSaid, PaymentsAreInvoices, OtherThanHandlers, Stored

LEMMA ReadersKeepSource ==
  ASSUME Inv, Source, NEW h \in Handlers,
         \/ \E e \in emitted : Claim(h, e)
         \/ \E k \in Recurring : Reconcile(h, k)
         \/ Retrieve(h) \/ Fail(h)
  PROVE  Source'
<1>1. OtherThanHandlers /\ UNCHANGED <<row, payment>>
  BY DEF Claim, Reconcile, Retrieve, Fail, OtherThanHandlers, stored
<1>2. RowsSaid' /\ PaymentsAreInvoices'
  BY <1>1, NothingWritten
<1>3. ASSUME NEW e \in emitted, Claim(h, e) PROVE Source'
  <2>1. PICK new : new = [pc |-> IF e.type = "subscription" THEN "write" ELSE "payment",
                          key |-> e.key, event |-> e, at |-> e.at]
    OBVIOUS
  <2>2. task' = [task EXCEPT ![h] = new]
    BY <1>3, <2>1 DEF Claim
  <2>3. Said(e.key, e.at) /\ sub[e.key].at.status # "none"
    BY DEF Said, Source, EventsOfSubs
  <2>4. HandlerSaid(new)
    BY <2>1, <2>3 DEF HandlerSaid
  <2> QED BY <1>1, <1>2, <2>2, <2>4, HandlerKeepsSource
<1>4. ASSUME NEW k \in Recurring, Reconcile(h, k) PROVE Source'
  <2>1. PICK new : new = [NoTask EXCEPT !.pc = "retrieve", !.key = k]
    OBVIOUS
  <2>2. task' = [task EXCEPT ![h] = new]
    BY <1>4, <2>1 DEF Reconcile
  <2>3. sub[k].at.status # "none"
    BY <1>4 DEF Reconcile, Reconciled, Source, RowsSaid
  <2>4. HandlerSaid(new)
    BY <2>1, <2>3 DEF HandlerSaid, NoTask
  <2> QED BY <1>1, <1>2, <2>2, <2>4, HandlerKeepsSource
<1>5. CASE Retrieve(h)
  <2>1. PICK new : new = [task[h] EXCEPT !.pc = "write", !.at = sub[task[h].key].at]
    OBVIOUS
  <2>2. task' = [task EXCEPT ![h] = new]
    BY <1>5, <2>1 DEF Retrieve, Inv, TypeOK
  <2>3. /\ task[h] \in Task /\ task[h].key \in Recurring /\ sub[task[h].key].at.status # "none"
    BY <1>5 DEF Retrieve, Inv, TypeOK, Task, HandlersRecorded, Source, HandlerSaid
  <2>4. new.pc = "write" /\ new.key = task[h].key /\ new.at = sub[task[h].key].at
    BY <2>1, <2>3 DEF Task
  <2>5. Said(task[h].key, sub[task[h].key].at)
    BY <2>3 DEF Source, StripeSaid
  <2>6. HandlerSaid(new)
    BY <2>3, <2>4, <2>5 DEF HandlerSaid
  <2> QED BY <1>1, <1>2, <2>2, <2>6, HandlerKeepsSource
<1>6. CASE Fail(h)
  <2>1. task' = [task EXCEPT ![h] = NoTask] /\ HandlerSaid(NoTask)
    BY <1>6, NoTaskTyped DEF Fail, HandlerSaid
  <2> QED BY <1>1, <1>2, <2>1, HandlerKeepsSource
<1> QED BY <1>3, <1>4, <1>5, <1>6

LEMMA UpsertPaymentKeepsSource ==
  ASSUME Inv, Source, NEW h \in Handlers, UpsertPayment(h)
  PROVE  Source'
<1>1. PICK e, new, status : /\ e = task[h].event /\ new = [task[h] EXCEPT !.pc = "retrieve"]
                            /\ status = IF e.type = "failed" THEN "FAILED" ELSE "SUCCEEDED"
  OBVIOUS
<1>2. /\ task[h] \in Task /\ task[h].pc = "payment" /\ e \in emitted /\ e \in Event
      /\ e.key \in Recurring /\ e.at.period \in Periods /\ e.type # "subscription"
      /\ e.type \in {"checkout", "paid", "failed", "subscription"}
  BY <1>1 DEF UpsertPayment, Inv, TypeOK, Task, HandlersRecorded, PeriodsCounted, Event, Source,
              HandlerSaid
<1>3. new.pc = "retrieve" /\ new.key = task[h].key
  BY <1>1, <1>2 DEF Task
<1>4. /\ payment' = [payment EXCEPT ![e.key][e.at.period] = MergedStatus(@, status)]
      /\ task' = [task EXCEPT ![h] = new] /\ OtherThanHandlers /\ UNCHANGED row
  BY <1>1 DEF UpsertPayment, OtherThanHandlers, Inv, TypeOK
<1>5. \A k \in Recurring, p \in Periods :
        payment'[k][p] = IF k = e.key /\ p = e.at.period THEN MergedStatus(payment[k][p], status)
                                                         ELSE payment[k][p]
  BY <1>2, <1>4 DEF Inv, TypeOK
<1>6. \A old : MergedStatus(old, status) \in {old, status}
  BY DEF MergedStatus
<1>7. PaymentsAreInvoices'
  <2> SUFFICES ASSUME NEW k \in Recurring, NEW p \in Periods, payment'[k][p] # "ABSENT"
               PROVE  \E f \in emitted : /\ f.key = k /\ f.at.period = p
                        /\ IF payment'[k][p] = "FAILED" THEN f.type = "failed"
                                                        ELSE f.type \in {"checkout", "paid"}
    BY <1>4 DEF PaymentsAreInvoices, OtherThanHandlers
  <2>1. CASE payment'[k][p] = payment[k][p]
    BY <2>1 DEF Source, PaymentsAreInvoices
  <2>2. CASE k = e.key /\ p = e.at.period /\ payment'[k][p] = status
    BY <1>1, <1>2, <2>2
  <2> QED BY <1>5, <1>6, <2>1, <2>2
<1>8. RowsSaid'
  BY <1>4 DEF Source, RowsSaid, RowSaid, Stored, OtherThanHandlers
<1>9. HandlerSaid(new)
  BY <1>2, <1>3 DEF Source, HandlerSaid
<1> QED BY <1>4, <1>7, <1>8, <1>9, HandlerKeepsSource

LEMMA UpsertSubscriptionKeepsSource ==
  ASSUME Inv, Source, NEW h \in Handlers, UpsertSubscription(h)
  PROVE  Source'
<1>1. PICK k, at : k = task[h].key /\ at = task[h].at
  OBVIOUS
<1>2. k \in Recurring /\ sub[k].at.status # "none" /\ Said(k, at)
  BY <1>1 DEF UpsertSubscription, Inv, HandlersRecorded, Source, HandlerSaid
<1>3. /\ row' = [row EXCEPT ![k] = [status |-> mapStripePaymentSubscriptionStatus(at.status),
                                    period |-> at.period]]
      /\ task' = [task EXCEPT ![h] = NoTask] /\ OtherThanHandlers /\ UNCHANGED payment
  BY <1>1 DEF UpsertSubscription, OtherThanHandlers
<1>4. RowsSaid'
  <2>1. ASSUME NEW j \in Recurring, Stored(j)' PROVE sub[j].at.status # "none" /\ RowSaid(j)'
    <3>1. CASE j = k
      <4>1. /\ row'[j].period = at.period
            /\ row'[j].status = mapStripePaymentSubscriptionStatus(at.status)
        BY <1>3, <3>1 DEF Inv, TypeOK
      <4> QED BY <1>2, <1>3, <3>1, <4>1 DEF RowSaid, Said, OtherThanHandlers
    <3>2. CASE j # k
      <4>1. row'[j] = row[j]
        BY <1>3, <3>2 DEF Inv, TypeOK
      <4> QED BY <1>3, <2>1, <4>1 DEF Source, RowsSaid, RowSaid, Stored, OtherThanHandlers
    <3> QED BY <3>1, <3>2
  <2> QED BY <1>3, <2>1 DEF RowsSaid, OtherThanHandlers
<1>5. PaymentsAreInvoices' /\ HandlerSaid(NoTask)
  BY <1>3, NoTaskTyped DEF Source, PaymentsAreInvoices, OtherThanHandlers, HandlerSaid
<1> QED BY <1>3, <1>4, <1>5, HandlerKeepsSource

LEMMA NextSource == Inv /\ Source /\ [Next]_vars => Source'
<1> SUFFICES ASSUME Inv, Source, [Next]_vars PROVE Source'
  OBVIOUS
<1>1. ASSUME NEW r \in Requests, \/ \E k \in Keys : BeginCheckout(r, k) \/ BeginSubscription(r, k)
                                 \/ Ask(r) \/ Abandon(r)
      PROVE  Source'
  BY <1>1, RequestsKeepSource
<1>2. ASSUME NEW k \in Recurring, Stripe(k) \/ CancelSubscription(k) PROVE Source'
  BY <1>2, StripeKeepsSource
<1>3. ASSUME NEW h \in Handlers, \/ \E e \in emitted : Claim(h, e)
                                 \/ \E k \in Recurring : Reconcile(h, k)
                                 \/ Work(h) \/ Fail(h)
      PROVE  Source'
  BY <1>3, ReadersKeepSource, UpsertPaymentKeepsSource, UpsertSubscriptionKeepsSource DEF Work
<1>4. CASE UNCHANGED vars
  <2>1. OtherThanHandlers /\ UNCHANGED <<row, payment, task>>
    BY <1>4 DEF vars, OtherThanHandlers, stored
  <2>2. RowsSaid' /\ PaymentsAreInvoices'
    BY <2>1, NothingWritten
  <2> QED BY <2>1, <2>2 DEF Source, StripeSaid, EventsOfSubs, HandlerSaid, Said,
                            OtherThanHandlers, buying
<1> QED BY <1>1, <1>2, <1>3, <1>4 DEF Next

LEMMA SourceInvariance == Spec => [](Inv /\ Source)
<1>1. Init => Inv /\ Source
  BY InitInv, InitSource
<1>2. Inv /\ Source /\ [Next]_vars => (Inv /\ Source)'
  BY NextInv, NextSource
<1> QED BY <1>1, <1>2, PTL DEF Spec

\* ActiveEntitlement: nobody is entitled by Stripe without a completed Checkout,
\* nor in a period that Stripe never called live.
THEOREM EntitledWasLiveHolds == Spec => []EntitledWasLive
<1>1. Inv /\ Source => EntitledWasLive
  <2> SUFFICES ASSUME Inv, Source, NEW k \in Recurring, Entitled(k)
               PROVE  /\ session[k].made
                      /\ \E e \in emitted : /\ e.key = k /\ e.at.status \in Live
                                            /\ e.at.period = row[k].period /\ e.at.period > sub[k].over
    BY DEF EntitledWasLive
  <2>1. sub[k].at.status # "none" /\ RowSaid(k)
    BY DEF Entitled, Stored, Source, RowsSaid
  <2>2. session[k].made
    BY <2>1 DEF Source, StripeSaid
  <2>3. PICK e \in emitted : /\ e.key = k /\ row[k].period = e.at.period
                             /\ row[k].status = mapStripePaymentSubscriptionStatus(e.at.status)
    BY <2>1 DEF RowSaid
  <2>4. e.at.status \in Live
    BY <2>3 DEF Entitled, mapStripePaymentSubscriptionStatus
  <2> QED BY <2>2, <2>3, <2>4 DEF Entitled
<1> QED BY <1>1, SourceInvariance, PTL

\* handleStripeInvoice, handleStripeCheckout: a payment on record is one that
\* Stripe has reported, for that period and with that outcome.
THEOREM PaymentsAreInvoicesHolds == Spec => []PaymentsAreInvoices
<1>1. Source => PaymentsAreInvoices
  BY DEF Source
<1> QED BY <1>1, SourceInvariance, PTL
=============================================================================

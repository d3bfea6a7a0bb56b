-------------------------- MODULE GoogleStoreProofs --------------------------
(***************************************************************************)
(* Google's purchases belong to their buyer, are stored after Google has   *)
(* acknowledged them or refused to, and stay refunded: for any number of   *)
(* handlers, identities, orders and faults.                                *)
(*                                                                         *)
(* The three invariants need what the handlers carry between their steps:  *)
(* whoever is past the ownership check, or took its identity from the row, *)
(* works for the buyer; whoever is about to store has seen Google's answer *)
(* to the acknowledgement, its own or through the row; and the order a     *)
(* notification names was voided.                                          *)
(*                                                                         *)
(* Payments and refunds on record are Google's, as handlers and row carry  *)
(* nothing younger than Google's side (TracksGoogle).                      *)
(***************************************************************************)
EXTENDS GoogleStore, TLAPS

HandlersWorkForBuyer ==
  \A a \in Actors :
    \/ task[a].pc \in {"idle", "lookup"}
    \/ task[a].pc = "get" /\ task[a].proof
    \/ task[a].owner = Buyer
StorersSawAnswer ==
  \A a \in Actors : task[a].pc \in {"subscribe", "pay"} => Answered
VoidsAreReal == \A a \in Actors : task[a].void \in google.voided \cup {0}

Inv ==
  /\ TypeOK
  /\ OwnerIsBuyer
  /\ StoredIsAnswered
  /\ VoidedStaysRefunded
  /\ HandlersWorkForBuyer
  /\ StorersSawAnswer
  /\ VoidsAreReal

USE DEF Actors, Orders, States, Statuses, PaymentStatuses

\* mapGoogleV2Status yields a status of a subscription, whatever Google says.
LEMMA MappedIsStatus ==
  ASSUME NEW state
  PROVE  mapGoogleV2Status(state) \in Statuses
BY DEF mapGoogleV2Status

\* UpsertPayment's merge: a refund is written over anything, and nothing but a
\* refund over it; the result is one of the two statuses.
LEMMA RefundWins ==
  ASSUME NEW status \in PaymentStatuses \cup {"ABSENT"}
  PROVE  /\ MergedStatus(status, "REFUNDED") = "REFUNDED"
         /\ MergedStatus(status, "SUCCEEDED") \in {status, "SUCCEEDED"}
         /\ MergedStatus("REFUNDED", "SUCCEEDED") = "REFUNDED"
BY DEF MergedStatus, paymentStatusRank

LEMMA IdleTyped == NoTask \in Task /\ NoTask.pc = "idle" /\ NoTask.void = 0
BY BoundsAssumption DEF NoTask, Task

LEMMA InitInv == ASSUME Init PROVE Inv
BY BuyerAssumption, BoundsAssumption
   DEF Init, Inv, TypeOK, Google, Row, NoRow, Task, NoTask, OwnerIsBuyer, StoredIsAnswered, Answered,
       VoidedStaysRefunded, HandlersWorkForBuyer, StorersSawAnswer, VoidsAreReal

\* A change at Google takes neither its answer to the acknowledgement nor a refund
\* back, and touches nothing of the application's.
LEMMA PlayStep == ASSUME Inv, Play PROVE Inv'
<1> DEFINE Kept == /\ google' \in Google /\ google.voided \subseteq google'.voided
                   /\ Answered' = Answered
                   /\ UNCHANGED <<refunded, row, payment, task, faults>>
<1>1. ASSUME NEW state \in States, Order(state) PROVE Kept
  <2>1. google.order + 1 \in 0..MaxOrders
    BY <1>1, BoundsAssumption DEF Order, Inv, TypeOK, Google
  <2>2. google' = [state |-> state, order |-> google.order + 1,
                   acknowledged |-> google.acknowledged, refused |-> google.refused,
                   voided |-> google.voided]
    BY <1>1 DEF Order, Inv, TypeOK, Google
  <2> QED BY <1>1, <2>1, <2>2 DEF Order, Answered, Inv, TypeOK, Google
<1>2. ASSUME NEW state \in States, ChangeState(state) PROVE Kept
  BY <1>2 DEF ChangeState, Answered, Inv, TypeOK, Google
<1>3. ASSUME NEW state \in States, NEW o \in Orders, Void(o, state) PROVE Kept
  BY <1>3 DEF Void, Answered, Inv, TypeOK, Google
<1>4. Kept
  <2> HIDE DEF Kept
  <2> QED BY <1>1, <1>2, <1>3 DEF Play
<1> QED
  BY <1>4 DEF Inv, TypeOK, OwnerIsBuyer, StoredIsAnswered, VoidedStaysRefunded,
              HandlersWorkForBuyer, StorersSawAnswer, VoidsAreReal

\* Starting a handler: a store purchase still has its ownership to prove, a
\* notification has no identity yet, and reconciliation has the row's.
LEMMA BeginStep ==
  ASSUME Inv, NEW a \in Actors, NEW new \in Task,
         task' = [task EXCEPT ![a] = new],
         UNCHANGED <<google, refunded, row, payment, faults>>,
         new.void \in google.voided \cup {0},
         \/ new.pc = "lookup"
         \/ new.pc = "get" /\ (new.proof \/ new.owner = Buyer)
  PROVE  Inv'
<1>2. TypeOK'
  BY DEF Inv, TypeOK
<1>3. \A b \in Actors : task'[b] = IF b = a THEN new ELSE task[b]
  BY DEF Inv, TypeOK
<1>4. HandlersWorkForBuyer' /\ StorersSawAnswer' /\ VoidsAreReal'
  BY <1>3 DEF Inv, HandlersWorkForBuyer, StorersSawAnswer, Answered, VoidsAreReal
<1> QED
  BY <1>2, <1>4 DEF Inv, OwnerIsBuyer, StoredIsAnswered, Answered, VoidedStaysRefunded

LEMMA HandlerStarts ==
  ASSUME Inv, NEW h \in Handlers,
         \/ \E identity \in Identities : VerifyStorePurchase(h, identity)
         \/ SubscriptionNotification(h)
         \/ \E o \in Orders : VoidedNotification(h, o)
  PROVE  Inv'
<1>1. ASSUME NEW identity \in Identities, VerifyStorePurchase(h, identity) PROVE Inv'
  <2> DEFINE new == [NoTask EXCEPT !.pc = "get", !.proof = TRUE, !.owner = identity]
  <2>1. new \in Task /\ new.pc = "get" /\ new.proof /\ new.void = 0
    BY IdleTyped DEF Task
  <2>2. task' = [task EXCEPT ![h] = new] /\ UNCHANGED <<google, refunded, row, payment, faults>>
    BY <1>1 DEF VerifyStorePurchase, Begin
  <2> HIDE DEF new
  <2> QED BY <2>1, <2>2, BeginStep
<1>2. CASE SubscriptionNotification(h)
  <2> DEFINE new == [NoTask EXCEPT !.pc = "lookup"]
  <2>1. new \in Task /\ new.pc = "lookup" /\ new.void = 0
    BY IdleTyped DEF Task
  <2>2. task' = [task EXCEPT ![h] = new] /\ UNCHANGED <<google, refunded, row, payment, faults>>
    BY <1>2 DEF SubscriptionNotification, Begin
  <2> HIDE DEF new
  <2> QED BY <2>1, <2>2, BeginStep
<1>3. ASSUME NEW o \in Orders, VoidedNotification(h, o) PROVE Inv'
  <2> DEFINE new == [NoTask EXCEPT !.pc = "lookup", !.void = o]
  <2>0. o \in google.voided
    BY <1>3 DEF VoidedNotification
  <2>1. new \in Task /\ new.pc = "lookup" /\ new.void \in google.voided
    <3> DEFINE looked == [NoTask EXCEPT !.pc = "lookup"]
    <3>1. o \in 0..MaxOrders
      BY BoundsAssumption
    <3>2. looked \in Task /\ looked.pc = "lookup"
      BY IdleTyped DEF Task
    <3>3. new = [looked EXCEPT !.void = o]
      OBVIOUS
    <3> HIDE DEF new, looked
    <3> QED BY <2>0, <3>1, <3>2, <3>3 DEF Task
  <2>2. task' = [task EXCEPT ![h] = new] /\ UNCHANGED <<google, refunded, row, payment, faults>>
    BY <1>3 DEF VoidedNotification, Begin
  <2> HIDE DEF new
  <2> QED BY <2>1, <2>2, BeginStep
<1> QED
  BY <1>1, <1>2, <1>3

LEMMA ReconcileStarts ==
  ASSUME Inv, NEW r \in Reconcilers, ReconcileSubscription(r)
  PROVE  Inv'
<1>1. row.owner = Buyer
  BY DEF Inv, OwnerIsBuyer, ReconcileSubscription
<1> DEFINE new == [NoTask EXCEPT !.pc = "get", !.owner = row.owner]
<1>2. new \in Task /\ new.pc = "get" /\ new.owner = Buyer /\ new.void = 0
  BY <1>1, IdleTyped, BuyerAssumption DEF Task
<1>3. task' = [task EXCEPT ![r] = new] /\ UNCHANGED <<google, refunded, row, payment, faults>>
  BY DEF ReconcileSubscription, Begin
<1> HIDE DEF new
<1> QED
  BY <1>2, <1>3, BeginStep

\* A handler that moves on or gives up, and writes nothing of the application's.
LEMMA QuietStep ==
  ASSUME Inv, NEW a \in Actors, NEW new \in Task,
         task' = [task EXCEPT ![a] = new],
         UNCHANGED <<refunded, row, payment>>,
         google' \in Google, google'.voided = google.voided,
         Answered => Answered',
         faults' \in 0..MaxFaults,
         \/ new.pc \in {"idle", "lookup"}
         \/ new.pc = "get" /\ new.proof
         \/ new.owner = Buyer,
         new.pc \in {"subscribe", "pay"} => Answered',
         new.void \in google.voided \cup {0}
  PROVE  Inv'
<1>1. TypeOK'
  BY DEF Inv, TypeOK
<1>2. \A b \in Actors : task'[b] = IF b = a THEN new ELSE task[b]
  BY DEF Inv, TypeOK
<1>3. HandlersWorkForBuyer'
  BY <1>2 DEF Inv, HandlersWorkForBuyer
<1>4. StorersSawAnswer'
  BY <1>2 DEF Inv, StorersSawAnswer
<1>5. VoidsAreReal'
  BY <1>2 DEF Inv, VoidsAreReal
<1> QED
  BY <1>1, <1>3, <1>4, <1>5 DEF Inv, OwnerIsBuyer, StoredIsAnswered, VoidedStaysRefunded

LEMMA FailsStep ==
  ASSUME Inv, NEW a \in Actors, Fails(a), faults' \in 0..MaxFaults
  PROVE  Inv'
BY QuietStep, IdleTyped DEF Fails, Answered, Inv, TypeOK

LEMMA LookupStep == ASSUME Inv, NEW a \in Actors, Lookup(a) PROVE Inv'
<1>1. CASE row = NoRow /\ Fails(a)
  BY <1>1, FailsStep DEF Lookup, Inv, TypeOK
<1>2. CASE row # NoRow
  <2> DEFINE new == IF task[a].void = 0
                      THEN [task[a] EXCEPT !.pc = "get", !.owner = row.owner]
                      ELSE [task[a] EXCEPT !.pc = "subscribe", !.owner = row.owner,
                                           !.order = row.order, !.status = "REFUNDED"]
  <2>1. row.owner = Buyer /\ Answered /\ row.order \in 0..MaxOrders
    BY <1>2 DEF Inv, OwnerIsBuyer, StoredIsAnswered, TypeOK, Row
  <2>2. task[a] \in Task /\ task[a].void \in google.voided \cup {0}
    BY DEF Inv, TypeOK, VoidsAreReal
  <2>3. new \in Task /\ new.owner = Buyer /\ new.void = task[a].void
    BY <2>1, <2>2, BuyerAssumption DEF Task
  <2>4. task' = [task EXCEPT ![a] = new] /\ UNCHANGED <<google, refunded, row, payment, faults>>
    BY <1>2 DEF Lookup
  <2> QED
    <3> HIDE DEF new
    <3> QED BY <2>1, <2>2, <2>3, <2>4, QuietStep DEF Answered, Inv, TypeOK
<1> QED
  BY <1>1, <1>2 DEF Lookup

LEMMA GetStep == ASSUME Inv, NEW a \in Actors, Get(a) PROVE Inv'
<1>1. CASE ~Bound(a) /\ Fails(a)
  BY <1>1, FailsStep DEF Get, Inv, TypeOK
<1>2. CASE Bound(a)
  <2> DEFINE new == [task[a] EXCEPT
                       !.pc = IF google.acknowledged THEN "subscribe" ELSE "acknowledge",
                       !.status = mapGoogleV2Status(google.state), !.order = google.order]
  <2>1. /\ task[a] \in Task /\ google.order \in 0..MaxOrders
        /\ task[a].void \in google.voided \cup {0}
    BY DEF Inv, TypeOK, Google, VoidsAreReal
  <2>2. task[a].owner = Buyer
    BY <1>2 DEF Get, Bound, Inv, HandlersWorkForBuyer
  <2>3. /\ new \in Task /\ new.owner = Buyer /\ new.void = task[a].void
        /\ new.pc \in {"subscribe", "pay"} => Answered
    BY <2>1, <2>2, MappedIsStatus DEF Task, Answered
  <2>4. task' = [task EXCEPT ![a] = new] /\ UNCHANGED <<google, refunded, row, payment, faults>>
    BY <1>2 DEF Get
  <2> QED
    <3> HIDE DEF new
    <3> QED BY <2>1, <2>3, <2>4, QuietStep DEF Answered, Inv, TypeOK
<1> QED
  BY <1>1, <1>2 DEF Get

LEMMA AcknowledgeStep == ASSUME Inv, NEW a \in Actors, Acknowledge(a) PROVE Inv'
<1>1. /\ google' \in Google /\ google'.voided = google.voided /\ Answered'
      /\ UNCHANGED <<refunded, row, payment>>
  BY DEF Acknowledge, Acknowledges, Refuses, Answered, Inv, TypeOK, Google
<1>2. faults' \in 0..MaxFaults
  BY BoundsAssumption DEF Acknowledge, Refuses, Fault, Inv, TypeOK
<1>3. CASE task' = [task EXCEPT ![a] = NoTask]
  BY <1>1, <1>2, <1>3, QuietStep, IdleTyped
<1>4. CASE task' = [task EXCEPT ![a].pc = "subscribe"]
  <2> DEFINE new == [task[a] EXCEPT !.pc = "subscribe"]
  <2>1. new \in Task /\ new.owner = task[a].owner /\ new.void = task[a].void
    BY DEF Inv, TypeOK, Task
  <2>2. task[a].owner = Buyer /\ task[a].void \in google.voided \cup {0}
    BY DEF Acknowledge, Inv, HandlersWorkForBuyer, VoidsAreReal
  <2>3. task' = [task EXCEPT ![a] = new]
    BY <1>4
  <2> QED
    <3> HIDE DEF new
    <3> QED BY <1>1, <1>2, <2>1, <2>2, <2>3, QuietStep
<1> QED
  BY <1>3, <1>4 DEF Acknowledge

LEMMA UpsertSubscriptionStep ==
  ASSUME Inv, NEW a \in Actors, UpsertSubscription(a) PROVE Inv'
<1>1. CASE Foreign(a) /\ Fails(a)
  BY <1>1, FailsStep DEF UpsertSubscription, Inv, TypeOK
<1>2. CASE ~Foreign(a)
  <2>1. task[a] \in Task /\ task[a].owner = Buyer /\ Answered
    BY DEF UpsertSubscription, Inv, TypeOK, HandlersWorkForBuyer, StorersSawAnswer
  <2>2. /\ row' = [owner |-> task[a].owner, order |-> task[a].order, status |-> task[a].status]
        /\ UNCHANGED <<google, refunded, payment, faults>>
    BY <1>2 DEF UpsertSubscription
  <2>3. row' \in Row /\ row'.owner = Buyer
    BY <2>1, <2>2 DEF Task, Row
  <2> DEFINE new == [task[a] EXCEPT !.pc = "pay"]
  <2>4. new \in Task /\ new.owner = Buyer /\ new.pc = "pay" /\ new.void = task[a].void
    BY <2>1 DEF Task
  <2>5. task' = [task EXCEPT ![a] = new]
    BY <1>2 DEF UpsertSubscription
  <2> HIDE DEF new
  <2>6. \A b \in Actors : task'[b] = IF b = a THEN new ELSE task[b]
    BY <2>5 DEF Inv, TypeOK
  <2>7. TypeOK'
    BY <2>2, <2>3, <2>4, <2>5 DEF Inv, TypeOK
  <2>8. HandlersWorkForBuyer' /\ StorersSawAnswer' /\ VoidsAreReal'
    BY <2>1, <2>2, <2>4, <2>6
       DEF Inv, HandlersWorkForBuyer, StorersSawAnswer, Answered, VoidsAreReal
  <2> QED
    BY <2>1, <2>2, <2>3, <2>7, <2>8
       DEF Inv, OwnerIsBuyer, StoredIsAnswered, Answered, VoidedStaysRefunded
<1> QED
  BY <1>1, <1>2 DEF UpsertSubscription

LEMMA UpsertPaymentStep == ASSUME Inv, NEW a \in Actors, UpsertPayment(a) PROVE Inv'
<1> DEFINE v == task[a].void
           n == task[a].order
<1>1. /\ task[a] \in Task /\ v \in 0..MaxOrders /\ n \in 0..MaxOrders
      /\ UNCHANGED <<google, row, faults>>
      /\ task' = [task EXCEPT ![a] = NoTask]
  BY DEF UpsertPayment, Inv, TypeOK, Task
<1>2. \A o \in Orders : payment[o] \in PaymentStatuses \cup {"ABSENT"}
  BY DEF Inv, TypeOK
<1>3. /\ payment' \in [Orders -> PaymentStatuses \cup {"ABSENT"}]
      /\ \A o \in Orders : payment[o] = "REFUNDED" => payment'[o] = "REFUNDED"
      /\ v \in Orders => payment'[v] = "REFUNDED"
  <2>1. CASE v # 0
    <3>1. v \in Orders
      BY <1>1, <2>1, BoundsAssumption
    <3>2. payment' = [payment EXCEPT ![v] = "REFUNDED"]
      BY <3>1, <2>1, <1>2, RefundWins DEF UpsertPayment, Inv, TypeOK
    <3> QED BY <3>1, <3>2 DEF Inv, TypeOK
  <2>2. CASE v = 0 /\ task[a].status \in {"ACTIVE", "TRIALING"}
    <3>1. payment' = [payment EXCEPT ![n] = MergedStatus(payment[n], "SUCCEEDED")]
      BY <2>2 DEF UpsertPayment
    <3>2. n \in Orders => /\ MergedStatus(payment[n], "SUCCEEDED") \in PaymentStatuses \cup {"ABSENT"}
                          /\ payment[n] = "REFUNDED" => MergedStatus(payment[n], "SUCCEEDED") = "REFUNDED"
      BY <1>2, RefundWins
    <3>3. v \notin Orders
      BY <2>2, BoundsAssumption
    <3> HIDE DEF v, n
    <3> QED BY <3>1, <3>2, <3>3 DEF Inv, TypeOK
  <2>3. CASE v = 0 /\ task[a].status \notin {"ACTIVE", "TRIALING"}
    BY <2>3, BoundsAssumption DEF UpsertPayment, Inv, TypeOK
  <2> QED BY <2>1, <2>2, <2>3
<1>4. refunded' = refunded \cup ({v} \cap Orders)
  BY DEF UpsertPayment
<1>5. refunded' \subseteq google'.voided
  BY <1>1, <1>4, BoundsAssumption DEF Inv, TypeOK, VoidsAreReal
<1> HIDE DEF v, n
<1>6. TypeOK'
  BY <1>1, <1>3, <1>5, IdleTyped DEF Inv, TypeOK
<1>7. \A b \in Actors : task'[b] = IF b = a THEN NoTask ELSE task[b]
  BY <1>1 DEF Inv, TypeOK
<1>8. HandlersWorkForBuyer' /\ StorersSawAnswer' /\ VoidsAreReal'
  BY <1>1, <1>7, IdleTyped
     DEF Inv, HandlersWorkForBuyer, StorersSawAnswer, Answered, VoidsAreReal
<1>9. VoidedStaysRefunded'
  BY <1>3, <1>4, <1>1 DEF Inv, TypeOK, Google, VoidedStaysRefunded
<1> QED
  BY <1>1, <1>6, <1>8, <1>9 DEF Inv, OwnerIsBuyer, StoredIsAnswered, Answered

LEMMA NextStep == Inv /\ [Next]_vars => Inv'
<1> SUFFICES ASSUME Inv, [Next]_vars PROVE Inv'
  OBVIOUS
<1>1. CASE Play
  BY <1>1, PlayStep
<1>2. ASSUME NEW h \in Handlers,
             \/ \E identity \in Identities : VerifyStorePurchase(h, identity)
             \/ SubscriptionNotification(h)
             \/ \E o \in Orders : VoidedNotification(h, o)
      PROVE  Inv'
  BY <1>2, HandlerStarts
<1>3. ASSUME NEW r \in Reconcilers, ReconcileSubscription(r) PROVE Inv'
  BY <1>3, ReconcileStarts
<1>4. ASSUME NEW a \in Actors, Work(a) PROVE Inv'
  BY <1>4, LookupStep, GetStep, AcknowledgeStep, UpsertSubscriptionStep, UpsertPaymentStep DEF Work
<1>5. ASSUME NEW a \in Actors, Fail(a) PROVE Inv'
  <2>1. faults' \in 0..MaxFaults
    BY <1>5, BoundsAssumption DEF Fail, Fault, Inv, TypeOK
  <2> QED BY <1>5, <2>1, FailsStep DEF Fail
<1>6. CASE UNCHANGED vars
  BY <1>6 DEF vars, Inv, TypeOK, OwnerIsBuyer, StoredIsAnswered, VoidedStaysRefunded,
              HandlersWorkForBuyer, StorersSawAnswer, Answered, VoidsAreReal
<1> QED
  BY <1>1, <1>2, <1>3, <1>4, <1>5, <1>6 DEF Next

\* The inductive invariant.
THEOREM StoreInvariant == Spec => []Inv
BY InitInv, NextStep, PTL DEF Spec

\* verifyAndStore: a Google purchase is only ever stored for its buyer.
THEOREM OwnerIsBuyerHolds == Spec => []OwnerIsBuyer
<1>1. Inv => OwnerIsBuyer
  BY DEF Inv
<1> QED BY <1>1, StoreInvariant, PTL

\* verifyAndStore: a purchase is stored only if Google has acknowledged it, or
\* has refused to with 400 or 409, which the code takes for the same.
THEOREM StoredIsAnsweredHolds == Spec => []StoredIsAnswered
<1>1. Inv => StoredIsAnswered
  BY DEF Inv
<1> QED BY <1>1, StoreInvariant, PTL

\* processNotification and UpsertPayment: the payment of an order whose voided
\* notification succeeded stays refunded.
THEOREM VoidedStaysRefundedHolds == Spec => []VoidedStaysRefunded
<1>1. Inv => VoidedStaysRefunded
  BY DEF Inv
<1> QED BY <1>1, StoreInvariant, PTL

-----------------------------------------------------------------------------
(* What is on record is Google's.                                           *)

\* What the row and the handlers carry was Google's when it was read, and
\* Google's orders and refunds stay.
TracksGoogle ==
  /\ \A o \in google.voided : o <= google.order
  /\ row.order <= google.order
  /\ \A a \in Actors : /\ task[a].order <= google.order
                       /\ task[a].status = "REFUNDED" => \E o \in Orders : o \in google.voided

Books == TracksGoogle /\ PaymentsWereOrdered /\ RefundsAreGoogles

\* The orders, typed.
LEMMA OrdersTyped ==
  ASSUME Inv
  PROVE  /\ google.order \in Nat /\ row.order \in Nat
         /\ \A a \in Actors : task[a] \in Task /\ task[a].order \in 0..MaxOrders
                              /\ task[a].void \in google.voided \cup {0}
         /\ google.voided \subseteq Orders /\ MaxOrders \in Nat
BY BoundsAssumption DEF Inv, TypeOK, Google, Row, Task, VoidsAreReal

LEMMA InitBooks == Init => Books
BY BoundsAssumption
   DEF Init, Books, TracksGoogle, PaymentsWereOrdered, RefundsAreGoogles, NoRow, NoTask

\* Google's side moves on.
LEMMA PlayKeepsBooks == ASSUME Inv, Books, Play PROVE Books'
<1> DEFINE Grows == /\ google'.order \in Nat /\ google.order <= google'.order
                    /\ google.voided \subseteq google'.voided
                    /\ \A o \in google'.voided : o <= google'.order
                    /\ UNCHANGED <<refunded, row, payment, task, faults>>
<1>1. Grows
  <2>1. ASSUME NEW state \in States, Order(state) PROVE Grows
    <3>1. google'.order = google.order + 1 /\ google'.voided = google.voided
      BY <2>1 DEF Order, Inv, TypeOK, Google
    <3>2. \A o \in google.voided : o \in Nat /\ o <= google.order
      BY OrdersTyped DEF Books, TracksGoogle
    <3> QED BY <2>1, <3>1, <3>2, OrdersTyped DEF Order
  <2>2. ASSUME NEW state \in States, ChangeState(state) PROVE Grows
    BY <2>2, OrdersTyped DEF ChangeState, Books, TracksGoogle, Inv, TypeOK, Google
  <2>3. ASSUME NEW state \in States, NEW o \in Orders, Void(o, state) PROVE Grows
    BY <2>3, OrdersTyped DEF Void, Books, TracksGoogle, Inv, TypeOK, Google
  <2> HIDE DEF Grows
  <2> QED BY <2>1, <2>2, <2>3 DEF Play
<1>2. \A x \in Nat : x <= google.order => x <= google'.order
  BY <1>1, OrdersTyped
<1>3. TracksGoogle'
  <2>1. \A a \in Actors : task[a].order \in Nat
    BY OrdersTyped
  <2>2. \A a \in Actors : task[a].order <= google'.order
    BY <1>2, <2>1 DEF Books, TracksGoogle
  <2>3. row.order <= google'.order
    BY <1>2, OrdersTyped DEF Books, TracksGoogle
  <2>4. \A a \in Actors : task[a].status = "REFUNDED" => \E o \in Orders : o \in google'.voided
    BY <1>1 DEF Books, TracksGoogle
  <2> HIDE DEF Orders, Actors
  <2> QED BY <1>1, <2>2, <2>3, <2>4 DEF TracksGoogle
<1>4. PaymentsWereOrdered' /\ RefundsAreGoogles'
  BY <1>1, <1>2 DEF Books, PaymentsWereOrdered, RefundsAreGoogles
<1> QED BY <1>3, <1>4 DEF Books

\* An actor goes on to new and writes, if anything, the row.
LEMMA ActorKeepsBooks ==
  ASSUME Inv, Books, NEW a \in Actors, NEW new, task' = [task EXCEPT ![a] = new],
         google'.order = google.order, google'.voided = google.voided, UNCHANGED payment,
         new.order <= google.order,
         new.status = "REFUNDED" => \E o \in Orders : o \in google.voided,
         \/ UNCHANGED row
         \/ row'.order = task[a].order /\ row'.status = task[a].status
  PROVE  Books'
<1>1. \A b \in Actors : task'[b] = IF b = a THEN new ELSE task[b]
  BY DEF Inv, TypeOK
<1>2. \A b \in Actors :
        /\ task'[b].order <= google.order
        /\ task'[b].status = "REFUNDED" => \E o \in Orders : o \in google.voided
  BY <1>1 DEF Books, TracksGoogle
<1>3. row'.order <= google.order
  BY DEF Books, TracksGoogle
<1>4. TracksGoogle'
  BY <1>2, <1>3 DEF Books, TracksGoogle
<1>5. PaymentsWereOrdered'
  BY DEF Books, PaymentsWereOrdered
<1>6. RefundsAreGoogles'
  BY DEF Books, RefundsAreGoogles, TracksGoogle
<1> QED BY <1>4, <1>5, <1>6 DEF Books

LEMMA IdleKeepsBooks ==
  ASSUME Inv, Books, NEW a \in Actors, task' = [task EXCEPT ![a] = NoTask],
         google'.order = google.order, google'.voided = google.voided, UNCHANGED <<row, payment>>
  PROVE  Books'
<1>1. NoTask.order <= google.order /\ NoTask.status = "EXPIRED"
  BY OrdersTyped DEF NoTask
<1> QED BY <1>1, ActorKeepsBooks

LEMMA BeginKeepsBooks ==
  ASSUME Inv, Books, NEW a \in Actors, NEW new, Begin(a, new), new.order = 0, new.status = "EXPIRED"
  PROVE  Books'
<1>1. new.order <= google.order
  BY OrdersTyped
<1>2. task' = [task EXCEPT ![a] = new] /\ UNCHANGED <<google, refunded, row, payment, faults>>
  BY DEF Begin
<1> QED BY <1>1, <1>2, ActorKeepsBooks

LEMMA StartsKeepBooks ==
  ASSUME Inv, Books, NEW a \in Actors,
         \/ \E identity \in Identities : VerifyStorePurchase(a, identity)
         \/ SubscriptionNotification(a)
         \/ \E o \in Orders : VoidedNotification(a, o)
         \/ ReconcileSubscription(a)
  PROVE  Books'
<1>1. ASSUME NEW identity \in Identities, VerifyStorePurchase(a, identity) PROVE Books'
  BY <1>1, BeginKeepsBooks DEF VerifyStorePurchase, NoTask
<1>2. CASE SubscriptionNotification(a)
  BY <1>2, BeginKeepsBooks DEF SubscriptionNotification, NoTask
<1>3. ASSUME NEW o \in Orders, VoidedNotification(a, o) PROVE Books'
  BY <1>3, BeginKeepsBooks DEF VoidedNotification, NoTask
<1>4. CASE ReconcileSubscription(a)
  BY <1>4, BeginKeepsBooks DEF ReconcileSubscription, NoTask
<1> QED BY <1>1, <1>2, <1>3, <1>4

LEMMA LookupKeepsBooks == ASSUME Inv, Books, NEW a \in Actors, Lookup(a) PROVE Books'
<1>1. CASE row = NoRow /\ Fails(a)
  BY <1>1, IdleKeepsBooks DEF Fails
<1>2. CASE row # NoRow
  <2>1. PICK new : new = IF task[a].void = 0
                           THEN [task[a] EXCEPT !.pc = "get", !.owner = row.owner]
                           ELSE [task[a] EXCEPT !.pc = "subscribe", !.owner = row.owner,
                                                !.order = row.order, !.status = "REFUNDED"]
    OBVIOUS
  <2>2. task' = [task EXCEPT ![a] = new] /\ UNCHANGED <<google, refunded, row, payment>>
    BY <1>2, <2>1 DEF Lookup
  <2>3. task[a] \in Task /\ task[a].void \in google.voided \cup {0}
    BY OrdersTyped
  <2>4. CASE task[a].void = 0
    <3>1. new.order = task[a].order /\ new.status = task[a].status
      BY <2>1, <2>3, <2>4 DEF Task
    <3> QED BY <2>2, <3>1, ActorKeepsBooks DEF Books, TracksGoogle
  <2>5. CASE task[a].void # 0
    <3>1. new.order = row.order /\ task[a].void \in google.voided \cap Orders
      BY <2>1, <2>3, <2>5, OrdersTyped DEF Task
    <3> QED BY <2>2, <3>1, ActorKeepsBooks DEF Books, TracksGoogle
  <2> QED BY <2>4, <2>5
<1> QED BY <1>1, <1>2 DEF Lookup

LEMMA GetKeepsBooks == ASSUME Inv, Books, NEW a \in Actors, Get(a) PROVE Books'
<1>1. CASE ~Bound(a) /\ Fails(a)
  BY <1>1, IdleKeepsBooks DEF Fails
<1>2. CASE Bound(a)
  <2>1. PICK new : new = [task[a] EXCEPT
                           !.pc = IF google.acknowledged THEN "subscribe" ELSE "acknowledge",
                           !.status = mapGoogleV2Status(google.state), !.order = google.order]
    OBVIOUS
  <2>2. task' = [task EXCEPT ![a] = new] /\ UNCHANGED <<google, refunded, row, payment>>
    BY <1>2, <2>1 DEF Get
  <2>3. new.order = google.order /\ new.status = mapGoogleV2Status(google.state)
    BY <2>1, OrdersTyped DEF Task
  <2>4. new.status # "REFUNDED"
    BY <2>3 DEF mapGoogleV2Status
  <2>5. google.order <= google.order
    BY OrdersTyped
  <2> QED BY <2>2, <2>3, <2>4, <2>5, ActorKeepsBooks
<1> QED BY <1>1, <1>2 DEF Get

LEMMA AcknowledgeKeepsBooks == ASSUME Inv, Books, NEW a \in Actors, Acknowledge(a) PROVE Books'
<1>1. /\ google'.order = google.order /\ google'.voided = google.voided
      /\ UNCHANGED <<row, payment>>
  BY DEF Acknowledge, Acknowledges, Refuses, Inv, TypeOK, Google
<1>2. CASE task' = [task EXCEPT ![a] = NoTask]
  BY <1>1, <1>2, IdleKeepsBooks
<1>3. CASE task' = [task EXCEPT ![a].pc = "subscribe"]
  <2>1. PICK new : new = [task[a] EXCEPT !.pc = "subscribe"]
    OBVIOUS
  <2>2. new.order = task[a].order /\ new.status = task[a].status
    BY <2>1, OrdersTyped DEF Task
  <2>3. task' = [task EXCEPT ![a] = new]
    BY <1>3, <2>1
  <2> QED BY <1>1, <2>2, <2>3, ActorKeepsBooks DEF Books, TracksGoogle
<1> QED BY <1>2, <1>3 DEF Acknowledge

LEMMA UpsertSubscriptionKeepsBooks ==
  ASSUME Inv, Books, NEW a \in Actors, UpsertSubscription(a) PROVE Books'
<1>1. CASE Foreign(a) /\ Fails(a)
  BY <1>1, IdleKeepsBooks DEF Fails
<1>2. CASE ~Foreign(a)
  <2>1. PICK new : new = [task[a] EXCEPT !.pc = "pay"]
    OBVIOUS
  <2>2. new.order = task[a].order /\ new.status = task[a].status
    BY <2>1, OrdersTyped DEF Task
  <2>3. /\ task' = [task EXCEPT ![a] = new] /\ UNCHANGED <<google, payment>>
        /\ row'.order = task[a].order /\ row'.status = task[a].status
    BY <1>2, <2>1 DEF UpsertSubscription
  <2> QED BY <2>2, <2>3, ActorKeepsBooks DEF Books, TracksGoogle
<1> QED BY <1>1, <1>2 DEF UpsertSubscription

\* The order that is paid, or refunded, is one that Google has, or has voided.
LEMMA UpsertPaymentKeepsBooks ==
  ASSUME Inv, Books, NEW a \in Actors, UpsertPayment(a) PROVE Books'
<1>1. PICK v, n : v = task[a].void /\ n = task[a].order
  OBVIOUS
<1>2. /\ v \in google.voided \cup {0} /\ n \in 0..MaxOrders /\ n <= google.order
      /\ task' = [task EXCEPT ![a] = NoTask] /\ UNCHANGED <<google, row, faults>>
  BY <1>1, OrdersTyped DEF UpsertPayment, Books, TracksGoogle
<1>3. ASSUME NEW o \in Orders
      PROVE  \/ payment'[o] = payment[o]
             \/ o = v
             \/ o = n /\ (payment'[o] = "REFUNDED" => payment[o] = "REFUNDED")
  <2>1. payment[o] \in PaymentStatuses \cup {"ABSENT"}
    BY DEF Inv, TypeOK
  <2>2. CASE v # 0
    BY <1>1, <2>2 DEF UpsertPayment, Inv, TypeOK
  <2>3. CASE v = 0
    <3>1. payment' = payment \/ payment' = [payment EXCEPT ![n] = MergedStatus(@, "SUCCEEDED")]
      BY <1>1, <2>3 DEF UpsertPayment
    <3>2. MergedStatus(payment[o], "SUCCEEDED") \in {payment[o], "SUCCEEDED"}
      BY <2>1, RefundWins
    <3>3. o # n => payment'[o] = payment[o]
      BY <3>1 DEF Inv, TypeOK
    <3>4. o = n => payment'[o] \in {payment[o], "SUCCEEDED"}
      BY <3>1, <3>2 DEF Inv, TypeOK
    <3> QED BY <3>3, <3>4
  <2> QED BY <2>2, <2>3
<1>4. \A o \in google.voided : o <= google.order
  BY DEF Books, TracksGoogle
<1>5. PaymentsWereOrdered'
  <2> SUFFICES ASSUME NEW o \in Orders, payment'[o] # "ABSENT" PROVE o <= google.order
    BY <1>2 DEF PaymentsWereOrdered
  <2>1. o # 0
    BY BoundsAssumption
  <2> QED BY <1>2, <1>3, <1>4, <2>1 DEF Books, PaymentsWereOrdered
<1>6. RefundsAreGoogles'
  <2>1. ASSUME NEW o \in Orders, payment'[o] = "REFUNDED" PROVE o \in google.voided
    <3>1. o # 0
      BY BoundsAssumption
    <3> QED BY <1>2, <1>3, <2>1, <3>1 DEF Books, RefundsAreGoogles
  <2> QED BY <1>2, <2>1 DEF Books, RefundsAreGoogles
<1>7. \A b \in Actors : task'[b] = IF b = a THEN NoTask ELSE task[b]
  BY <1>2 DEF Inv, TypeOK
<1>8. NoTask.order = 0 /\ NoTask.status = "EXPIRED"
  BY DEF NoTask
<1>9. TracksGoogle'
  BY <1>2, <1>7, <1>8, OrdersTyped DEF Books, TracksGoogle
<1> QED BY <1>5, <1>6, <1>9 DEF Books

LEMMA NextBooks == Inv /\ Books /\ [Next]_vars => Books'
<1> SUFFICES ASSUME Inv, Books, [Next]_vars PROVE Books'
  OBVIOUS
<1>1. CASE Play
  BY <1>1, PlayKeepsBooks
<1>2. ASSUME NEW h \in Handlers,
             \/ \E identity \in Identities : VerifyStorePurchase(h, identity)
             \/ SubscriptionNotification(h)
             \/ \E o \in Orders : VoidedNotification(h, o)
      PROVE  Books'
  BY <1>2, StartsKeepBooks
<1>3. ASSUME NEW r \in Reconcilers, ReconcileSubscription(r) PROVE Books'
  BY <1>3, StartsKeepBooks
<1>4. ASSUME NEW a \in Actors, Work(a) PROVE Books'
  BY <1>4, LookupKeepsBooks, GetKeepsBooks, AcknowledgeKeepsBooks, UpsertSubscriptionKeepsBooks,
     UpsertPaymentKeepsBooks DEF Work
<1>5. ASSUME NEW a \in Actors, Fail(a) PROVE Books'
  BY <1>5, IdleKeepsBooks DEF Fail, Fails
<1>6. CASE UNCHANGED vars
  BY <1>6 DEF vars, Books, TracksGoogle, PaymentsWereOrdered, RefundsAreGoogles
<1> QED
  BY <1>1, <1>2, <1>3, <1>4, <1>5, <1>6 DEF Next

LEMMA BooksInvariance == Spec => []Books
<1>1. Inv /\ Books /\ [Next]_vars => (Inv /\ Books)'
  BY NextStep, NextBooks
<1>2. Init => Inv /\ Books
  BY InitInv, InitBooks
<1> QED BY <1>1, <1>2, PTL DEF Spec

\* verifyAndStore and processNotification: a payment is of an order that Google
\* has, though the order was read some steps before and Google moved on.
THEOREM PaymentsWereOrderedHolds == Spec => []PaymentsWereOrdered
<1>1. Books => PaymentsWereOrdered
  BY DEF Books
<1> QED BY <1>1, BooksInvariance, PTL

\* processNotification: no payment is refunded that Google has not voided, and no
\* subscription none of whose orders was.
THEOREM RefundsAreGooglesHolds == Spec => []RefundsAreGoogles
<1>1. Books => RefundsAreGoogles
  BY DEF Books
<1> QED BY <1>1, BooksInvariance, PTL
=============================================================================

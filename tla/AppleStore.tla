------------------------------ MODULE AppleStore ------------------------------
(***************************************************************************)
(* One App Store subscription (one originalTransactionId) and the code     *)
(* that follows it: notifications, store purchases sent in by the          *)
(* application, and reconciliation against the App Store Server API all    *)
(* end in processAppleTransaction, which derives a status from what Apple  *)
(* signed and the present time, writes the subscription and then the       *)
(* payment.  Whether an identity is entitled is read from the row.         *)
(*                                                                         *)
(* Apple signs snapshots: a notification carries the transaction and the   *)
(* renewal information as they were when it was sent.  The race between    *)
(* the statements of one upsert is SubscriptionSync's and PaymentLedger's  *)
(* subject; here an upsert is a step.                                      *)
(***************************************************************************)
EXTENDS Integers, FiniteSets, PaymentStatus

CONSTANTS
  Handlers,     \* requests: notifications and store purchases
  Reconcilers,  \* background reconciliation
  Period,       \* length of a paid period
  MaxTx,        \* bound: transactions
  MaxSent,      \* bound: notifications, one for each change at Apple
  MaxTime,      \* bound: clock
  MaxFaults     \* bound: database and network errors

ASSUME ActorsAssumption == Handlers \cap Reconcilers = {}
ASSUME BoundsAssumption == /\ Period \in Nat \ {0} /\ MaxTx \in Nat \ {0} /\ MaxSent \in Nat
                           /\ MaxTime \in Nat /\ MaxFaults \in Nat

VARIABLES
  now,
  apple,    \* Apple's side of the subscription
  sent,     \* notifications Apple has sent
  done,     \* those that are SUCCEEDED in the webhook inbox
  row,      \* the payment_subscriptions record
  payment,  \* payment[t]: status of the payment_events record of transaction t
  task,     \* task[a]: the processAppleTransaction that actor a is in
  faults

vars == <<now, apple, sent, done, row, payment, task, faults>>
env == <<now, apple, sent>>

-----------------------------------------------------------------------------
Actors == Handlers \cup Reconcilers
Txs == 1..MaxTx

Phases == {"none", "active", "grace", "retry", "expired", "revoked"}
Types == {"SUBSCRIBED", "DID_RENEW", "DID_FAIL_TO_RENEW", "GRACE_PERIOD_EXPIRED",
          "EXPIRED", "REFUND", "REVOKE", "PURCHASE_VERIFIED"}
Statuses == {"ABSENT", "ACTIVE", "TRIALING", "PAST_DUE", "EXPIRED", "REFUNDED", "REVOKED"}

\* What Apple signs.  Without renewal information intent is FALSE and grace 0,
\* which the code takes alike.
Snapshot == [type : Types,
             tx : Txs,
             expires : Nat,
             revoked : BOOLEAN,    \* RevocationDate > 0
             intent : BOOLEAN,     \* ExpirationIntent # 0
             grace : Nat]        \* GracePeriodExpiresDate

Apple == [phase : Phases,
          last : 0..MaxTx,          \* the latest transaction
          expires : [Txs -> Nat],
          revoked : SUBSET Txs,
          intent : BOOLEAN,
          grace : Nat]

Row == [status : Statuses, end : Nat]
NoRow == [status |-> "ABSENT", end |-> 0]

NoSnapshot == [type |-> "EXPIRED", tx |-> 1, expires |-> 0, revoked |-> FALSE,
               intent |-> FALSE, grace |-> 0]
Task == [pc : {"idle", "subscribe", "pay"}, snapshot : Snapshot, status : Statuses]
NoTask == [pc |-> "idle", snapshot |-> NoSnapshot, status |-> "ABSENT"]

TypeOK ==
  /\ now \in 0..MaxTime
  /\ apple \in Apple
  /\ done \subseteq sent /\ sent \subseteq Snapshot
  /\ row \in Row
  /\ payment \in [Txs -> PaymentStatuses \cup {"ABSENT"}]
  /\ task \in [Actors -> Task]
  /\ faults \in 0..MaxFaults

Init ==
  /\ now = 0
  /\ apple = [phase |-> "none", last |-> 0, expires |-> [t \in Txs |-> 0],
              revoked |-> {}, intent |-> FALSE, grace |-> 0]
  /\ sent = {} /\ done = {}
  /\ row = NoRow
  /\ payment = [t \in Txs |-> "ABSENT"]
  /\ task = [a \in Actors |-> NoTask]
  /\ faults = 0

Fault == faults < MaxFaults /\ faults' = faults + 1

-----------------------------------------------------------------------------
(* The App Store.                                                           *)

Signed(store, type, t) ==
  [type |-> type, tx |-> t, expires |-> store.expires[t], revoked |-> t \in store.revoked,
   intent |-> store.intent, grace |-> store.grace]

Becomes(store, type, t) ==
  /\ Cardinality(sent) < MaxSent
  /\ apple' = store
  /\ sent' = sent \cup {Signed(store, type, t)}
  /\ UNCHANGED <<now, done, row, payment, task, faults>>

Lapsed == apple.last > 0 /\ apple.expires[apple.last] <= now

\* A first purchase, or a new one after the subscription ended.
Subscribe ==
  LET t == apple.last + 1 IN
  /\ apple.phase \in {"none", "expired", "revoked"}
  /\ t \in Txs
  /\ Becomes([apple EXCEPT !.phase = "active", !.last = t, !.expires[t] = now + Period,
                           !.intent = FALSE, !.grace = 0], "SUBSCRIBED", t)

\* The next period is paid for: before the old one ends, or late after all.
Renew ==
  LET t == apple.last + 1
      start == IF apple.phase = "active" THEN apple.expires[apple.last] ELSE now IN
  /\ apple.phase \in {"active", "grace", "retry"}
  /\ apple.phase = "active" => apple.expires[apple.last] <= now + 1
  /\ t \in Txs
  /\ Becomes([apple EXCEPT !.phase = "active", !.last = t, !.expires[t] = start + Period,
                           !.intent = FALSE, !.grace = 0], "DID_RENEW", t)

\* The renewal fails; with a billing grace period enabled the customer keeps
\* access for a while.
FailToRenew(phase, intent) ==
  /\ apple.phase = "active" /\ Lapsed
  /\ Becomes([apple EXCEPT !.phase = phase, !.intent = intent,
                           !.grace = IF phase = "grace" THEN now + 1 ELSE 0],
             "DID_FAIL_TO_RENEW", apple.last)
EndGrace ==
  /\ apple.phase = "grace" /\ apple.grace <= now
  /\ Becomes([apple EXCEPT !.phase = "retry", !.intent = TRUE],
             "GRACE_PERIOD_EXPIRED", apple.last)
Expire ==
  /\ apple.phase \in {"active", "retry"} /\ Lapsed
  /\ Becomes([apple EXCEPT !.phase = "expired", !.intent = TRUE, !.grace = 0],
             "EXPIRED", apple.last)

\* A refund, or the end of family sharing.  It ends a subscription whose present
\* period it takes back; of one that has lapsed the phase may stay.
TakeBack(t, type, phase) ==
  /\ t <= apple.last /\ t \notin apple.revoked
  /\ phase \in IF t = apple.last
                THEN {"revoked"} \cup IF apple.phase = "active" THEN {} ELSE {apple.phase}
                ELSE {apple.phase}
  /\ Becomes([apple EXCEPT !.phase = phase, !.revoked = @ \cup {t}], type, t)

Tick ==
  /\ now < MaxTime
  /\ now' = now + 1
  /\ UNCHANGED <<apple, sent, done, row, payment, task, faults>>

Store ==
  \/ Subscribe \/ Renew \/ EndGrace \/ Expire
  \/ \E phase \in {"grace", "retry"}, intent \in BOOLEAN : FailToRenew(phase, intent)
  \/ \E t \in Txs, type \in {"REFUND", "REVOKE"}, phase \in Phases : TakeBack(t, type, phase)

-----------------------------------------------------------------------------
(* processAppleTransaction.                                                 *)

appleSubscriptionStatus(type, expires, revoked) ==
  CASE type = "REFUND" -> "REFUNDED"
    [] type = "REVOKE" -> "REVOKED"
    [] type = "EXPIRED" -> "EXPIRED"
    [] type \in {"DID_FAIL_TO_RENEW", "GRACE_PERIOD_EXPIRED"} -> "PAST_DUE"
    [] OTHER -> IF revoked THEN "REVOKED"
                ELSE IF expires <= now THEN "EXPIRED" ELSE "ACTIVE"

\* The renewal information overrides what the notification's type says.
DerivedStatus(s) ==
  IF s.intent THEN "PAST_DUE"
  ELSE IF s.grace > now THEN "TRIALING"
  ELSE appleSubscriptionStatus(s.type, s.expires, s.revoked)

Begin(a, snapshot) ==
  /\ task[a].pc = "idle"
  /\ task' = [task EXCEPT ![a] = [pc |-> "subscribe", snapshot |-> snapshot,
                                  status |-> DerivedStatus(snapshot)]]
  /\ UNCHANGED <<env, done, row, payment, faults>>

\* processAppleNotification, in any order and again until it has succeeded.
Notify(h, notification) ==
  /\ notification \in sent \ done
  /\ Begin(h, notification)

\* VerifyStorePurchase: the application sends a signed transaction, which may be
\* an old copy, and no renewal information.
VerifyStorePurchase(h, t, revoked) ==
  /\ t <= apple.last /\ (revoked => t \in apple.revoked)
  /\ Begin(h, [type |-> "PURCHASE_VERIFIED", tx |-> t, expires |-> apple.expires[t],
               revoked |-> revoked, intent |-> FALSE, grace |-> 0])

\* What the status code of the App Store Server API is taken for.
appleStatusNotification(phase) ==
  CASE phase = "active" -> "DID_RENEW"                          \* 1
    [] phase = "expired" -> "EXPIRED"                           \* 2
    [] phase \in {"retry", "grace"} -> "DID_FAIL_TO_RENEW"      \* 3, 4
    [] phase = "revoked" -> "REVOKE"                            \* 5

\* ReconcileSubscription of a stored row: the last transaction, as it is now.
ReconcileSubscription(r) ==
  /\ row # NoRow
  /\ Begin(r, Signed(apple, appleStatusNotification(apple.phase), apple.last))

\* UpsertSubscription: status and period are the snapshot's, whatever is stored.
UpsertKeepsPeriod(a) ==
  /\ task[a].pc = "subscribe"
  /\ row' = [status |-> task[a].status,
             end |-> IF row = NoRow THEN task[a].snapshot.expires ELSE row.end]
  /\ task' = [task EXCEPT ![a].pc = "pay"]
  /\ UNCHANGED <<env, done, payment, faults>>
UpsertOnlyLonger(a) ==
  /\ task[a].pc = "subscribe"
  /\ row' = IF row # NoRow /\ task[a].snapshot.expires <= row.end THEN row
            ELSE [status |-> task[a].status, end |-> task[a].snapshot.expires]
  /\ task' = [task EXCEPT ![a].pc = "pay"]
  /\ UNCHANGED <<env, done, payment, faults>>
UpsertSubscription(a) ==
  /\ task[a].pc = "subscribe"
  /\ row' = [status |-> task[a].status, end |-> task[a].snapshot.expires]
  /\ task' = [task EXCEPT ![a].pc = "pay"]
  /\ UNCHANGED <<env, done, payment, faults>>

PaymentOf(status) ==
  CASE status = "REFUNDED" -> "REFUNDED"
    [] status = "REVOKED" -> "CANCELED"
    [] OTHER -> "SUCCEEDED"

\* FinishWebhook, of a notification; a reconciliation finishes no webhook.
Finish(a) == done' = IF a \in Handlers THEN done \cup ({task[a].snapshot} \cap sent) ELSE done

\* UpsertPayment, and the handler returns nil.
UpsertPayment(a) ==
  LET t == task[a].snapshot.tx IN
  /\ task[a].pc = "pay"
  /\ payment' = [payment EXCEPT ![t] = MergedStatus(@, PaymentOf(task[a].status))]
  /\ Finish(a)
  /\ task' = [task EXCEPT ![a] = NoTask]
  /\ UNCHANGED <<env, row, faults>>

\* A statement fails or the process dies: the notification stays to be delivered
\* again, and what was written before stays written.
FailFinishes(a) ==
  /\ task[a].pc # "idle" /\ Fault
  /\ Finish(a)
  /\ task' = [task EXCEPT ![a] = NoTask]
  /\ UNCHANGED <<env, row, payment>>
Fail(a) ==
  /\ task[a].pc # "idle" /\ Fault
  /\ task' = [task EXCEPT ![a] = NoTask]
  /\ UNCHANGED <<env, done, row, payment>>

Work(a) == UpsertSubscription(a) \/ UpsertPayment(a)

Next ==
  \/ Store \/ Tick
  \/ \E h \in Handlers :
       \/ \E n \in sent : Notify(h, n)
       \/ \E t \in Txs, revoked \in BOOLEAN : VerifyStorePurchase(h, t, revoked)
  \/ \E r \in Reconcilers : ReconcileSubscription(r)
  \/ \E a \in Actors : Work(a) \/ Fail(a)

Spec == Init /\ [][Next]_vars

\* The reconciliation ticker fires again and again, and its passes run on; of
\* requests nothing is assumed.
Reconcile(r) == ReconcileSubscription(r) \/ Work(r)
FairSpec == Spec /\ \A r \in Reconcilers : WF_vars(Reconcile(r))

-----------------------------------------------------------------------------
\* ActiveEntitlement: the rows it selects.
EntitledByStatus == row.status \in {"ACTIVE", "TRIALING"}
Entitled == row.status \in {"ACTIVE", "TRIALING"} /\ row.end > now

Paid(t) == t <= apple.last /\ apple.expires[t] > now

\* ActiveEntitlement: nobody is entitled outside the periods Apple was paid for,
\* however late a notification or an old purchase is processed.
EntitledOnlyWhilePaid == Entitled => \E t \in Txs : Paid(t)

\* FinishWebhook after processAppleTransaction: a notification that is SUCCEEDED
\* has left a subscription and the payment of its transaction, whichever of the
\* two writes failed at first.
SucceededIsRecorded ==
  \A n \in done : row # NoRow /\ payment[n.tx] # "ABSENT"

\* processAppleTransaction: a snapshot that carries the revocation entitles
\* nobody, whichever of the three ways it comes in and whatever else was signed
\* with it.  A copy signed before the revocation does, until RevokedIsDenied.
RevocationDenies ==
  [][\A a \in Actors : task[a].pc = "subscribe" /\ task[a].snapshot.revoked
                       /\ task'[a].pc = "pay" => ~Entitled']_vars

\* processAppleNotification and MergedStatus: a refund notification that came with
\* no renewal information and is SUCCEEDED has its payment REFUNDED, and no
\* notification, old purchase or reconciliation after it takes that back.
RefundIsRecorded ==
  \A n \in done : n.type = "REFUND" /\ ~n.intent /\ n.grace = 0 => payment[n.tx] = "REFUNDED"

\* ReconcileSubscription: while Apple has the subscription as active and paid,
\* writing what Apple has of it entitles, whatever the row was and however long
\* ago Apple was asked.
TrueAnswer(a) == /\ apple.phase = "active" /\ Paid(apple.last)
                 /\ task[a].snapshot = Signed(apple, "DID_RENEW", apple.last)
TrueAnswerEntitles ==
  [][\A a \in Actors : task[a].pc = "subscribe" /\ TrueAnswer(a)
                       /\ task'[a].pc = "pay" => Entitled']_vars

\* Reconcile: while Apple has the subscription as active and paid, a stored row
\* entitles in the end, though stale notifications, the refund of an earlier
\* period or failed requests had left it otherwise.
InPaidPeriod == row # NoRow /\ apple.phase = "active" /\ Paid(apple.last)
PaidIsEntitled == InPaidPeriod ~> (Entitled \/ ~InPaidPeriod)

\* Reconcile: when Apple has taken the latest transaction back, a stored row does
\* not entitle in the end, though a notification or an old purchase signed before
\* that, and processed after it, had made it ACTIVE again.
Revoked == row # NoRow /\ apple.last \in apple.revoked
RevokedIsDenied == Revoked ~> (~Entitled \/ ~Revoked)

\* TODO.md: "Trials/grace remain entitled".
InGrace == /\ row # NoRow /\ apple.phase = "grace" /\ apple.grace > now
           /\ apple.last \notin apple.revoked
GraceIsEntitled == InGrace ~> (Entitled \/ ~InGrace)
=============================================================================

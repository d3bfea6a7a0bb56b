--------------------------- MODULE AppleStoreProofs ---------------------------
(***************************************************************************)
(* Nobody is entitled outside a period Apple was paid for, what Apple has  *)
(* taken back entitles nobody, and a SUCCEEDED notification is recorded:   *)
(* for any number of requests, reconcilers, transactions, notifications,   *)
(* faults and any length of a period.                                      *)
(*                                                                         *)
(* A billing grace period could entitle: a snapshot that still names one   *)
(* reads TRIALING.  It does no harm to a transaction that was taken back,  *)
(* because a grace period starts when the latest period has ended, and an  *)
(* earlier one ends before it does (StoreOK).                              *)
(*                                                                         *)
(* A refund stays on its payment, and a true answer of Apple's entitles in *)
(* a paid period: a status that was derived some time ago still fits its   *)
(* snapshot when it is written (KeepsWord).                                *)
(***************************************************************************)
EXTENDS AppleStore, TLAPS

\* What Apple's side of a subscription keeps at time n.
StoreOK(s, n) ==
  /\ s.last = 0 <=> s.phase = "none"
  /\ \A t \in s.revoked : t <= s.last
  /\ s.phase \in {"grace", "retry", "expired"} => s.expires[s.last] <= n
  /\ s.phase = "revoked" => s.last \in s.revoked
  /\ s.grace > 0 => s.phase # "none" /\ s.expires[s.last] <= n
  /\ \A t \in Txs : t < s.last /\ t \notin s.revoked =>
       s.expires[t] <= n + 1 /\ s.expires[t] <= s.expires[s.last]

\* A snapshot of a transaction that Apple has, as it is for ever.
Fits(s) ==
  /\ s.tx <= apple.last
  /\ s.expires = apple.expires[s.tx]
  /\ s.revoked /\ s.grace > 0 => s.expires <= now

TaskOK(t) ==
  t.pc # "idle" =>
    /\ Fits(t.snapshot)
    /\ t.status # "ABSENT"
    /\ t.snapshot.revoked => t.status \notin {"ACTIVE", "TRIALING"} \/ t.snapshot.expires <= now
    /\ t.pc = "pay" => row # NoRow

RowFits == row # NoRow => \E t \in Txs : t <= apple.last /\ row.end = apple.expires[t]

Inv ==
  /\ TypeOK
  /\ StoreOK(apple, now)
  /\ \A s \in sent : Fits(s)
  /\ \A a \in Actors : TaskOK(task[a])
  /\ RowFits
  /\ SucceededIsRecorded

-----------------------------------------------------------------------------
LEMMA NoTaskIsTask == NoTask \in Task /\ NoTask.pc = "idle"
<1>1. NoSnapshot \in Snapshot
  BY BoundsAssumption DEF NoSnapshot, Snapshot, Types, Txs
<1> QED BY <1>1 DEF NoTask, Task, Statuses

LEMMA InitInv == ASSUME Init PROVE Inv
<1>1. apple \in Apple
  BY BoundsAssumption DEF Init, Apple, Phases
<1>2. row \in Row
  BY DEF Init, NoRow, Row, Statuses
<1>3. TypeOK
  BY <1>1, <1>2, NoTaskIsTask, BoundsAssumption DEF Init, TypeOK
<1>4. StoreOK(apple, now)
  BY DEF Init, StoreOK, Txs
<1> QED
  BY <1>3, <1>4, NoTaskIsTask DEF Init, Inv, TaskOK, RowFits, SucceededIsRecorded

-----------------------------------------------------------------------------
(* The App Store.                                                           *)

\* What fits Apple's side before a change of it fits it after.
LEMMA StoreStep ==
  ASSUME Inv, NEW store \in Apple, NEW type \in Types, NEW t \in Txs,
         Becomes(store, type, t), StoreOK(store, now),
         t <= store.last, apple.last <= store.last,
         \A x \in Txs : x <= apple.last => store.expires[x] = apple.expires[x],
         t \in store.revoked /\ store.grace > 0 => store.expires[t] <= now
  PROVE  Inv'
<1>1. /\ apple' = store /\ sent' = sent \cup {Signed(store, type, t)}
      /\ UNCHANGED <<now, done, row, payment, task, faults>>
  BY DEF Becomes
<1>2. PICK n : n = Signed(store, type, t)
  OBVIOUS
<1>3. /\ n \in Snapshot /\ n.tx = t /\ n.expires = store.expires[t]
      /\ n.revoked = (t \in store.revoked) /\ n.grace = store.grace
  BY <1>2 DEF Signed, Snapshot, Apple
<1>4. TypeOK'
  BY <1>1, <1>2, <1>3 DEF Inv, TypeOK
<1>5. Fits(n)'
  BY <1>1, <1>3 DEF Fits
<1>6. ASSUME NEW s \in Snapshot, Fits(s) PROVE Fits(s)'
  <2>1. s.tx \in Txs /\ s.tx <= apple.last
    BY <1>6 DEF Snapshot, Fits
  <2>2. s.tx <= store.last
    BY <2>1 DEF Inv, TypeOK, Apple, Txs
  <2> QED BY <1>1, <1>6, <2>1, <2>2 DEF Fits
<1>7. \A s \in sent' : Fits(s)'
  BY <1>1, <1>2, <1>5, <1>6 DEF Inv, TypeOK
<1>8. ASSUME NEW a \in Actors PROVE TaskOK(task[a])'
  <2>1. PICK u : u = task[a]
    OBVIOUS
  <2>2. task'[a] = u /\ u \in Task /\ TaskOK(u)
    BY <1>1, <2>1 DEF Inv, TypeOK
  <2>3. u.pc # "idle" => Fits(u.snapshot)'
    BY <1>6, <2>2 DEF TaskOK, Task
  <2> QED BY <1>1, <2>2, <2>3 DEF TaskOK
<1>9. RowFits'
  <2> SUFFICES ASSUME row # NoRow
               PROVE  \E x \in Txs : x <= store.last /\ row.end = store.expires[x]
    BY <1>1 DEF RowFits
  <2>1. PICK x \in Txs : x <= apple.last /\ row.end = apple.expires[x]
    BY DEF Inv, RowFits
  <2>2. x <= store.last /\ store.expires[x] = apple.expires[x]
    BY <2>1 DEF Inv, TypeOK, Apple, Txs
  <2> QED BY <2>1, <2>2
<1>10. SucceededIsRecorded'
  BY <1>1 DEF Inv, SucceededIsRecorded
<1>11. StoreOK(apple, now)'
  BY <1>1
<1> QED BY <1>1, <1>4, <1>7, <1>8, <1>9, <1>10, <1>11 DEF Inv

\* The parts of Apple's side, typed.
LEMMA AppleTyped ==
  ASSUME Inv
  PROVE  /\ apple \in Apple /\ now \in Nat /\ apple.last \in 0..MaxTx
         /\ apple.expires \in [Txs -> Nat] /\ apple.revoked \in SUBSET Txs
         /\ apple.grace \in Nat /\ apple.phase \in Phases
         /\ apple.phase # "none" => apple.last \in Txs
         /\ StoreOK(apple, now)
BY BoundsAssumption DEF Inv, TypeOK, Apple, StoreOK, Txs

\* A paid period after the last one, which has ended, is about to, or was taken
\* back.
LEMMA NewPeriodStep ==
  ASSUME Inv, NEW t, t = apple.last + 1, t \in Txs, NEW until \in Nat, NEW type \in Types,
         Becomes([apple EXCEPT !.phase = "active", !.last = t, !.expires[t] = until,
                               !.intent = FALSE, !.grace = 0], type, t),
         apple.last > 0 => \/ apple.last \in apple.revoked /\ until >= now + 1
                           \/ apple.expires[apple.last] <= now + 1 /\ apple.expires[apple.last] <= until
  PROVE  Inv'
<1>1. PICK store : store = [apple EXCEPT !.phase = "active", !.last = t, !.expires[t] = until,
                                         !.intent = FALSE, !.grace = 0]
  OBVIOUS
<1>2. /\ store \in Apple /\ store.phase = "active" /\ store.last = t /\ store.grace = 0
      /\ store.revoked = apple.revoked
      /\ \A x \in Txs : store.expires[x] = IF x = t THEN until ELSE apple.expires[x]
  <2>1. PICK expires : expires = [apple.expires EXCEPT ![t] = until]
    OBVIOUS
  <2>2. expires \in [Txs -> Nat]
        /\ \A x \in Txs : expires[x] = IF x = t THEN until ELSE apple.expires[x]
    BY <2>1, AppleTyped
  <2>3. store = [phase |-> "active", last |-> t, expires |-> expires, revoked |-> apple.revoked,
                 intent |-> FALSE, grace |-> 0]
    BY <1>1, <2>1, AppleTyped DEF Apple
  <2>4. t \in 0..MaxTx
    BY BoundsAssumption DEF Txs
  <2> QED BY <2>2, <2>3, <2>4, AppleTyped DEF Apple, Phases
<1>3. ASSUME NEW x \in Txs, x < t, x \notin store.revoked
      PROVE  store.expires[x] <= now + 1 /\ store.expires[x] <= store.expires[t]
  <2>0. x \in Nat /\ x # t /\ MaxTx \in Nat
    BY <1>3, BoundsAssumption DEF Txs
  <2>1. store.expires[x] = apple.expires[x] /\ store.expires[t] = until /\ apple.expires[x] \in Nat
    BY <1>2, <2>0, AppleTyped
  <2>2. apple.last \in Txs /\ apple.expires[apple.last] \in Nat /\ apple.last > 0 /\ now \in Nat
    <3>1. apple.last > 0 /\ apple.last \in Txs
      BY <1>3, <2>0, AppleTyped DEF Txs
    <3> QED BY <3>1, AppleTyped
  <2>3. CASE x = apple.last
    BY <1>2, <1>3, <2>1, <2>2, <2>3
  <2>4. CASE x < apple.last
    <3>1. apple.expires[x] <= now + 1 /\ apple.expires[x] <= apple.expires[apple.last]
      BY <1>2, <1>3, <2>4, AppleTyped DEF StoreOK
    <3> QED BY <2>1, <2>2, <3>1
  <2>5. x = apple.last \/ x < apple.last
    <3>1. x \in Int /\ apple.last \in Int /\ x < apple.last + 1
      BY <1>3, <2>0, AppleTyped
    <3> QED BY <3>1
  <2> QED BY <2>3, <2>4, <2>5
<1>4. StoreOK(store, now)
  BY <1>2, <1>3, AppleTyped DEF StoreOK, Txs
<1>5. t <= store.last /\ apple.last <= store.last
      /\ \A x \in Txs : x <= apple.last => store.expires[x] = apple.expires[x]
  BY <1>2, AppleTyped DEF Txs
<1>6. Becomes(store, type, t)
  BY <1>1
<1>7. ~(store.grace > 0)
  BY <1>2
<1> QED BY <1>2, <1>4, <1>5, <1>6, <1>7, StoreStep

LEMMA SubscribeStep == ASSUME Inv, Subscribe PROVE Inv'
<1>1. PICK t : t = apple.last + 1
  OBVIOUS
<1>2. PICK until : until = now + Period
  OBVIOUS
<1>3. until \in Nat /\ until >= now + 1
  BY <1>2, AppleTyped, BoundsAssumption
<1>4. apple.last > 0 => apple.last \in apple.revoked \/ apple.expires[apple.last] <= now
  BY AppleTyped DEF Subscribe, StoreOK
<1>5. apple.last > 0 => \/ apple.last \in apple.revoked /\ until >= now + 1
                        \/ apple.expires[apple.last] <= now + 1 /\ apple.expires[apple.last] <= until
  <2>1. apple.last > 0 => apple.last \in Txs /\ apple.expires[apple.last] \in Nat
    BY AppleTyped, BoundsAssumption DEF Txs
  <2> QED BY <1>3, <1>4, <2>1, AppleTyped
<1> QED BY <1>1, <1>2, <1>3, <1>5, NewPeriodStep DEF Subscribe, Types

LEMMA RenewStep == ASSUME Inv, Renew PROVE Inv'
<1>1. PICK t : t = apple.last + 1
  OBVIOUS
<1>2. PICK until : until = (IF apple.phase = "active" THEN apple.expires[apple.last] ELSE now) + Period
  OBVIOUS
<1>3. apple.last \in Txs /\ apple.expires[apple.last] \in Nat
  BY AppleTyped DEF Renew
<1>4. until \in Nat
  BY <1>2, <1>3, AppleTyped, BoundsAssumption
<1>5. apple.expires[apple.last] <= now + 1 /\ apple.expires[apple.last] <= until
  <2>1. CASE apple.phase = "active"
    BY <1>2, <1>3, <2>1, AppleTyped, BoundsAssumption DEF Renew
  <2>2. CASE apple.phase \in {"grace", "retry"}
    BY <1>2, <1>3, <2>2, AppleTyped, BoundsAssumption DEF StoreOK
  <2> QED BY <2>1, <2>2 DEF Renew
<1> QED BY <1>1, <1>2, <1>4, <1>5, NewPeriodStep DEF Renew, Types

\* A change within the latest period: its transactions stay as they are.
LEMMA SamePeriodStep ==
  ASSUME Inv, NEW store \in Apple, NEW type \in Types, NEW t \in Txs, Becomes(store, type, t),
         t <= apple.last,
         store.last = apple.last, store.expires = apple.expires, apple.revoked \subseteq store.revoked,
         \A x \in store.revoked : x <= apple.last,
         store.phase # "none",
         store.phase \in {"grace", "retry", "expired"} => apple.expires[apple.last] <= now,
         store.phase = "revoked" => apple.last \in store.revoked,
         store.grace > 0 => apple.expires[apple.last] <= now,
         t \in store.revoked /\ store.grace > 0 => t = apple.last \/ t \notin apple.revoked
  PROVE  Inv'
<1>1. apple.last \in Txs /\ {t, apple.last} \subseteq Nat /\ apple.last > 0 /\ apple.expires[t] \in Nat
      /\ apple.expires[apple.last] \in Nat /\ now \in Nat
  BY AppleTyped, BoundsAssumption DEF Txs
<1>2. StoreOK(store, now)
  BY <1>1, AppleTyped DEF StoreOK
<1>3. t \in store.revoked /\ store.grace > 0 => store.expires[t] <= now
  <2> SUFFICES ASSUME t \in store.revoked, store.grace > 0 PROVE apple.expires[t] <= now
    OBVIOUS
  <2>1. CASE t = apple.last
    BY <2>1
  <2>2. CASE t < apple.last /\ t \notin apple.revoked
    <3>1. apple.expires[t] <= apple.expires[apple.last]
      BY <2>2, AppleTyped DEF StoreOK
    <3> QED BY <1>1, <3>1
  <2> QED BY <1>1, <2>1, <2>2
<1>4. t <= store.last /\ apple.last <= store.last
  BY <1>1
<1> QED BY <1>2, <1>3, <1>4, StoreStep

LEMMA LapsedFacts ==
  ASSUME Inv, Lapsed
  PROVE  apple.last \in Txs /\ apple.expires[apple.last] <= now /\ apple.last <= apple.last
BY AppleTyped, BoundsAssumption DEF Lapsed, Txs

LEMMA FailToRenewStep ==
  ASSUME Inv, NEW phase \in {"grace", "retry"}, NEW intent \in BOOLEAN, FailToRenew(phase, intent)
  PROVE  Inv'
<1>1. PICK grace : grace = IF phase = "grace" THEN now + 1 ELSE 0
  OBVIOUS
<1>2. PICK store : store = [apple EXCEPT !.phase = phase, !.intent = intent, !.grace = grace]
  OBVIOUS
<1>3. grace \in Nat
  BY <1>1, AppleTyped
<1>4. /\ store \in Apple /\ store.phase = phase
      /\ store.last = apple.last /\ store.expires = apple.expires /\ store.revoked = apple.revoked
  BY <1>2, <1>3, AppleTyped DEF Apple, Phases
<1>5. Becomes(store, "DID_FAIL_TO_RENEW", apple.last) /\ Lapsed /\ apple.phase = "active"
  BY <1>1, <1>2 DEF FailToRenew
<1>6. \A x \in apple.revoked : x <= apple.last
  BY AppleTyped DEF StoreOK
<1> QED BY <1>4, <1>5, <1>6, LapsedFacts, SamePeriodStep DEF Types

LEMMA EndGraceStep == ASSUME Inv, EndGrace PROVE Inv'
<1>1. PICK store : store = [apple EXCEPT !.phase = "retry", !.intent = TRUE]
  OBVIOUS
<1>2. /\ store \in Apple /\ store.phase = "retry"
      /\ store.last = apple.last /\ store.expires = apple.expires /\ store.revoked = apple.revoked
  BY <1>1, AppleTyped DEF Apple, Phases
<1>3. Becomes(store, "GRACE_PERIOD_EXPIRED", apple.last) /\ apple.phase = "grace"
  BY <1>1 DEF EndGrace
<1>4. apple.last \in Txs /\ apple.expires[apple.last] <= now
  BY <1>3, AppleTyped DEF StoreOK
<1>5. apple.last <= apple.last /\ \A x \in apple.revoked : x <= apple.last
  BY AppleTyped DEF StoreOK
<1> QED BY <1>2, <1>3, <1>4, <1>5, SamePeriodStep DEF Types

LEMMA ExpireStep == ASSUME Inv, Expire PROVE Inv'
<1>1. PICK store : store = [apple EXCEPT !.phase = "expired", !.intent = TRUE, !.grace = 0]
  OBVIOUS
<1>2. /\ store \in Apple /\ store.phase = "expired"
      /\ store.last = apple.last /\ store.expires = apple.expires /\ store.revoked = apple.revoked
  BY <1>1, AppleTyped DEF Apple, Phases
<1>3. Becomes(store, "EXPIRED", apple.last) /\ Lapsed
  BY <1>1 DEF Expire
<1>4. \A x \in apple.revoked : x <= apple.last
  BY AppleTyped DEF StoreOK
<1> QED BY <1>2, <1>3, <1>4, LapsedFacts, SamePeriodStep DEF Types

\* A refund of an earlier transaction leaves the phase; of the latest one it ends
\* the subscription, or leaves one that has lapsed where it was.
LEMMA TakeBackStep ==
  ASSUME Inv, NEW t \in Txs, NEW type \in {"REFUND", "REVOKE"}, NEW phase \in Phases,
         TakeBack(t, type, phase)
  PROVE  Inv'
<1>1. PICK store : store = [apple EXCEPT !.phase = phase, !.revoked = @ \cup {t}]
  OBVIOUS
<1>2. /\ store \in Apple /\ store.phase = phase /\ store.grace = apple.grace
      /\ store.last = apple.last /\ store.expires = apple.expires
      /\ store.revoked = apple.revoked \cup {t}
  BY <1>1, AppleTyped DEF Apple
<1>3. Becomes(store, type, t) /\ t <= apple.last /\ t \notin apple.revoked
  BY <1>1 DEF TakeBack
<1>4. \/ t = apple.last /\ phase = "revoked"
      \/ phase = apple.phase
  BY DEF TakeBack
<1>5. apple.last # 0
  BY <1>3, AppleTyped, BoundsAssumption DEF Txs
<1>6. /\ apple.phase # "none"
      /\ \A x \in apple.revoked : x <= apple.last
      /\ apple.phase \in {"grace", "retry", "expired"} => apple.expires[apple.last] <= now
      /\ apple.phase = "revoked" => apple.last \in apple.revoked
      /\ apple.grace > 0 => apple.expires[apple.last] <= now
  BY <1>5, AppleTyped DEF StoreOK
<1>7. type \in Types
  BY DEF Types
<1> QED BY <1>2, <1>3, <1>4, <1>6, <1>7, SamePeriodStep

LEMMA AppStoreStep == ASSUME Inv, Store PROVE Inv'
BY SubscribeStep, RenewStep, EndGraceStep, ExpireStep, FailToRenewStep, TakeBackStep DEF Store

\* Time passes: what has ended has ended.
LEMMA TickStep == ASSUME Inv, Tick PROVE Inv'
<1>1. now' \in 0..MaxTime /\ now \in Nat /\ now' = now + 1
      /\ UNCHANGED <<apple, sent, done, row, payment, task, faults>>
  BY BoundsAssumption DEF Tick, Inv, TypeOK
<1>2. TypeOK'
  BY <1>1 DEF Inv, TypeOK
<1>3. \A x \in Nat : (x <= now => x <= now') /\ (x <= now + 1 => x <= now' + 1)
  BY <1>1
<1>4. StoreOK(apple, now)'
  <2>1. StoreOK(apple, now')
    <3>1. apple.last # 0 => apple.expires[apple.last] \in Nat
      BY AppleTyped, BoundsAssumption DEF Txs
    <3> QED BY <1>3, <3>1, AppleTyped DEF StoreOK
  <2> QED BY <1>1, <2>1
<1>5. ASSUME NEW s \in Snapshot, Fits(s) PROVE Fits(s)'
  BY <1>1, <1>3, <1>5 DEF Fits, Snapshot
<1>6. \A s \in sent' : Fits(s)'
  BY <1>1, <1>5 DEF Inv, TypeOK
<1>7. ASSUME NEW a \in Actors PROVE TaskOK(task[a])'
  <2>1. PICK u : u = task[a]
    OBVIOUS
  <2>2. task'[a] = u /\ u \in Task /\ TaskOK(u)
    BY <1>1, <2>1 DEF Inv, TypeOK
  <2>3. u.snapshot \in Snapshot /\ u.snapshot.expires \in Nat
    BY <2>2 DEF Task, Snapshot
  <2>4. u.pc # "idle" => Fits(u.snapshot)'
    BY <1>5, <2>2, <2>3 DEF TaskOK
  <2> QED BY <1>1, <1>3, <2>2, <2>3, <2>4 DEF TaskOK
<1>8. RowFits' /\ SucceededIsRecorded'
  BY <1>1 DEF Inv, RowFits, SucceededIsRecorded
<1> QED BY <1>2, <1>4, <1>6, <1>7, <1>8 DEF Inv

-----------------------------------------------------------------------------
(* processAppleTransaction.                                                 *)

LEMMA DerivedFacts ==
  ASSUME Inv, NEW s \in Snapshot, Fits(s)
  PROVE  /\ DerivedStatus(s) \in Statuses \ {"ABSENT"}
         /\ s.revoked => DerivedStatus(s) \notin {"ACTIVE", "TRIALING"} \/ s.expires <= now
<1>1. appleSubscriptionStatus(s.type, s.expires, s.revoked) \in Statuses \ {"ABSENT"}
  BY DEF appleSubscriptionStatus, Statuses
<1>2. s.revoked => appleSubscriptionStatus(s.type, s.expires, s.revoked) \notin {"ACTIVE", "TRIALING"}
  BY DEF appleSubscriptionStatus
<1>3. s.grace > now => s.grace > 0
  BY AppleTyped DEF Snapshot
<1> QED BY <1>1, <1>2, <1>3 DEF DerivedStatus, Fits, Statuses

\* Writing nothing of Apple's, an actor goes on to new.
LEMMA ActorStep ==
  ASSUME Inv, NEW a \in Actors, NEW new \in Task, task' = [task EXCEPT ![a] = new], UNCHANGED env,
         TaskOK(new)', row' = row \/ row' # NoRow, row' \in Row,
         payment' \in [Txs -> PaymentStatuses \cup {"ABSENT"}],
         done' \subseteq sent, faults' \in 0..MaxFaults,
         RowFits', SucceededIsRecorded'
  PROVE  Inv'
<1>1. now' = now /\ apple' = apple /\ sent' = sent
  BY DEF env
<1>2. TypeOK'
  BY <1>1 DEF Inv, TypeOK
<1>3. StoreOK(apple, now)' /\ \A s \in sent' : Fits(s)'
  BY <1>1 DEF Inv, Fits
<1>4. ASSUME NEW b \in Actors PROVE TaskOK(task[b])'
  <2>1. CASE b = a
    <3>1. task'[b] = new
      BY <2>1 DEF Inv, TypeOK
    <3> QED BY <3>1 DEF TaskOK
  <2>2. CASE b # a
    <3>1. PICK u : u = task[b]
      OBVIOUS
    <3>2. task'[b] = u /\ TaskOK(u)
      BY <2>2, <3>1 DEF Inv, TypeOK
    <3>3. u.pc # "idle" => Fits(u.snapshot)'
      BY <1>1, <3>2 DEF TaskOK, Fits
    <3> QED BY <1>1, <3>2, <3>3 DEF TaskOK
  <2> QED BY <2>1, <2>2
<1> QED BY <1>2, <1>3, <1>4 DEF Inv

LEMMA BeginStep ==
  ASSUME Inv, NEW a \in Actors, NEW s \in Snapshot, Fits(s), Begin(a, s)
  PROVE  Inv'
<1>1. PICK new : new = [pc |-> "subscribe", snapshot |-> s, status |-> DerivedStatus(s)]
  OBVIOUS
<1>2. task' = [task EXCEPT ![a] = new] /\ UNCHANGED <<env, done, row, payment, faults>>
  BY <1>1 DEF Begin
<1>3. new \in Task
  BY <1>1, DerivedFacts DEF Task
<1>4. now' = now /\ apple' = apple
  BY <1>2 DEF env
<1>5. Fits(s)'
  BY <1>4 DEF Fits
<1>6. TaskOK(new)'
  BY <1>1, <1>4, <1>5, DerivedFacts DEF TaskOK
<1>7. RowFits' /\ SucceededIsRecorded'
  BY <1>2, <1>4 DEF Inv, RowFits, SucceededIsRecorded
<1> QED BY <1>2, <1>3, <1>6, <1>7, ActorStep DEF Inv, TypeOK

LEMMA NotifyStep ==
  ASSUME Inv, NEW h \in Handlers, NEW n \in sent, Notify(h, n)
  PROVE  Inv'
BY BeginStep DEF Notify, Inv, TypeOK, Actors

LEMMA VerifyStorePurchaseStep ==
  ASSUME Inv, NEW h \in Handlers, NEW t \in Txs, NEW revoked \in BOOLEAN,
         VerifyStorePurchase(h, t, revoked)
  PROVE  Inv'
<1>1. PICK s : s = [type |-> "PURCHASE_VERIFIED", tx |-> t, expires |-> apple.expires[t],
                    revoked |-> revoked, intent |-> FALSE, grace |-> 0]
  OBVIOUS
<1>2. Begin(h, s) /\ t <= apple.last
  BY <1>1 DEF VerifyStorePurchase
<1>3. s \in Snapshot
  BY <1>1, AppleTyped DEF Snapshot, Types
<1>4. s.grace = 0 /\ s.tx = t /\ s.expires = apple.expires[t]
  BY <1>1
<1>5. Fits(s)
  BY <1>2, <1>4 DEF Fits
<1> QED BY <1>2, <1>3, <1>5, BeginStep DEF Actors

LEMMA ReconcileStep ==
  ASSUME Inv, NEW r \in Reconcilers, ReconcileSubscription(r)
  PROVE  Inv'
<1>1. PICK s : s = Signed(apple, appleStatusNotification(apple.phase), apple.last)
  OBVIOUS
<1>2. Begin(r, s) /\ row # NoRow
  BY <1>1 DEF ReconcileSubscription
<1>3. apple.last \in Txs /\ apple.phase \in Phases \ {"none"}
  <2>1. PICK t \in Txs : t <= apple.last
    BY <1>2 DEF Inv, RowFits
  <2>2. apple.last # 0
    BY <2>1, AppleTyped, BoundsAssumption DEF Txs
  <2> QED BY <2>2, AppleTyped DEF StoreOK
<1>4. appleStatusNotification(apple.phase) \in Types
  BY <1>3 DEF appleStatusNotification, Phases, Types
<1>5. /\ s \in Snapshot /\ s.tx = apple.last /\ s.expires = apple.expires[apple.last]
      /\ s.grace = apple.grace
  <2>1. apple.expires[apple.last] \in Nat /\ apple.grace \in Nat /\ apple.intent \in BOOLEAN
    BY <1>3, AppleTyped DEF Apple
  <2>2. (apple.last \in apple.revoked) \in BOOLEAN
    OBVIOUS
  <2>3. s = [type |-> appleStatusNotification(apple.phase), tx |-> apple.last,
             expires |-> apple.expires[apple.last], revoked |-> apple.last \in apple.revoked,
             intent |-> apple.intent, grace |-> apple.grace]
    BY <1>1 DEF Signed
  <2> QED BY <1>3, <1>4, <2>1, <2>2, <2>3 DEF Snapshot
<1>6. Fits(s)
  <2>1. apple.last <= apple.last
    BY AppleTyped, BoundsAssumption
  <2>2. apple.grace > 0 => apple.expires[apple.last] <= now
    BY AppleTyped DEF StoreOK
  <2> QED BY <1>5, <2>1, <2>2 DEF Fits
<1> QED BY <1>2, <1>5, <1>6, BeginStep DEF Actors

\* UpsertSubscription: the row's period is that of a transaction Apple has.
LEMMA UpsertSubscriptionStep ==
  ASSUME Inv, NEW a \in Actors, UpsertSubscription(a)
  PROVE  Inv'
<1>1. PICK u : u = task[a]
  OBVIOUS
<1>2. /\ u \in Task /\ TaskOK(u) /\ u.pc = "subscribe"
      /\ row' = [status |-> u.status, end |-> u.snapshot.expires]
      /\ UNCHANGED <<env, done, payment, faults>>
  BY <1>1 DEF UpsertSubscription, Inv, TypeOK
<1>3. PICK new : new = [u EXCEPT !.pc = "pay"]
  OBVIOUS
<1>4. task' = [task EXCEPT ![a] = new]
  BY <1>1, <1>3 DEF UpsertSubscription, Inv, TypeOK
<1>5. new \in Task /\ new.pc = "pay" /\ new.snapshot = u.snapshot /\ new.status = u.status
  BY <1>2, <1>3 DEF Task
<1>6. /\ u.snapshot \in Snapshot /\ u.snapshot.expires \in Nat /\ u.snapshot.tx \in Txs
      /\ u.status \in Statuses \ {"ABSENT"} /\ Fits(u.snapshot)
  BY <1>2 DEF Task, Snapshot, TaskOK
<1>7. row' \in Row /\ row' # NoRow /\ row'.end = u.snapshot.expires
  BY <1>2, <1>6 DEF Row, NoRow
<1>8. now' = now /\ apple' = apple
  BY <1>2 DEF env
<1>9. Fits(u.snapshot)'
  BY <1>6, <1>8 DEF Fits
<1>10. TaskOK(new)'
  BY <1>2, <1>5, <1>7, <1>8, <1>9 DEF TaskOK
<1>11. RowFits'
  BY <1>6, <1>7, <1>8 DEF RowFits, Fits
<1>12. SucceededIsRecorded'
  BY <1>2, <1>7 DEF Inv, SucceededIsRecorded
<1> QED BY <1>2, <1>4, <1>5, <1>7, <1>10, <1>11, <1>12, ActorStep DEF Inv, TypeOK

\* UpsertPayment leaves a payment for the snapshot's transaction, and there is a
\* row by now; only then is the notification SUCCEEDED.
LEMMA UpsertPaymentStep ==
  ASSUME Inv, NEW a \in Actors, UpsertPayment(a)
  PROVE  Inv'
<1>1. PICK u : u = task[a]
  OBVIOUS
<1>2. PICK t : t = u.snapshot.tx
  OBVIOUS
<1>3. /\ u \in Task /\ TaskOK(u) /\ u.pc = "pay" /\ u.snapshot \in Snapshot /\ t \in Txs
      /\ row # NoRow
  BY <1>1, <1>2 DEF UpsertPayment, Inv, TypeOK, Task, Snapshot, TaskOK
<1>4. /\ payment' = [payment EXCEPT ![t] = MergedStatus(@, PaymentOf(u.status))]
      /\ done \subseteq done' /\ done' \subseteq done \cup ({u.snapshot} \cap sent)
      /\ task' = [task EXCEPT ![a] = NoTask]
      /\ UNCHANGED <<env, row, faults>>
  BY <1>1, <1>2 DEF UpsertPayment, Finish
<1>5. PICK p : p = MergedStatus(payment[t], PaymentOf(u.status))
  OBVIOUS
<1>6. p \in PaymentStatuses
  <2>1. PaymentOf(u.status) \in PaymentStatuses
    BY DEF PaymentOf, PaymentStatuses
  <2>2. payment[t] \in PaymentStatuses \cup {"ABSENT"}
    BY <1>3 DEF Inv, TypeOK
  <2> QED BY <1>5, <2>1, <2>2 DEF MergedStatus, paymentStatusRank, PaymentStatuses
<1>7. \A x \in Txs : payment'[x] = IF x = t THEN p ELSE payment[x]
  BY <1>4, <1>5 DEF Inv, TypeOK
<1>8. payment' \in [Txs -> PaymentStatuses \cup {"ABSENT"}]
  BY <1>4, <1>5, <1>6 DEF Inv, TypeOK
<1>9. p # "ABSENT"
  BY <1>6 DEF PaymentStatuses
<1>10. SucceededIsRecorded'
  <2> SUFFICES ASSUME NEW n \in done' PROVE row' # NoRow /\ payment'[n.tx] # "ABSENT"
    BY DEF SucceededIsRecorded
  <2>1. n.tx \in Txs
    BY <1>4 DEF Inv, TypeOK, Snapshot
  <2>2. n.tx = t \/ n \in done
    BY <1>2, <1>4
  <2> QED BY <1>3, <1>4, <1>7, <1>9, <2>1, <2>2 DEF Inv, SucceededIsRecorded
<1>11. RowFits' /\ done' \subseteq sent
  BY <1>4 DEF Inv, TypeOK, RowFits, env
<1>12. TaskOK(NoTask)'
  BY NoTaskIsTask DEF TaskOK
<1> QED BY <1>4, <1>8, <1>10, <1>11, <1>12, NoTaskIsTask, ActorStep DEF Inv, TypeOK

LEMMA FailStep == ASSUME Inv, NEW a \in Actors, Fail(a) PROVE Inv'
<1>1. /\ task' = [task EXCEPT ![a] = NoTask] /\ faults' \in 0..MaxFaults
      /\ UNCHANGED <<env, done, row, payment>>
  BY BoundsAssumption DEF Fail, Fault, Inv, TypeOK
<1>2. RowFits' /\ SucceededIsRecorded'
  BY <1>1 DEF Inv, RowFits, SucceededIsRecorded, env
<1>3. TaskOK(NoTask)'
  BY NoTaskIsTask DEF TaskOK
<1> QED BY <1>1, <1>2, <1>3, NoTaskIsTask, ActorStep DEF Inv, TypeOK

-----------------------------------------------------------------------------
LEMMA StutterStep == ASSUME Inv, UNCHANGED vars PROVE Inv'
BY DEF vars, Inv, TypeOK, Fits, TaskOK, RowFits, SucceededIsRecorded

LEMMA NextInv == Inv /\ [Next]_vars => Inv'
<1> SUFFICES ASSUME Inv, [Next]_vars PROVE Inv'
  OBVIOUS
<1>1. CASE Store \/ Tick
  BY <1>1, AppStoreStep, TickStep
<1>2. ASSUME NEW h \in Handlers,
             \/ \E n \in sent : Notify(h, n)
             \/ \E t \in Txs, revoked \in BOOLEAN : VerifyStorePurchase(h, t, revoked)
      PROVE  Inv'
  BY <1>2, NotifyStep, VerifyStorePurchaseStep
<1>3. ASSUME NEW r \in Reconcilers, ReconcileSubscription(r) PROVE Inv'
  BY <1>3, ReconcileStep
<1>4. ASSUME NEW a \in Actors, Work(a) \/ Fail(a) PROVE Inv'
  BY <1>4, UpsertSubscriptionStep, UpsertPaymentStep, FailStep DEF Work
<1>5. CASE UNCHANGED vars
  BY <1>5, StutterStep
<1> QED BY <1>1, <1>2, <1>3, <1>4, <1>5 DEF Next

LEMMA Invariance == Spec => []Inv
<1>1. Init => Inv
  BY InitInv
<1> QED BY <1>1, NextInv, PTL DEF Spec

\* Every variable keeps its type.
THEOREM TypeCorrect == Spec => []TypeOK
<1>1. Inv => TypeOK
  BY DEF Inv
<1> QED BY <1>1, Invariance, PTL

\* ActiveEntitlement: the period of an entitling row is one that Apple was paid
\* for, because every snapshot that reaches the row is of such a period.
THEOREM EntitledOnlyWhilePaidHolds == Spec => []EntitledOnlyWhilePaid
<1>1. Inv => EntitledOnlyWhilePaid
  <2> SUFFICES ASSUME Inv, Entitled PROVE \E t \in Txs : Paid(t)
    BY DEF EntitledOnlyWhilePaid
  <2>1. row # NoRow
    BY DEF Entitled, NoRow
  <2> QED BY <2>1 DEF Inv, RowFits, Entitled, Paid
<1> QED BY <1>1, Invariance, PTL

\* processAppleNotification and FinishWebhook: a notification that will not be
\* processed again has its payment, and the subscription, on record.
THEOREM SucceededIsRecordedHolds == Spec => []SucceededIsRecorded
<1>1. Inv => SucceededIsRecorded
  BY DEF Inv
<1> QED BY <1>1, Invariance, PTL

\* An actor comes to the payment by writing the subscription.
LEMMA OnlyUpsertPays ==
  ASSUME Inv, Next, NEW a \in Actors, task[a].pc = "subscribe", task'[a].pc = "pay"
  PROVE  UpsertSubscription(a)
<1>1. ASSUME NEW b \in Actors, NEW new, new.pc # "pay", task' = [task EXCEPT ![b] = new] PROVE FALSE
  BY <1>1 DEF Inv, TypeOK
<1>2. task' # task
  OBVIOUS
<1>3. ~(Store \/ Tick)
  BY <1>2 DEF Store, Tick, Subscribe, Renew, EndGrace, Expire, FailToRenew, TakeBack, Becomes
<1>4. ASSUME NEW b \in Actors, NEW s, Begin(b, s) PROVE FALSE
  BY <1>1, <1>4 DEF Begin
<1>5. ASSUME NEW b \in Actors, Fail(b) \/ UpsertPayment(b) PROVE FALSE
  BY <1>1, <1>5, NoTaskIsTask DEF Fail, UpsertPayment
<1>6. ASSUME NEW b \in Actors, UpsertSubscription(b) PROVE b = a
  BY <1>6 DEF UpsertSubscription, Inv, TypeOK
<1> QED
  BY <1>3, <1>4, <1>5, <1>6
  DEF Next, Notify, VerifyStorePurchase, ReconcileSubscription, Work, Actors

\* RevocationDenies: the revocation a snapshot carries prevails over the grace
\* period signed with it, however late it is written; of a snapshot signed
\* before the revocation nothing is said.
THEOREM RevocationDeniesHolds == Spec => RevocationDenies
<1>1. Inv /\ [Next]_vars =>
        [\A a \in Actors : task[a].pc = "subscribe" /\ task[a].snapshot.revoked
                           /\ task'[a].pc = "pay" => ~Entitled']_vars
  <2> SUFFICES ASSUME Inv, Next, NEW a \in Actors, task[a].pc = "subscribe",
                      task[a].snapshot.revoked, task'[a].pc = "pay"
               PROVE  ~Entitled'
    OBVIOUS
  <2>1. UpsertSubscription(a)
    BY OnlyUpsertPays
  <2>2. TaskOK(task[a]) /\ now' = now /\ task[a].snapshot.expires \in Nat /\ now \in Nat
    BY <2>1, AppleTyped DEF UpsertSubscription, env, Inv, TypeOK, Task, Snapshot
  <2>3. row' = [status |-> task[a].status, end |-> task[a].snapshot.expires]
    BY <2>1 DEF UpsertSubscription
  <2> QED BY <2>2, <2>3 DEF TaskOK, Entitled
<1> QED BY <1>1, Invariance, PTL DEF Spec, RevocationDenies

-----------------------------------------------------------------------------
(* What a snapshot says is what is written of it, and stays written.        *)

\* An active subscription has nothing of a failed renewal left, and its latest
\* transaction has not been taken back.
ActiveIsClean == apple.phase = "active" =>
  ~apple.intent /\ apple.grace = 0 /\ apple.last \notin apple.revoked

\* The status a task carries, without renewal information: a refund's; and that
\* of a renewal whose period still runs, which it did when the status was derived.
KeepsWord(t) ==
  t.pc # "idle" /\ ~t.snapshot.intent /\ t.snapshot.grace = 0 =>
    /\ t.snapshot.type = "REFUND" => t.status = "REFUNDED"
    /\ t.snapshot.type = "DID_RENEW" /\ ~t.snapshot.revoked /\ t.snapshot.expires > now =>
         t.status = "ACTIVE"

Word == ActiveIsClean /\ (\A a \in Actors : KeepsWord(task[a])) /\ RefundIsRecorded

LEMMA InitWord == Init => Word
BY NoTaskIsTask DEF Init, Word, ActiveIsClean, KeepsWord, RefundIsRecorded

LEMMA ActiveStaysClean == ASSUME Inv, ActiveIsClean, Store PROVE ActiveIsClean'
<1>1. CASE Subscribe
  <2>1. PICK t : t = apple.last + 1
    OBVIOUS
  <2>2. t \notin apple.revoked
    BY <2>1, AppleTyped DEF StoreOK, Txs
  <2> QED BY <1>1, <2>1, <2>2, AppleTyped DEF Subscribe, Becomes, ActiveIsClean, Apple
<1>2. CASE Renew
  <2>1. PICK t : t = apple.last + 1
    OBVIOUS
  <2>2. t \notin apple.revoked
    BY <2>1, AppleTyped DEF StoreOK, Txs
  <2> QED BY <1>2, <2>1, <2>2, AppleTyped DEF Renew, Becomes, ActiveIsClean, Apple
<1>3. CASE EndGrace
  BY <1>3, AppleTyped DEF EndGrace, Becomes, ActiveIsClean, Apple
<1>4. CASE Expire
  BY <1>4, AppleTyped DEF Expire, Becomes, ActiveIsClean, Apple
<1>5. ASSUME NEW phase \in {"grace", "retry"}, NEW intent \in BOOLEAN, FailToRenew(phase, intent)
      PROVE  ActiveIsClean'
  BY <1>5, AppleTyped DEF FailToRenew, Becomes, ActiveIsClean, Apple
<1>6. ASSUME NEW t \in Txs, NEW type \in {"REFUND", "REVOKE"}, NEW phase \in Phases,
             TakeBack(t, type, phase)
      PROVE  ActiveIsClean'
  BY <1>6, AppleTyped DEF TakeBack, Becomes, ActiveIsClean, Apple
<1> QED BY <1>1, <1>2, <1>3, <1>4, <1>5, <1>6 DEF Store

\* An actor goes on to new, and Apple's side stays.
LEMMA ActorKeepsWord ==
  ASSUME Inv, Word, NEW a \in Actors, NEW new, task' = [task EXCEPT ![a] = new], UNCHANGED env,
         KeepsWord(new), RefundIsRecorded'
  PROVE  Word'
<1>1. \A b \in Actors : task'[b] = IF b = a THEN new ELSE task[b]
  BY DEF Inv, TypeOK
<1> QED BY <1>1 DEF Word, env, ActiveIsClean, KeepsWord

LEMMA BeginKeepsWord ==
  ASSUME Inv, Inv', Word, NEW a \in Actors, NEW s, Begin(a, s)
  PROVE  Word'
<1>1. PICK new : new = [pc |-> "subscribe", snapshot |-> s, status |-> DerivedStatus(s)]
  OBVIOUS
<1>2. task' = [task EXCEPT ![a] = new] /\ UNCHANGED <<env, done, row, payment, faults>>
  BY <1>1 DEF Begin
<1>3. s.expires \in Nat /\ now \in Nat
  <2>1. task'[a] = new
    BY <1>2 DEF Inv, TypeOK
  <2>2. new.snapshot \in Snapshot
    BY <2>1 DEF Inv, TypeOK, Task
  <2> QED BY <1>1, <2>2, AppleTyped DEF Snapshot
<1>4. (s.grace = 0 => ~(s.grace > now)) /\ (s.expires > now => ~(s.expires <= now))
  BY <1>3
<1>5. now' = now /\ KeepsWord(new)
  BY <1>1, <1>2, <1>4 DEF env, KeepsWord, DerivedStatus, appleSubscriptionStatus
<1> QED BY <1>2, <1>5, ActorKeepsWord DEF Word, RefundIsRecorded

\* REFUNDED has the highest rank: MergedStatus writes it over anything and
\* nothing over it.
LEMMA UpsertPaymentKeepsWord ==
  ASSUME Inv, Word, NEW a \in Actors, UpsertPayment(a)
  PROVE  Word'
<1>1. PICK u : u = task[a]
  OBVIOUS
<1>2. PICK t : t = u.snapshot.tx
  OBVIOUS
<1>3. /\ KeepsWord(u) /\ u.pc = "pay" /\ t \in Txs
      /\ payment' = [payment EXCEPT ![t] = MergedStatus(@, PaymentOf(u.status))]
      /\ done \subseteq done' /\ done' \subseteq done \cup ({u.snapshot} \cap sent)
      /\ task' = [task EXCEPT ![a] = NoTask]
      /\ UNCHANGED <<env, row, faults>>
  BY <1>1, <1>2 DEF UpsertPayment, Finish, Word, Inv, TypeOK, Task, Snapshot
<1>4. \A x \in Txs : payment'[x] = IF x = t THEN MergedStatus(payment[t], PaymentOf(u.status))
                                  ELSE payment[x]
  BY <1>3 DEF Inv, TypeOK
<1>5. /\ payment[t] = "REFUNDED" => MergedStatus(payment[t], PaymentOf(u.status)) = "REFUNDED"
      /\ u.status = "REFUNDED" => MergedStatus(payment[t], PaymentOf(u.status)) = "REFUNDED"
  <2>1. payment[t] \in PaymentStatuses \cup {"ABSENT"}
    BY <1>3 DEF Inv, TypeOK
  <2> QED BY <2>1 DEF PaymentOf, MergedStatus, paymentStatusRank, PaymentStatuses
<1>6. RefundIsRecorded'
  <2> SUFFICES ASSUME NEW n \in done', n.type = "REFUND", ~n.intent, n.grace = 0
               PROVE  payment'[n.tx] = "REFUNDED"
    BY DEF RefundIsRecorded
  <2>1. n.tx \in Txs
    BY <1>3 DEF Inv, TypeOK, Snapshot
  <2>2. CASE n = u.snapshot
    BY <1>2, <1>3, <1>4, <1>5, <2>2 DEF KeepsWord
  <2>3. CASE n \in done
    BY <1>4, <1>5, <2>1, <2>3 DEF Word, RefundIsRecorded
  <2> QED BY <1>3, <2>2, <2>3
<1> QED BY <1>3, <1>6, NoTaskIsTask, ActorKeepsWord DEF KeepsWord

LEMMA WorkKeepsWord ==
  ASSUME Inv, Word, NEW a \in Actors, Work(a) \/ Fail(a)
  PROVE  Word'
<1>1. CASE UpsertSubscription(a)
  <2>1. PICK new : new = [task[a] EXCEPT !.pc = "pay"]
    OBVIOUS
  <2>2. task' = [task EXCEPT ![a] = new] /\ UNCHANGED <<env, done, payment, faults>>
    BY <1>1, <2>1 DEF UpsertSubscription, Inv, TypeOK
  <2>3. KeepsWord(new)
    BY <1>1, <2>1 DEF UpsertSubscription, Word, KeepsWord, Inv, TypeOK, Task
  <2> QED BY <2>2, <2>3, ActorKeepsWord DEF Word, RefundIsRecorded
<1>2. CASE UpsertPayment(a)
  BY <1>2, UpsertPaymentKeepsWord
<1>3. CASE Fail(a)
  BY <1>3, NoTaskIsTask, ActorKeepsWord DEF Fail, KeepsWord, Word, RefundIsRecorded
<1> QED BY <1>1, <1>2, <1>3 DEF Work

LEMMA NextWord == Inv /\ Word /\ [Next]_vars => Word'
<1> SUFFICES ASSUME Inv, Word, [Next]_vars PROVE Word'
  OBVIOUS
<1>1. CASE Store
  <2>1. UNCHANGED <<now, done, row, payment, task, faults>>
    BY <1>1 DEF Store, Subscribe, Renew, EndGrace, Expire, FailToRenew, TakeBack, Becomes
  <2> QED BY <1>1, <2>1, ActiveStaysClean DEF Word, KeepsWord, RefundIsRecorded
<1>2. CASE Tick
  <2>1. now \in Nat /\ now' = now + 1 /\ UNCHANGED <<apple, sent, done, row, payment, task, faults>>
    BY <1>2, AppleTyped DEF Tick
  <2>2. ASSUME NEW a \in Actors PROVE KeepsWord(task[a])'
    <3>1. task[a].snapshot.expires \in Nat
      BY DEF Inv, TypeOK, Task, Snapshot
    <3>2. task[a].snapshot.expires > now' => task[a].snapshot.expires > now
      BY <2>1, <3>1
    <3> QED BY <2>1, <3>2 DEF Word, KeepsWord
  <2> QED BY <2>1, <2>2 DEF Word, ActiveIsClean, RefundIsRecorded
<1>3. ASSUME NEW a \in Actors, NEW s, Begin(a, s) PROVE Word'
  BY <1>3, BeginKeepsWord, NextInv
<1>4. ASSUME NEW a \in Actors, Work(a) \/ Fail(a) PROVE Word'
  BY <1>4, WorkKeepsWord
<1>5. CASE UNCHANGED vars
  BY <1>5 DEF vars, Word, ActiveIsClean, KeepsWord, RefundIsRecorded
<1> QED
  BY <1>1, <1>2, <1>3, <1>4, <1>5
  DEF Next, Notify, VerifyStorePurchase, ReconcileSubscription, Actors

LEMMA WordInvariance == Spec => [](Inv /\ Word)
<1>1. Init => Inv /\ Word
  BY InitInv, InitWord
<1>2. Inv /\ Word /\ [Next]_vars => (Inv /\ Word)'
  BY NextInv, NextWord
<1> QED BY <1>1, <1>2, PTL DEF Spec

\* processAppleNotification and MergedStatus: a refund that is SUCCEEDED in the
\* inbox stays on its payment, in whatever order everything else comes.
THEOREM RefundIsRecordedHolds == Spec => []RefundIsRecorded
<1>1. Inv /\ Word => RefundIsRecorded
  BY DEF Word
<1> QED BY <1>1, WordInvariance, PTL

\* ReconcileSubscription: an answer that is still true when it is written
\* entitles a customer whose present period is paid.
THEOREM TrueAnswerEntitlesHolds == Spec => TrueAnswerEntitles
<1>1. Inv /\ Word /\ [Next]_vars =>
        [\A a \in Actors : task[a].pc = "subscribe" /\ TrueAnswer(a)
                           /\ task'[a].pc = "pay" => Entitled']_vars
  <2> SUFFICES ASSUME Inv, Word, Next, NEW a \in Actors, task[a].pc = "subscribe",
                      TrueAnswer(a), task'[a].pc = "pay"
               PROVE  Entitled'
    OBVIOUS
  <2>1. UpsertSubscription(a)
    BY OnlyUpsertPays
  <2>2. /\ row' = [status |-> task[a].status, end |-> task[a].snapshot.expires]
        /\ now' = now
    BY <2>1 DEF UpsertSubscription, env
  <2>3. /\ task[a].snapshot = Signed(apple, "DID_RENEW", apple.last)
        /\ apple.expires[apple.last] > now
        /\ ~apple.intent /\ apple.grace = 0 /\ apple.last \notin apple.revoked
    BY DEF TrueAnswer, Paid, Word, ActiveIsClean
  <2>4. /\ task[a].snapshot.type = "DID_RENEW" /\ task[a].snapshot.intent = apple.intent
        /\ task[a].snapshot.grace = apple.grace
        /\ task[a].snapshot.revoked = (apple.last \in apple.revoked)
        /\ task[a].snapshot.expires = apple.expires[apple.last]
    BY <2>3 DEF Signed
  <2>5. KeepsWord(task[a])
    BY DEF Word
  <2>6. task[a].status = "ACTIVE" /\ task[a].snapshot.expires > now
    BY <2>3, <2>4, <2>5 DEF KeepsWord
  <2> QED BY <2>2, <2>6 DEF Entitled
<1> QED BY <1>1, WordInvariance, PTL DEF Spec, TrueAnswerEntitles
=============================================================================

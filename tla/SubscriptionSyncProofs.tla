------------------------ MODULE SubscriptionSyncProofs ------------------------
(***************************************************************************)
(* SubscriptionSync proved for any number of subscriptions, identities,    *)
(* handlers and reconcilers.  SyncInv is inductive: SELECT ... FOR UPDATE  *)
(* makes the writer of a row the only one (WritersLock), so the owner it   *)
(* has seen is still the owner when it writes (WritersSawOwner), and the   *)
(* ownership check it made then decides on what is stored.                 *)
(*                                                                         *)
(* A pass of reconciliation visits every row it found: PassesCover holds   *)
(* along its pages, which are closed downwards in the order of primary     *)
(* keys, and a page that is not full holds all the rest.                   *)
(***************************************************************************)
EXTENDS SubscriptionSync, FiniteSetTheorems, WellFoundedInduction, TLAPS

LEMMA NothingTyped ==
  /\ NoTask \in Task /\ NoTask.pc = "idle"
  /\ NoRow \in Row
  /\ NoPass \in Pass /\ NoPass.pc = "idle"
BY SyncBoundsAssumption DEF NoTask, Task, NoRow, Row, NoPass, Pass, Owners, Versions

\* The primary key that Insert takes.
LEMMA NextId == Cardinality(Stored) + 1 \in Nat /\ Cardinality(Stored) + 1 # 0
<1>1. IsFiniteSet(Stored)
  BY SubsAssumption, FS_Subset DEF Stored
<1>2. Cardinality(Stored) \in Nat
  BY <1>1, FS_CardinalityType
<1> QED
  BY <1>2

LEMMA SyncInit == Init => SyncInv
<1> SUFFICES ASSUME Init PROVE SyncInv
  OBVIOUS
<1>1. TypeOK
  BY NothingTyped, SyncBoundsAssumption DEF Init, TypeOK, Versions
<1>2. \A a \in Actors, s \in Subs : row[s].lock # a
  BY ActorsAssumption DEF Init, NoRow, Actors
<1> QED
  BY <1>1, <1>2, NothingTyped
  DEF Init, SyncInv, RefreshesNameRows, WritersLock, WritersSawOwner, AbsentIsEmpty

\* A refresh that ends without a commit gives up its lock, if it had one.
LEMMA GivesUp ==
  ASSUME SyncInv, NEW a \in Actors,
         task' = [task EXCEPT ![a] = NoTask], row' = Unlocked(a),
         UNCHANGED remote, pass' \in [Reconcilers -> Pass],
         done' \subseteq Subs \X Versions, faults' \in 0..MaxFaults
  PROVE  SyncInv'
<1>1. row' \in [Subs -> Row]
  BY DEF SyncInv, TypeOK, Unlocked, Row
<1>2. TypeOK'
  BY <1>1, NothingTyped DEF SyncInv, TypeOK
<1>3. \A s \in Subs :
        /\ row'[s].id = row[s].id /\ row'[s].owner = row[s].owner
        /\ row'[s].lock = IF row[s].lock = a THEN None ELSE row[s].lock
  BY DEF SyncInv, TypeOK, Unlocked, Row
<1>4. \A b \in Actors : task'[b] = IF b = a THEN NoTask ELSE task[b]
  BY DEF SyncInv, TypeOK
<1>5. RefreshesNameRows'
  BY <1>3, <1>4, NothingTyped DEF SyncInv, RefreshesNameRows
<1>6. WritersLock'
  BY <1>3, <1>4, NothingTyped, ActorsAssumption DEF SyncInv, WritersLock, Actors
<1>7. WritersSawOwner'
  BY <1>3, <1>4, NothingTyped DEF SyncInv, WritersSawOwner, RefreshesNameRows
<1>8. AbsentIsEmpty'
  <2> SUFFICES ASSUME NEW s \in Subs, row'[s].id = 0 PROVE row'[s] = NoRow
    BY DEF AbsentIsEmpty
  <2>1. row[s] = NoRow
    BY <1>3 DEF SyncInv, AbsentIsEmpty
  <2>2. row'[s] = [row[s] EXCEPT !.lock = IF @ = a THEN None ELSE @]
    BY DEF Unlocked
  <2> QED
    BY <2>1, <2>2 DEF NoRow
<1> QED
  BY <1>2, <1>5, <1>6, <1>7, <1>8 DEF SyncInv

\* Who is not writing has no lock to give up.
LEMMA NoLock ==
  ASSUME SyncInv, NEW a \in Actors, task[a].pc # "write"
  PROVE  row = Unlocked(a)
<1>1. \A s \in Subs : row[s].lock # a
  BY DEF SyncInv, WritersLock
<1>2. \A s \in Subs : [row[s] EXCEPT !.lock = IF @ = a THEN None ELSE @] = row[s]
  BY <1>1 DEF SyncInv, TypeOK, Row
<1> QED
  BY <1>2 DEF SyncInv, TypeOK, Unlocked

\* A refresh that is not writing moves to a step that does not write either.
LEMMA MovesOn ==
  ASSUME SyncInv, NEW a \in Actors, NEW t \in Task,
         task' = [task EXCEPT ![a] = t], UNCHANGED row,
         task[a].pc # "write", t.pc # "write", t.sub \in Subs,
         t.pc = "select" => row[t.sub].id # 0,
         remote' \in [Subs -> Versions], pass' \in [Reconcilers -> Pass],
         done' \subseteq Subs \X Versions, faults' \in 0..MaxFaults
  PROVE  SyncInv'
<1>1. TypeOK'
  BY DEF SyncInv, TypeOK
<1>2. \A b \in Actors : task'[b] = IF b = a THEN t ELSE task[b]
  BY DEF SyncInv, TypeOK
<1>3. RefreshesNameRows'
  BY <1>2 DEF SyncInv, RefreshesNameRows
<1>4. WritersLock'
  BY <1>2 DEF SyncInv, WritersLock
<1>5. WritersSawOwner' /\ AbsentIsEmpty'
  BY <1>2 DEF SyncInv, WritersSawOwner, AbsentIsEmpty
<1> QED
  BY <1>1, <1>3, <1>4, <1>5 DEF SyncInv

\* Only the pass, the provider or the counters move.
LEMMA Elsewhere ==
  ASSUME SyncInv, UNCHANGED <<row, task>>,
         remote' \in [Subs -> Versions], pass' \in [Reconcilers -> Pass],
         done' \subseteq Subs \X Versions, faults' \in 0..MaxFaults
  PROVE  SyncInv'
BY DEF SyncInv, TypeOK, RefreshesNameRows, WritersLock, WritersSawOwner, AbsentIsEmpty

LEMMA FaultTyped == ASSUME SyncInv, Fault PROVE faults' \in 0..MaxFaults
BY SyncBoundsAssumption DEF SyncInv, TypeOK, Fault

LEMMA FetchSafe ==
  ASSUME SyncInv, NEW a \in Actors, Fetch(a) PROVE SyncInv'
<1> USE FaultTyped
<1>1. task[a] \in Task /\ task[a].sub \in Subs
  BY DEF Fetch, SyncInv, TypeOK, RefreshesNameRows
<1>2. CASE task' = [task EXCEPT ![a].pc = "insert", ![a].version = remote[task[a].sub]] /\ UNCHANGED <<pass, faults>>
  <2> DEFINE t == [task[a] EXCEPT !.pc = "insert", !.version = remote[task[a].sub]]
  <2>1. t \in Task /\ t.pc = "insert" /\ t.sub = task[a].sub
    BY <1>1 DEF Task, SyncInv, TypeOK
  <2>2. task' = [task EXCEPT ![a] = t]
    BY <1>2
  <2> HIDE DEF t
  <2> QED
    BY <1>1, <1>2, <2>1, <2>2, MovesOn DEF Fetch, SyncInv, TypeOK
<1>3. CASE Fails(a) /\ faults' \in 0..MaxFaults
  BY <1>3, NoLock, GivesUp DEF Fetch, Fails, PassAfterError, SyncInv, TypeOK
<1> QED
  BY <1>2, <1>3 DEF Fetch, SyncInv, TypeOK

\* A record comes to be, unlocked and with the identity of its first refresh.
LEMMA InsertSafe ==
  ASSUME SyncInv, NEW a \in Actors, Insert(a) PROVE SyncInv'
<1> DEFINE s == task[a].sub
<1>1. task[a] \in Task /\ s \in Subs /\ task[a].pc = "insert"
  BY DEF Insert, SyncInv, TypeOK, RefreshesNameRows
<1>2. CASE row[s].id # 0
  <2> DEFINE t == [task[a] EXCEPT !.pc = "select"]
  <2>1. t \in Task /\ t.pc = "select" /\ t.sub = s
    BY <1>1 DEF Task
  <2>2. task' = [task EXCEPT ![a] = t]
    BY <1>2 DEF Insert
  <2> HIDE DEF t
  <2> QED
    BY <1>1, <1>2, <2>1, <2>2, MovesOn DEF Insert, SyncInv, TypeOK
<1>3. CASE row[s].id = 0
  <2> DEFINE new == [id |-> Cardinality(Stored) + 1, owner |-> task[a].owner,
                     version |-> task[a].version, lock |-> None]
  <2>1. new \in Row /\ new.id # 0 /\ new.lock = None
    BY <1>1, NextId DEF Row, Task
  <2>2. row' = [row EXCEPT ![s] = new] /\ Succeeds(a) /\ UNCHANGED remote
    BY <1>3 DEF Insert
  <2> HIDE DEF new
  <2>3. row[s] = NoRow
    BY <1>1, <1>3 DEF SyncInv, AbsentIsEmpty
  <2>4. /\ \A b \in Actors : task'[b] = IF b = a THEN NoTask ELSE task[b]
        /\ \A x \in Subs : row'[x] = IF x = s THEN new ELSE row[x]
    BY <1>1, <2>2 DEF Succeeds, SyncInv, TypeOK
  <2>5. done' \subseteq Subs \X Versions /\ faults' \in 0..MaxFaults
    BY <1>1, <2>2, FaultTyped DEF Succeeds, SyncInv, TypeOK, Task
  <2>6. TypeOK'
    BY <2>1, <2>2, <2>5, NothingTyped DEF Succeeds, SyncInv, TypeOK
  <2>7. RefreshesNameRows'
    BY <2>1, <2>4, NothingTyped DEF SyncInv, RefreshesNameRows
  <2>8. \A b \in Actors : ~(task[b].pc = "write" /\ task[b].sub = s)
    BY <1>1, <1>3 DEF SyncInv, RefreshesNameRows
  <2>9. \A b \in Actors : b # None
    BY ActorsAssumption DEF Actors
  <2>10. WritersLock'
    BY <1>1, <2>1, <2>4, <2>8, <2>9, NothingTyped DEF SyncInv, WritersLock
  <2>11. WritersSawOwner'
    BY <2>4, <2>8, NothingTyped DEF SyncInv, WritersSawOwner, RefreshesNameRows
  <2>12. AbsentIsEmpty'
    BY <2>1, <2>4 DEF SyncInv, AbsentIsEmpty
  <2> QED
    BY <2>6, <2>7, <2>10, <2>11, <2>12 DEF SyncInv
<1> QED
  BY <1>2, <1>3

\* The lock is taken only when it is free, and the owner read under it.
LEMMA SelectSafe ==
  ASSUME SyncInv, NEW a \in Actors, Select(a) PROVE SyncInv'
<1> DEFINE s == task[a].sub
           locked == [row[s] EXCEPT !.lock = a]
           t == [task[a] EXCEPT !.pc = "write", !.seen = row[s].owner]
<1>1. task[a] \in Task /\ s \in Subs /\ row[s] \in Row /\ row[s].id # 0 /\ row[s].lock = None
  BY DEF Select, SyncInv, TypeOK, RefreshesNameRows
<1>2. /\ locked \in Row /\ locked.lock = a
      /\ locked.owner = row[s].owner /\ locked.id = row[s].id
  BY <1>1 DEF Row
<1>3. t \in Task /\ t.pc = "write" /\ t.sub = s /\ t.seen = row[s].owner
  BY <1>1 DEF Task, Row
<1>4. row' = [row EXCEPT ![s] = locked] /\ task' = [task EXCEPT ![a] = t]
  BY DEF Select
<1>5. task[a].pc = "select" /\ UNCHANGED <<remote, pass, done, faults>>
  BY DEF Select
<1> HIDE DEF locked, t
<1>6. /\ \A b \in Actors : task'[b] = IF b = a THEN t ELSE task[b]
      /\ \A x \in Subs : row'[x] = IF x = s THEN locked ELSE row[x]
  BY <1>1, <1>4 DEF SyncInv, TypeOK
<1>7. \A b \in Actors : b # None /\ ~(task[b].pc = "write" /\ task[b].sub = s)
  BY <1>1, ActorsAssumption DEF SyncInv, WritersLock, Actors
<1>8. TypeOK'
  BY <1>1, <1>2, <1>3, <1>4, <1>5 DEF SyncInv, TypeOK
<1>9. RefreshesNameRows'
  BY <1>1, <1>2, <1>3, <1>6 DEF SyncInv, RefreshesNameRows
<1>10. WritersLock'
  BY <1>1, <1>2, <1>3, <1>5, <1>6, <1>7 DEF SyncInv, WritersLock
<1>11. WritersSawOwner'
  BY <1>1, <1>2, <1>3, <1>6, <1>7 DEF SyncInv, WritersSawOwner, RefreshesNameRows
<1>12. AbsentIsEmpty'
  BY <1>1, <1>2, <1>6 DEF SyncInv, AbsentIsEmpty
<1> QED
  BY <1>8, <1>9, <1>10, <1>11, <1>12 DEF SyncInv

\* What an update leaves in the row that its writer has locked.
LEMMA UpdateFacts ==
  ASSUME SyncInv, NEW a \in Actors, Update(a),
         NEW s, s = task[a].sub
  PROVE  /\ s \in Subs /\ task[a] \in Task /\ row[s].id # 0 /\ row[s].lock = a
         /\ task[a].seen = row[s].owner
         /\ row'[s] \in Row /\ row'[s].id = row[s].id /\ row'[s].lock = None
         /\ row'[s].owner = IF row[s].owner = Unowned THEN task[a].owner ELSE row[s].owner
         /\ row' = [row EXCEPT ![s] = row'[s]]
<1>1. s \in Subs /\ task[a] \in Task /\ row[s].id # 0 /\ row[s].lock = a /\ row[s] \in Row
  BY DEF Update, SyncInv, TypeOK, RefreshesNameRows, WritersLock
<1>2. task[a].seen = row[s].owner
  BY DEF Update, SyncInv, WritersSawOwner
<1> DEFINE new == [row[s] EXCEPT !.version = task[a].version, !.lock = None,
                                 !.owner = IF task[a].seen = Unowned THEN task[a].owner
                                           ELSE row[s].owner]
<1>3. row' = [row EXCEPT ![s] = new]
  BY DEF Update
<1>4. new \in Row /\ new.id = row[s].id /\ new.lock = None
      /\ new.owner = IF row[s].owner = Unowned THEN task[a].owner ELSE row[s].owner
  BY <1>1, <1>2 DEF Row, Task
<1>5. row'[s] = new
  BY <1>1, <1>3 DEF SyncInv, TypeOK
<1> QED
  BY <1>1, <1>2, <1>3, <1>4, <1>5

LEMMA UpdateSafe ==
  ASSUME SyncInv, NEW a \in Actors, Update(a) PROVE SyncInv'
<1> DEFINE s == task[a].sub
<1>1. /\ s \in Subs /\ task[a] \in Task /\ row[s].id # 0 /\ row[s].lock = a
      /\ row'[s] \in Row /\ row'[s].id = row[s].id /\ row'[s].lock = None
      /\ row' = [row EXCEPT ![s] = row'[s]]
  BY UpdateFacts
<1>2. Succeeds(a) /\ UNCHANGED remote /\ task[a].pc = "write"
  BY DEF Update
<1>3. /\ \A b \in Actors : task'[b] = IF b = a THEN NoTask ELSE task[b]
      /\ \A x \in Subs : x # s => row'[x] = row[x]
  BY <1>1, <1>2 DEF Succeeds, SyncInv, TypeOK
<1>4. done' \subseteq Subs \X Versions /\ faults' \in 0..MaxFaults
  BY <1>1, <1>2, FaultTyped DEF Succeeds, SyncInv, TypeOK, Task
<1>5. \A b \in Actors : b # None /\ (task[b].pc = "write" /\ task[b].sub = s => b = a)
  BY <1>1, ActorsAssumption DEF SyncInv, WritersLock, Actors
<1>6. TypeOK'
  <2>1. row' \in [Subs -> Row]
    BY <1>1 DEF SyncInv, TypeOK
  <2> QED
    BY <1>2, <1>4, <2>1, NothingTyped DEF Succeeds, SyncInv, TypeOK
<1>7. RefreshesNameRows'
  BY <1>1, <1>3, NothingTyped DEF SyncInv, RefreshesNameRows
<1>8. WritersLock'
  BY <1>1, <1>2, <1>3, <1>5, NothingTyped DEF SyncInv, WritersLock
<1>9. WritersSawOwner'
  BY <1>1, <1>3, <1>5, NothingTyped DEF SyncInv, WritersSawOwner, RefreshesNameRows
<1>10. AbsentIsEmpty'
  BY <1>1, <1>3 DEF SyncInv, AbsentIsEmpty
<1> QED
  BY <1>6, <1>7, <1>8, <1>9, <1>10 DEF SyncInv

LEMMA RejectSafe ==
  ASSUME SyncInv, NEW a \in Actors, Reject(a) PROVE SyncInv'
<1> DEFINE s == task[a].sub
<1>1. \A x \in Subs : row[x].lock = a <=> x = s
  BY DEF Reject, SyncInv, WritersLock
<1>2. \A x \in Subs : x # s => [row[x] EXCEPT !.lock = IF @ = a THEN None ELSE @] = row[x]
  BY <1>1 DEF SyncInv, TypeOK, Row
<1>3. s \in Subs => [row[s] EXCEPT !.lock = IF @ = a THEN None ELSE @] = [row[s] EXCEPT !.lock = None]
  BY <1>1
<1>4. row' = Unlocked(a)
  BY <1>2, <1>3 DEF Reject, SyncInv, TypeOK, Unlocked
<1> QED
  BY <1>4, GivesUp DEF Reject, Fails, PassAfterError, SyncInv, TypeOK

LEMMA FaultSafe ==
  ASSUME SyncInv, NEW a \in Actors, DbError(a) \/ Crash(a) PROVE SyncInv'
<1>1. faults' \in 0..MaxFaults
  BY FaultTyped DEF DbError, Crash
<1>2. pass' \in [Reconcilers -> Pass]
  BY NothingTyped DEF DbError, Crash, Fails, PassAfterError, SyncInv, TypeOK
<1> QED
  BY <1>1, <1>2, GivesUp DEF DbError, Crash, Fails, SyncInv, TypeOK

LEMMA StartSafe ==
  ASSUME SyncInv, NEW w \in Workers, NEW s \in Subs, NEW owner \in Owners,
         \/ StartFetch(w, s, owner)
         \/ \E v \in 1..MaxVersion : StartEvent(w, s, v, owner)
  PROVE  SyncInv'
<1>1. w \in Actors
  BY DEF Actors
<1>2. CASE StartFetch(w, s, owner)
  <2> DEFINE t == [NoTask EXCEPT !.pc = "fetch", !.sub = s, !.owner = owner]
  <2>1. t \in Task /\ t.pc = "fetch" /\ t.sub = s
    BY NothingTyped DEF Task, Owners
  <2>2. task' = [task EXCEPT ![w] = t] /\ task[w].pc = "idle"
        /\ UNCHANGED <<remote, row, pass, done, faults>>
    BY <1>2 DEF StartFetch
  <2> HIDE DEF t
  <2> QED
    BY <1>1, <2>1, <2>2, MovesOn DEF SyncInv, TypeOK
<1>3. CASE \E v \in 1..MaxVersion : StartEvent(w, s, v, owner)
  <2>1. PICK v \in 1..MaxVersion : StartEvent(w, s, v, owner)
    BY <1>3
  <2> DEFINE t == [NoTask EXCEPT !.pc = "insert", !.sub = s, !.owner = owner,
                                 !.version = v, !.event = TRUE]
  <2>2. t \in Task /\ t.pc = "insert" /\ t.sub = s
    <3>1. v \in Versions
      BY <2>1, SyncBoundsAssumption DEF Versions
    <3> QED
      BY <3>1, NothingTyped DEF Task
  <2>3. task' = [task EXCEPT ![w] = t] /\ task[w].pc = "idle"
        /\ UNCHANGED <<remote, row, pass, done, faults>>
    BY <2>1 DEF StartEvent
  <2> HIDE DEF t
  <2> QED
    BY <1>1, <2>2, <2>3, MovesOn DEF SyncInv, TypeOK
<1> QED
  BY <1>2, <1>3

LEMMA PageSafe ==
  ASSUME SyncInv, NEW r \in Reconcilers, Page(r) PROVE SyncInv'
<1>1. r \in Actors /\ pass[r] \in Pass
  BY DEF Actors, SyncInv, TypeOK
<1>2. CASE StartPass(r)
  <2>1. [NoPass EXCEPT !.pc = "list", !.due = Stored] \in Pass
    BY DEF NoPass, Pass, Stored
  <2> QED
    BY <1>2, <2>1, Elsewhere DEF StartPass, SyncInv, TypeOK
<1>3. CASE List(r)
  <2> DEFINE items == {[sub |-> s, id |-> row[s].id, owner |-> row[s].owner] : s \in Listed(r)}
  <2>1. items \subseteq Item
    <3> SUFFICES ASSUME NEW s \in Listed(r)
                 PROVE  [sub |-> s, id |-> row[s].id, owner |-> row[s].owner] \in Item
      OBVIOUS
    <3>1. s \in Subs
      BY DEF Listed, Later, Stored
    <3>2. row[s].id \in Nat /\ row[s].owner \in Owners
      BY <3>1 DEF SyncInv, TypeOK, Row
    <3> QED
      BY <3>1, <3>2 DEF Item
  <2>2. LastBatch(r) \in BOOLEAN
    BY DEF LastBatch
  <2> DEFINE p == [pass[r] EXCEPT !.pc = "items", !.last = LastBatch(r), !.batch = items]
  <2>3. p \in Pass
    BY <1>1, <2>1, <2>2 DEF Pass
  <2>4. pass' = [pass EXCEPT ![r] = p] \/ pass' = [pass EXCEPT ![r] = NoPass]
    BY <1>3 DEF List
  <2> HIDE DEF p
  <2>5. pass' \in [Reconcilers -> Pass]
    BY <2>3, <2>4, NothingTyped DEF SyncInv, TypeOK
  <2>6. faults' \in 0..MaxFaults
    BY <1>3, FaultTyped DEF List, SyncInv, TypeOK
  <2> QED
    BY <1>3, <2>5, <2>6, Elsewhere DEF List, SyncInv, TypeOK
<1>4. CASE Visit(r)
  <2>1. PICK item \in pass[r].batch :
          /\ pass' = [pass EXCEPT ![r].after = item.id, ![r].batch = @ \ {item},
                                  ![r].visited = @ \cup {item.sub}]
          /\ task' = [task EXCEPT ![r] = [NoTask EXCEPT !.pc = "fetch", !.sub = item.sub,
                                                        !.owner = item.owner]]
    BY <1>4 DEF Visit
  <2>2. item \in Item
    BY <1>1 DEF Pass
  <2> DEFINE p == [pass[r] EXCEPT !.after = item.id, !.batch = @ \ {item},
                                  !.visited = @ \cup {item.sub}]
             t == [NoTask EXCEPT !.pc = "fetch", !.sub = item.sub, !.owner = item.owner]
  <2>3. p \in Pass
    BY <1>1, <2>2 DEF Pass, Item
  <2>4. t \in Task /\ t.pc = "fetch" /\ t.sub \in Subs
    BY <2>2, NothingTyped DEF Task, Item
  <2>5. pass' = [pass EXCEPT ![r] = p] /\ task' = [task EXCEPT ![r] = t]
    BY <2>1
  <2> HIDE DEF p, t
  <2>6. pass' \in [Reconcilers -> Pass]
    BY <2>3, <2>5 DEF SyncInv, TypeOK
  <2> QED
    BY <1>1, <1>4, <2>4, <2>5, <2>6, MovesOn DEF Visit, SyncInv, TypeOK
<1>5. CASE EndBatch(r)
  <2>1. [pass[r] EXCEPT !.pc = "list"] \in Pass
    BY <1>1 DEF Pass
  <2>2. pass' \in [Reconcilers -> Pass]
    BY <1>5, <2>1, NothingTyped DEF EndBatch, SyncInv, TypeOK
  <2> QED
    BY <1>5, <2>2, Elsewhere DEF EndBatch, SyncInv, TypeOK
<1> QED
  BY <1>2, <1>3, <1>4, <1>5 DEF Page

LEMMA SyncStep == SyncInv /\ [Next]_vars => SyncInv'
<1> SUFFICES ASSUME SyncInv, [Next]_vars PROVE SyncInv'
  OBVIOUS
<1>1. ASSUME NEW s \in Subs, Change(s) PROVE SyncInv'
  <2>1. remote' \in [Subs -> Versions]
    BY <1>1, SyncBoundsAssumption DEF Change, SyncInv, TypeOK, Versions
  <2> QED
    BY <1>1, <2>1, Elsewhere DEF Change, SyncInv, TypeOK
<1>2. ASSUME NEW a \in Actors, Work(a) PROVE SyncInv'
  BY <1>2, FetchSafe, InsertSafe, SelectSafe, RejectSafe, UpdateSafe DEF Work
<1>3. CASE UNCHANGED vars
  BY <1>3, Elsewhere DEF vars, SyncInv, TypeOK
<1>4. \A s \in Subs : Claims[s] \subseteq Owners
  BY ClaimsAssumption DEF Owners
<1> QED
  BY <1>1, <1>2, <1>3, <1>4, StartSafe, PageSafe, FaultSafe DEF Next

\* The lock discipline of UpsertSubscription, and the types of the state.
THEOREM SyncInvariant == Spec => []SyncInv
BY SyncInit, SyncStep, PTL DEF Spec

-----------------------------------------------------------------------------
\* An actor's step changes the owner or the content of a record that is there
\* only by an update of it.
LEMMA OnlyUpdatesWrite ==
  ASSUME SyncInv, NEW s \in Subs, row[s].id # 0,
         row'[s].owner # row[s].owner \/ row'[s].version # row[s].version,
         NEW a \in Actors, Work(a) \/ DbError(a) \/ Crash(a)
  PROVE  Update(a) /\ task[a].sub = s
<1>1. CASE row' = Unlocked(a)
  BY <1>1 DEF Unlocked, SyncInv, TypeOK, Row
<1>2. CASE Insert(a)
  BY <1>2 DEF Insert, SyncInv, TypeOK
<1>3. CASE Select(a)
  BY <1>3 DEF Select, SyncInv, TypeOK, Row
<1>4. CASE Reject(a)
  BY <1>4 DEF Reject, SyncInv, TypeOK, Row
<1>5. CASE Update(a) /\ task[a].sub # s
  BY <1>5 DEF Update, SyncInv, TypeOK
<1>6. CASE Fetch(a)
  BY <1>6 DEF Fetch
<1> QED
  BY <1>1, <1>2, <1>3, <1>4, <1>5, <1>6 DEF Work, DbError, Crash

\* Every other step leaves the table and the inbox alone.
LEMMA TableWriters ==
  ASSUME [Next]_vars
  PROVE  UNCHANGED <<row, done>> \/ \E a \in Actors : Work(a) \/ DbError(a) \/ Crash(a)
<1>1. ASSUME NEW w \in Workers, NEW s \in Subs, NEW owner,
             \/ StartFetch(w, s, owner)
             \/ \E v \in 1..MaxVersion : StartEvent(w, s, v, owner)
      PROVE  UNCHANGED <<row, done>>
  BY <1>1 DEF StartFetch, StartEvent
<1>2. ASSUME NEW r \in Reconcilers, Page(r) PROVE UNCHANGED <<row, done>>
  BY <1>2 DEF Page, StartPass, List, Visit, EndBatch
<1>3. ASSUME NEW s \in Subs, Change(s) PROVE UNCHANGED <<row, done>>
  BY <1>3 DEF Change
<1> QED
  BY <1>1, <1>2, <1>3 DEF Next, vars

\* A subscription that has an owner keeps it, however the handlers and passes
\* that refresh it interleave.
THEOREM OwnerImmutableHolds == Spec => OwnerImmutable
<1> DEFINE Keeps == \A s \in Subs : row[s].owner # Unowned => row'[s].owner = row[s].owner
<1>1. ASSUME SyncInv, [Next]_vars, NEW s \in Subs, row[s].owner # Unowned
      PROVE  row'[s].owner = row[s].owner
  <2> SUFFICES ASSUME row'[s].owner # row[s].owner PROVE FALSE
    OBVIOUS
  <2>1. row[s].id # 0
    BY <1>1 DEF SyncInv, AbsentIsEmpty, NoRow
  <2>2. PICK a \in Actors : Work(a) \/ DbError(a) \/ Crash(a)
    BY <1>1, TableWriters
  <2>3. Update(a) /\ task[a].sub = s
    BY <1>1, <2>1, <2>2, OnlyUpdatesWrite
  <2> QED
    BY <1>1, <2>3, UpdateFacts
<1>2. SyncInv /\ [Next]_vars => [Keeps]_vars
  BY <1>1
<1> QED
  BY <1>2, SyncInvariant, PTL DEF OwnerImmutable, Spec

\* A refresh for another identity never changes what a subscription says.
THEOREM ForeignSnapshotRejectedHolds == Spec => ForeignSnapshotRejected
<1> DEFINE ForOwner(s) ==
             \E a \in Actors : /\ task[a].pc = "write" /\ task[a].sub = s
                               /\ task[a].owner \in {Unowned, row'[s].owner}
           Rejects == \A s \in Subs :
             row[s].id # 0 /\ row'[s].version # row[s].version => ForOwner(s)
<1>1. ASSUME SyncInv, [Next]_vars, NEW s \in Subs, row[s].id # 0,
             row'[s].version # row[s].version
      PROVE  ForOwner(s)
  <2>1. PICK a \in Actors : Work(a) \/ DbError(a) \/ Crash(a)
    BY <1>1, TableWriters
  <2>2. Update(a) /\ task[a].sub = s
    BY <1>1, <2>1, OnlyUpdatesWrite
  <2>3. /\ task[a].seen = row[s].owner
        /\ row'[s].owner = IF row[s].owner = Unowned THEN task[a].owner ELSE row[s].owner
    BY <1>1, <2>2, UpdateFacts
  <2>4. task[a].pc = "write" /\ ~Conflicting(a)
    BY <2>2 DEF Update
  <2> QED
    BY <2>2, <2>3, <2>4 DEF Conflicting
<1>2. SyncInv /\ [Next]_vars => [Rejects]_vars
  BY <1>1
<1> QED
  BY <1>2, SyncInvariant, PTL DEF ForeignSnapshotRejected, Spec

-----------------------------------------------------------------------------
\* A commit by a of row r, which stores what a brings for an identity that the
\* owner does not contradict.
LEMMA CommitImplements ==
  ASSUME SyncInv, NEW a \in Actors, NEW s \in Subs, s = task[a].sub, task[a] \in Task,
         NEW r \in Row, row' = [row EXCEPT ![s] = r], Succeeds(a),
         r.id # 0, r.version = task[a].version,
         r.owner = IF row[s].owner = Unowned THEN task[a].owner ELSE row[s].owner,
         Promise!Agree(row[s].owner, task[a].owner)
  PROVE  Promise!Next
<1>1. task[a].owner \in Promise!Owners /\ task[a].version \in 0..MaxVersion
  BY DEF Task, Owners, Promise!Owners, Versions
<1>2. /\ [x \in Subs |-> Content(x)][s].owner = row[s].owner
      /\ Content(s)' = [known |-> TRUE, owner |-> r.owner, version |-> r.version]
      /\ \A x \in Subs : x # s => Content(x)' = Content(x)
  BY DEF Content, SyncInv, TypeOK
<1>3. [x \in Subs |-> Content(x)]' =
        [[x \in Subs |-> Content(x)] EXCEPT ![s] =
           [known |-> TRUE, owner |-> r.owner, version |-> r.version]]
  BY <1>2
<1>4. done' \in {done, done \cup {<<s, task[a].version>>}}
  BY DEF Succeeds
<1>5. Promise!Upsert(s, task[a].owner, task[a].version)
  BY <1>2, <1>3, <1>4 DEF Promise!Upsert
<1> QED
  BY <1>1, <1>5 DEF Promise!Next

\* A step that leaves owners, contents and results of events as they are.
LEMMA OtherwiseStutters ==
  ASSUME UNCHANGED done,
         \A s \in Subs : /\ row'[s].id = row[s].id /\ row'[s].owner = row[s].owner
                         /\ row'[s].version = row[s].version
  PROVE  UNCHANGED Promise!vars
<1>1. \A s \in Subs : Content(s)' = Content(s)
  BY DEF Content
<1>2. [s \in Subs |-> Content(s)]' = [s \in Subs |-> Content(s)]
  BY <1>1
<1> QED
  BY <1>2 DEF Promise!vars

\* Of the statements of UpsertSubscription one is the step, the others stutter.
LEMMA WorkImplements ==
  ASSUME SyncInv, NEW a \in Actors, Work(a) \/ DbError(a) \/ Crash(a)
  PROVE  Promise!Next \/ UNCHANGED Promise!vars
<1> DEFINE s == task[a].sub
<1>1. CASE Insert(a) /\ row[s].id = 0
  <2> DEFINE new == [id |-> Cardinality(Stored) + 1, owner |-> task[a].owner,
                     version |-> task[a].version, lock |-> None]
  <2>1. s \in Subs /\ task[a] \in Task /\ row[s] = NoRow
    BY <1>1 DEF Insert, SyncInv, TypeOK, RefreshesNameRows, AbsentIsEmpty
  <2>2. new \in Row /\ new.id # 0
    BY <2>1, NextId DEF Row, Task
  <2>3. row' = [row EXCEPT ![s] = new] /\ Succeeds(a)
    BY <1>1 DEF Insert
  <2>4. /\ new.owner = IF row[s].owner = Unowned THEN task[a].owner ELSE row[s].owner
        /\ new.version = task[a].version
        /\ Promise!Agree(row[s].owner, task[a].owner)
    BY <2>1 DEF NoRow, Promise!Agree
  <2> HIDE DEF new
  <2> QED
    BY <2>1, <2>2, <2>3, <2>4, CommitImplements
<1>2. CASE Update(a)
  <2>1. /\ s \in Subs /\ task[a] \in Task /\ row[s].id # 0 /\ task[a].seen = row[s].owner
        /\ row'[s] \in Row /\ row'[s].id = row[s].id
        /\ row'[s].owner = IF row[s].owner = Unowned THEN task[a].owner ELSE row[s].owner
        /\ row' = [row EXCEPT ![s] = row'[s]]
    BY <1>2, UpdateFacts
  <2>2. row'[s].version = task[a].version /\ Succeeds(a)
    BY <1>2, <2>1 DEF Update, SyncInv, TypeOK, Row
  <2>3. Promise!Agree(row[s].owner, task[a].owner)
    BY <1>2, <2>1 DEF Update, Conflicting, Promise!Agree
  <2> HIDE DEF s
  <2> QED
    BY <2>1, <2>2, <2>3, CommitImplements DEF s
<1>3. CASE row' = Unlocked(a) /\ UNCHANGED done
  <2>1. \A x \in Subs : /\ row'[x].id = row[x].id /\ row'[x].owner = row[x].owner
                        /\ row'[x].version = row[x].version
    BY <1>3 DEF Unlocked, SyncInv, TypeOK, Row
  <2> QED
    BY <1>3, <2>1, OtherwiseStutters
<1>4. CASE UNCHANGED <<row, done>>
  BY <1>4, OtherwiseStutters
<1>5. CASE Select(a) \/ Reject(a)
  <2>1. \A x \in Subs : /\ row'[x].id = row[x].id /\ row'[x].owner = row[x].owner
                        /\ row'[x].version = row[x].version
    BY <1>5 DEF Select, Reject, SyncInv, TypeOK, Row
  <2> QED
    BY <1>5, <2>1, OtherwiseStutters DEF Select, Reject
<1> QED
  BY <1>1, <1>2, <1>3, <1>4, <1>5 DEF Work, Insert, Fetch, DbError, Crash

\* ImplementsSubscriptionRecord: the statements of UpsertSubscription, with row
\* locks, refusals, faults and any number of refreshes at once, are one atomic
\* step.
THEOREM SyncImplementsRecord == Spec => ImplementsSubscriptionRecord
<1>1. ASSUME Init PROVE Promise!Init
  <2>1. \A s \in Subs : /\ (row[s].id # 0) = FALSE
                        /\ row[s].owner = Unowned /\ row[s].version = 0
    BY <1>1 DEF Init, NoRow
  <2>2. \A s \in Subs : Content(s) = [known |-> FALSE, owner |-> Unowned, version |-> 0]
    BY <2>1 DEF Content
  <2> QED
    BY <1>1, <2>2 DEF Init, Promise!Init
<1>2. SyncInv /\ [Next]_vars => [Promise!Next]_Promise!vars
  <2> SUFFICES ASSUME SyncInv, [Next]_vars PROVE [Promise!Next]_Promise!vars
    OBVIOUS
  <2>1. CASE UNCHANGED <<row, done>>
    BY <2>1, OtherwiseStutters
  <2>2. CASE \E a \in Actors : Work(a) \/ DbError(a) \/ Crash(a)
    BY <2>2, WorkImplements
  <2> QED
    BY <2>1, <2>2, TableWriters
<1> QED
  BY <1>1, <1>2, SyncInvariant, PTL DEF Spec, ImplementsSubscriptionRecord, Promise!Spec
-----------------------------------------------------------------------------
\* A set of records that is not empty has one with the least primary key: the
\* one that has the fewest records before it.
LEMMA LeastId ==
  ASSUME TypeOK, NEW S \in SUBSET Subs, S # {}
  PROVE  \E s \in S : \A t \in S : row[s].id <= row[t].id
<1> DEFINE Before(s) == {t \in Subs : row[t].id < row[s].id}
           befores == {Before(s) : s \in S}
<1>1. befores \subseteq SUBSET Subs /\ befores # {}
  OBVIOUS
<1>2. IsWellFoundedOn(StrictSubsetOrdering(Subs), SUBSET Subs)
  BY SubsAssumption, FS_StrictSubsetOrderingWellFounded, FS_FiniteSubsetsOfFinite
<1> HIDE DEF befores
<1>3. PICK B \in befores : \A C \in befores : <<C, B>> \notin StrictSubsetOrdering(Subs)
  BY <1>1, <1>2, WFMin
<1>4. PICK s \in S : B = Before(s)
  BY DEF befores
<1>5. ASSUME NEW t \in S, ~(row[s].id <= row[t].id) PROVE FALSE
  <2>1. row[t].id < row[s].id /\ row[t].id \in Nat /\ row[s].id \in Nat
    BY <1>5 DEF TypeOK, Row
  <2>2. Before(t) \subseteq Before(s)
    BY <2>1 DEF TypeOK, Row
  <2>3. t \in Before(s) /\ t \notin Before(t)
    BY <2>1
  <2>4. Before(t) \in befores
    BY DEF befores
  <2> QED
    BY <1>1, <1>3, <1>4, <2>2, <2>3, <2>4 DEF StrictSubsetOrdering
<1> QED
  BY <1>5

\* A query reads what comes next in the order of the keys ...
LEMMA ListedBeforeTheRest ==
  ASSUME SyncInv, NEW r \in Reconcilers, NEW s \in Later(r) \ Listed(r), NEW t \in Listed(r)
  PROVE  row[t].id < row[s].id
<1> DEFINE Before(x) == {y \in Later(r) : row[y].id < row[x].id}
<1>1. s \in Subs /\ t \in Subs
  BY DEF Listed, Later, Stored
<1>2. row[s].id \in Nat /\ row[t].id \in Nat
  BY <1>1 DEF SyncInv, TypeOK, Row
<1>3. SUFFICES ASSUME row[s].id <= row[t].id PROVE FALSE
  BY <1>2
<1>4. Before(s) \subseteq Before(t) /\ Before(t) \subseteq Subs
  BY <1>2, <1>3 DEF Later, Stored, SyncInv, TypeOK, Row
<1>5. IsFiniteSet(Before(t))
  BY <1>4, SubsAssumption, FS_Subset
<1>6. Cardinality(Before(s)) <= Cardinality(Before(t))
  BY <1>4, <1>5, FS_Subset
<1>7. Cardinality(Before(s)) \in Nat /\ Cardinality(Before(t)) \in Nat
  BY <1>4, <1>5, FS_Subset, FS_CardinalityType
<1>8. ~(Cardinality(Before(s)) < BatchSize) /\ Cardinality(Before(t)) < BatchSize
  BY DEF Listed
<1> QED
  BY <1>6, <1>7, <1>8, SyncBoundsAssumption

\* ... and when it reads fewer rows than it may, it has read them all.
LEMMA LastBatchIsTheRest ==
  ASSUME SyncInv, NEW r \in Reconcilers, LastBatch(r)
  PROVE  Later(r) = Listed(r)
<1> DEFINE Rest == Later(r) \ Listed(r)
<1> SUFFICES ASSUME Rest # {} PROVE FALSE
  BY DEF Listed
<1>1. Rest \in SUBSET Subs
  BY DEF Later, Stored
<1>2. PICK s \in Rest : \A t \in Rest : row[s].id <= row[t].id
  BY <1>1, LeastId DEF SyncInv
<1> DEFINE Before == {t \in Later(r) : row[t].id < row[s].id}
<1>3. Before \subseteq Listed(r)
  <2> SUFFICES ASSUME NEW t \in Before, t \notin Listed(r) PROVE FALSE
    OBVIOUS
  <2>1. row[s].id <= row[t].id
    BY <1>2
  <2>2. row[t].id < row[s].id /\ row[s].id \in Nat /\ row[t].id \in Nat
    BY <1>1 DEF Later, Stored, SyncInv, TypeOK, Row
  <2> QED
    BY <2>1, <2>2
<1>4. IsFiniteSet(Listed(r))
  <2>1. Listed(r) \in SUBSET Subs
    BY DEF Listed, Later, Stored
  <2> QED
    BY <2>1, SubsAssumption, FS_Subset
<1>5. Cardinality(Before) <= Cardinality(Listed(r)) /\ IsFiniteSet(Before)
  BY <1>3, <1>4, FS_Subset
<1>6. Cardinality(Before) \in Nat /\ Cardinality(Listed(r)) \in Nat
  BY <1>4, <1>5, FS_CardinalityType
<1>7. Cardinality(Before) < BatchSize
  BY <1>5, <1>6, SyncBoundsAssumption DEF LastBatch
<1> QED
  BY <1>2, <1>7 DEF Listed

\* Records keep their primary key for good.
LEMMA KeysStay ==
  ASSUME SyncInv, [Next]_vars, NEW s \in Stored
  PROVE  s \in Subs /\ row'[s].id = row[s].id /\ s \in Stored'
<1>1. s \in Subs /\ row[s].id # 0
  BY DEF Stored
<1>2. ASSUME NEW a \in Actors, Work(a) \/ DbError(a) \/ Crash(a)
      PROVE  row'[s].id = row[s].id
  <2>1. CASE row' = Unlocked(a)
    BY <1>1, <2>1 DEF Unlocked, SyncInv, TypeOK, Row
  <2>2. CASE Fetch(a) \/ Insert(a)
    BY <1>1, <2>2 DEF Fetch, Insert, SyncInv, TypeOK
  <2>3. CASE Select(a)
    BY <1>1, <2>3 DEF Select, SyncInv, TypeOK, Row
  <2>4. CASE Reject(a)
    BY <1>1, <2>4 DEF Reject, SyncInv, TypeOK, Row
  <2>5. CASE Update(a)
    BY <1>1, <2>5 DEF Update, SyncInv, TypeOK, Row
  <2> QED
    BY <1>2, <2>1, <2>2, <2>3, <2>4, <2>5 DEF Work, DbError, Crash
<1>3. row'[s].id = row[s].id
  BY <1>2, TableWriters
<1> QED
  BY <1>1, <1>3 DEF Stored

\* A pass moves by its own steps, and ends when it crashes.
LEMMA PassMovers ==
  ASSUME SyncInv, [Next]_vars, NEW r \in Reconcilers
  PROVE  pass'[r] = pass[r] \/ (pass'[r] = NoPass /\ Crash(r)) \/ Page(r)
<1>1. ASSUME NEW a \in Actors, Work(a) \/ DbError(a) PROVE pass'[r] = pass[r]
  BY <1>1 DEF Work, Fetch, Insert, Select, Reject, Update, DbError, Fails, Succeeds, PassAfterError
<1>2. ASSUME NEW a \in Actors, Crash(a)
      PROVE  pass'[r] = pass[r] \/ (pass'[r] = NoPass /\ Crash(r))
  BY <1>2 DEF Crash, SyncInv, TypeOK
<1>3. ASSUME NEW q \in Reconcilers, Page(q), q # r PROVE pass'[r] = pass[r]
  BY <1>3 DEF Page, StartPass, List, Visit, EndBatch, SyncInv, TypeOK
<1>4. ASSUME NEW w \in Workers, NEW s \in Subs, NEW owner,
             \/ StartFetch(w, s, owner)
             \/ \E v \in 1..MaxVersion : StartEvent(w, s, v, owner)
      PROVE  pass'[r] = pass[r]
  BY <1>4 DEF StartFetch, StartEvent
<1>5. ASSUME NEW s \in Subs, Change(s) PROVE pass'[r] = pass[r]
  BY <1>5 DEF Change
<1> QED
  BY <1>1, <1>2, <1>3, <1>4, <1>5 DEF Next, vars

\* What a pass covers is not disturbed by those who refresh the records or
\* insert new ones meanwhile.
LEMMA CoversUndisturbed ==
  ASSUME SyncInv, [Next]_vars, NEW r \in Reconcilers, Covers(r), pass'[r] = pass[r]
  PROVE  Covers(r)'
<1>1. \A s \in pass[r].due : row'[s].id = row[s].id /\ s \in Stored'
  BY KeysStay DEF Covers
<1> QED
  BY <1>1 DEF Covers, Waiting, Behind

LEMMA PageCovers ==
  ASSUME SyncInv, [Next]_vars, NEW r \in Reconcilers, Covers(r), Page(r)
  PROVE  Covers(r)'
<1>1. pass[r] \in Pass /\ pass' \in [Reconcilers -> Pass]
  BY SyncStep DEF SyncInv, TypeOK
<1>2. UNCHANGED row /\ Stored' = Stored
  BY DEF Page, StartPass, List, Visit, EndBatch, Stored
<1>3. \A s \in Stored : s \in Subs /\ row[s].id \in Nat /\ row[s].id > 0
  BY DEF Stored, SyncInv, TypeOK, Row
<1>4. CASE pass'[r] = NoPass
  BY <1>2, <1>4 DEF Covers, NoPass
<1>5. CASE StartPass(r)
  <2>1. pass'[r] = [NoPass EXCEPT !.pc = "list", !.due = Stored]
    BY <1>5 DEF StartPass, SyncInv, TypeOK
  <2> QED
    BY <1>2, <1>3, <2>1 DEF Covers, NoPass
<1>6. CASE List(r) /\ pass'[r] # NoPass
  <2> DEFINE items == {[sub |-> s, id |-> row[s].id, owner |-> row[s].owner] : s \in Listed(r)}
  <2>1. pass'[r] = [pass[r] EXCEPT !.pc = "items", !.last = LastBatch(r), !.batch = items]
        /\ pass[r].pc = "list"
    BY <1>6 DEF List, SyncInv, TypeOK
  <2>2. /\ pass'[r].due = pass[r].due /\ pass'[r].visited = pass[r].visited
        /\ pass'[r].after = pass[r].after /\ pass'[r].pc = "items"
        /\ pass'[r].last = LastBatch(r) /\ pass'[r].batch = items
    BY <1>1, <2>1 DEF Pass
  <2>3. ASSUME NEW s \in pass[r].due \ pass[r].visited
        PROVE  Waiting(r, s)' \/ (~pass'[r].last /\ Behind(r, s)')
    <3>1. s \in Later(r) /\ row[s].id > pass[r].after
      BY <2>1, <2>3 DEF Covers, Later
    <3>2. CASE s \in Listed(r)
      <4>1. [sub |-> s, id |-> row[s].id, owner |-> row[s].owner] \in items
        BY <3>2
      <4> QED
        BY <2>2, <4>1 DEF Waiting
    <3>3. CASE s \notin Listed(r)
      <4>1. ~LastBatch(r)
        BY <3>1, <3>3, LastBatchIsTheRest
      <4>2. \A t \in Listed(r) : row[t].id < row[s].id
        BY <3>1, <3>3, ListedBeforeTheRest
      <4> QED
        BY <1>2, <2>2, <3>1, <4>1, <4>2 DEF Behind
    <3> QED
      BY <3>2, <3>3
  <2> HIDE DEF items
  <2> QED
    BY <1>2, <2>2, <2>3 DEF Covers
<1>7. CASE Visit(r)
  <2>1. PICK item \in pass[r].batch :
          pass' = [pass EXCEPT ![r].after = item.id, ![r].batch = @ \ {item},
                               ![r].visited = @ \cup {item.sub}]
    BY <1>7 DEF Visit
  <2>2. pass[r].pc = "items"
    BY <1>7 DEF Visit
  <2>3. /\ pass'[r].due = pass[r].due /\ pass'[r].visited = pass[r].visited \cup {item.sub}
        /\ pass'[r].after = item.id /\ pass'[r].pc = "items"
        /\ pass'[r].last = pass[r].last /\ pass'[r].batch = pass[r].batch \ {item}
    BY <1>1, <2>1, <2>2 DEF SyncInv, TypeOK, Pass
  <2>4. ASSUME NEW s \in pass[r].due \ (pass[r].visited \cup {item.sub})
        PROVE  Waiting(r, s)' \/ (~pass'[r].last /\ Behind(r, s)')
    <3>1. CASE Waiting(r, s)
      BY <2>3, <2>4, <3>1 DEF Waiting
    <3>2. CASE ~pass[r].last /\ Behind(r, s)
      <4>1. item.id \in Nat /\ row[s].id > item.id
        BY <1>1, <1>3, <2>4, <3>2 DEF Behind, Pass, Item, Covers
      <4> QED
        BY <1>2, <2>3, <3>2, <4>1 DEF Behind
    <3> QED
      BY <2>2, <2>4, <3>1, <3>2 DEF Covers
  <2> QED
    BY <1>2, <2>3, <2>4 DEF Covers
<1>8. CASE EndBatch(r) /\ pass'[r] # NoPass
  <2>1. /\ pass'[r] = [pass[r] EXCEPT !.pc = "list"] /\ pass[r].pc = "items"
        /\ pass[r].batch = {}
    BY <1>8 DEF EndBatch, SyncInv, TypeOK
  <2>2. /\ pass'[r].due = pass[r].due /\ pass'[r].visited = pass[r].visited
        /\ pass'[r].after = pass[r].after /\ pass'[r].pc = "list"
    BY <1>1, <2>1 DEF Pass
  <2> QED
    BY <1>2, <2>1, <2>2 DEF Covers, Waiting, Behind
<1> QED
  BY <1>4, <1>5, <1>6, <1>7, <1>8 DEF Page

\* Nothing that a pass owes a visit is lost between its batches.
THEOREM NothingSkipped == Spec => []PassesCover
<1>1. Init => PassesCover
  BY DEF Init, PassesCover, Covers, NoPass
<1>2. SyncInv /\ PassesCover /\ [Next]_vars => PassesCover'
  <2> SUFFICES ASSUME SyncInv, PassesCover, [Next]_vars, NEW r \in Reconcilers
               PROVE  Covers(r)'
    BY DEF PassesCover
  <2>1. Covers(r)
    BY DEF PassesCover
  <2>2. CASE pass'[r] = NoPass
    BY <2>2 DEF Covers, NoPass
  <2> QED
    BY <2>1, <2>2, PassMovers, CoversUndisturbed, PageCovers
<1> QED
  BY <1>1, <1>2, SyncInvariant, PTL DEF Spec

\* A pass ends by itself only when it has visited every row there was when it
\* began: refreshes that fail, rows inserted meanwhile and the size of the
\* batches make no difference.
THEOREM PassCompleteHolds == Spec => PassComplete
<1> DEFINE Complete == \A r \in Reconcilers : Ends(r) => pass[r].due \subseteq pass[r].visited
<1>1. ASSUME SyncInv, PassesCover, [Next]_vars, NEW r \in Reconcilers, Ends(r)
      PROVE  pass[r].due \subseteq pass[r].visited
  <2>1. Covers(r) /\ pass[r].pc = "items" /\ pass[r].batch = {} /\ task[r].pc = "idle"
        /\ pass'[r].pc = "idle"
    BY <1>1 DEF PassesCover, Ends
  <2>2. EndBatch(r)
    BY <1>1, <2>1, PassMovers DEF Crash, Page, StartPass, List, Visit
  <2>3. pass[r].last
    <3>1. SUFFICES ASSUME ~pass[r].last PROVE FALSE
      OBVIOUS
    <3>2. pass'[r].pc = "list"
      <4>1. pass[r] \in Pass /\ pass'[r] = [pass[r] EXCEPT !.pc = "list"]
        BY <1>1, <2>2, <3>1 DEF EndBatch, SyncInv, TypeOK
      <4> QED
        BY <4>1 DEF Pass
    <3> QED
      BY <2>1, <3>2
  <2> QED
    BY <2>1, <2>3 DEF Covers, Waiting
<1>2. SyncInv /\ PassesCover /\ [Next]_vars => [Complete]_vars
  BY <1>1
<1> QED
  BY <1>2, SyncInvariant, NothingSkipped, PTL DEF PassComplete, Spec
=============================================================================

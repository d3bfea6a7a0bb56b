--------------------------- MODULE SubscriptionSync ---------------------------
(***************************************************************************)
(* The payment_subscriptions table and everything that refreshes it: the   *)
(* subscription webhooks, which carry a snapshot as old as the event; the  *)
(* checkout, invoice and store-purchase handlers, which ask the provider   *)
(* for the present state first; and Reconcile, which pages through the     *)
(* table and asks for every row.  All of them end in UpsertSubscription,   *)
(* whose statements interleave.                                            *)
(*                                                                         *)
(* What a subscription says (plan, status, period, cancellation) is a      *)
(* version number: the provider's versions grow, a snapshot is one of them.*)
(***************************************************************************)
EXTENDS Integers, FiniteSets

CONSTANTS
  Subs,         \* (provider, external subscription id) pairs
  Gone,         \* those the provider answers with an error, for good
  Identities,   \* identities of the application
  Unowned,      \* identity_id = ''
  Claims,       \* Claims[s]: the identities a refresh of s may be for
  Workers,      \* webhook and store-purchase handlers
  Reconcilers,  \* background and administrator's reconciliation passes
  None,         \* no lock, no subscription
  BatchSize,    \* batchSize of Reconcile
  MaxVersion,   \* bound: changes of one subscription at its provider, one if it
                \* is gone: what it says is never retrieved
  MaxFaults     \* bound: faults of the environment in one behaviour

ASSUME SubsAssumption == IsFiniteSet(Subs) /\ None \notin Subs /\ Gone \subseteq Subs
ASSUME IdentityAssumption == Unowned \notin Identities
ASSUME ClaimsAssumption == \A s \in Subs : Claims[s] \subseteq Identities \cup {Unowned}
ASSUME ActorsAssumption == Workers \cap Reconcilers = {} /\ None \notin Workers \cup Reconcilers
ASSUME SyncBoundsAssumption == BatchSize \in Nat \ {0} /\ MaxVersion \in Nat /\ MaxFaults \in Nat

VARIABLES
  remote,  \* remote[s]: version of s at the provider, 0 before it exists
  row,     \* row[s]: the payment_subscriptions record of s
  task,    \* task[a]: the refresh that actor a is carrying out
  pass,    \* pass[r]: where reconciler r is in the table
  done,    \* <<s, v>>: the events that are SUCCEEDED in the webhook inbox
  faults

vars == <<remote, row, task, pass, done, faults>>

-----------------------------------------------------------------------------
Actors == Workers \cup Reconcilers
Owners == Identities \cup {Unowned}
Versions == 0..MaxVersion

Row == [id : Nat,                     \* primary key, 0: no such record
        owner : Owners,
        version : Versions,
        lock : Actors \cup {None}]    \* SELECT ... FOR UPDATE
NoRow == [id |-> 0, owner |-> Unowned, version |-> 0, lock |-> None]

Task == [pc : {"idle", "fetch", "insert", "select", "write"},
         sub : Subs \cup {None},
         owner : Owners,              \* identity the refresh is for
         version : Versions,          \* the snapshot it brings
         seen : Owners,               \* existing.IdentityID
         event : BOOLEAN]             \* it carries a subscription event
NoTask == [pc |-> "idle", sub |-> None, owner |-> Unowned, version |-> 0,
           seen |-> Unowned, event |-> FALSE]

Item == [sub : Subs, id : Nat, owner : Owners]
Pass == [pc : {"idle", "list", "items"},
         after : Nat,                 \* afterID
         batch : SUBSET Item,         \* items not visited yet
         last : BOOLEAN,              \* len(items) < batchSize
         due : SUBSET Subs,           \* rows there were when the pass began
         visited : SUBSET Subs]       \* rows the pass has refreshed or tried to
NoPass == [pc |-> "idle", after |-> 0, batch |-> {}, last |-> FALSE,
           due |-> {}, visited |-> {}]

TypeOK ==
  /\ remote \in [Subs -> Versions]
  /\ row \in [Subs -> Row]
  /\ task \in [Actors -> Task]
  /\ pass \in [Reconcilers -> Pass]
  /\ done \subseteq Subs \X Versions
  /\ faults \in 0..MaxFaults

Init ==
  /\ remote = [s \in Subs |-> 0]
  /\ row = [s \in Subs |-> NoRow]
  /\ task = [a \in Actors |-> NoTask]
  /\ pass = [r \in Reconcilers |-> NoPass]
  /\ done = {}
  /\ faults = 0

Fault == faults < MaxFaults /\ faults' = faults + 1
Stored == {s \in Subs : row[s].id # 0}

\* A refresh returns an error.  Reconcile notes it and goes on with the next
\* item; a webhook stays FAILED and comes again.
PassOverAfterError(a) == IF a \in Reconcilers THEN [pass EXCEPT ![a] = NoPass] ELSE pass
PassAfterError(a) == pass
Fails(a) ==
  /\ task' = [task EXCEPT ![a] = NoTask]
  /\ pass' = PassAfterError(a)

\* A refresh has written the row and returns nil, and FinishWebhook records its
\* event as SUCCEEDED; unless a later statement of the handler fails.
Succeeds(a) ==
  /\ task' = [task EXCEPT ![a] = NoTask]
  /\ \/ /\ done' = IF task[a].event THEN done \cup {<<task[a].sub, task[a].version>>} ELSE done
        /\ UNCHANGED faults
     \/ task[a].event /\ Fault /\ UNCHANGED done
  /\ UNCHANGED pass

-----------------------------------------------------------------------------
\* The subscription is created, renewed, changed or canceled at the provider.
Change(s) ==
  /\ remote[s] < MaxVersion /\ (s \in Gone => remote[s] = 0)
  /\ remote' = [remote EXCEPT ![s] = @ + 1]
  /\ UNCHANGED <<row, task, pass, done, faults>>

\* customer.subscription.updated and deleted, and Apple's notifications: the
\* event's own snapshot is written.  Events come in any order, and again until
\* they have succeeded; the identity is the one the provider's data name, which
\* may be missing or another one.
StartEvent(w, s, v, owner) ==
  /\ task[w].pc = "idle"
  /\ v <= remote[s] /\ <<s, v>> \notin done
  /\ task' = [task EXCEPT ![w] = [NoTask EXCEPT !.pc = "insert", !.sub = s, !.owner = owner,
                                                !.version = v, !.event = TRUE]]
  /\ UNCHANGED <<remote, row, pass, done, faults>>

\* A paid checkout, an invoice, a store purchase or an RTDN: the subscription is
\* retrieved from the provider and then written.
StartFetch(w, s, owner) ==
  /\ task[w].pc = "idle"
  /\ remote[s] > 0
  /\ task' = [task EXCEPT ![w] = [NoTask EXCEPT !.pc = "fetch", !.sub = s, !.owner = owner]]
  /\ UNCHANGED <<remote, row, pass, done, faults>>

\* Subscriptions.Retrieve, Subscriptionsv2.Get.
Fetch(a) ==
  LET s == task[a].sub IN
  /\ task[a].pc = "fetch"
  /\ \/ /\ s \notin Gone
        /\ task' = [task EXCEPT ![a].pc = "insert", ![a].version = remote[s]]
        /\ UNCHANGED <<pass, faults>>
     \/ s \in Gone /\ Fails(a) /\ UNCHANGED faults
     \/ s \notin Gone /\ Fails(a) /\ Fault
  /\ UNCHANGED <<remote, row, done>>

-----------------------------------------------------------------------------
(* UpsertSubscription.                                                      *)

\* INSERT ... ON CONFLICT DO NOTHING, with the next primary key.
Insert(a) ==
  LET s == task[a].sub IN
  /\ task[a].pc = "insert"
  /\ \/ /\ row[s].id = 0
        /\ row' = [row EXCEPT ![s] = [id |-> Cardinality(Stored) + 1, owner |-> task[a].owner,
                                      version |-> task[a].version, lock |-> None]]
        /\ Succeeds(a)
     \/ /\ row[s].id # 0
        /\ task' = [task EXCEPT ![a].pc = "select"]
        /\ UNCHANGED <<row, pass, done, faults>>
  /\ UNCHANGED remote

\* SELECT ... FOR UPDATE, inside the transaction.
SelectUnlocked(a) ==
  LET s == task[a].sub IN
  /\ task[a].pc = "select"
  /\ task' = [task EXCEPT ![a].pc = "write", ![a].seen = row[s].owner]
  /\ UNCHANGED <<remote, row, pass, done, faults>>
Select(a) ==
  LET s == task[a].sub IN
  /\ task[a].pc = "select"
  /\ row[s].lock = None
  /\ row' = [row EXCEPT ![s].lock = a]
  /\ task' = [task EXCEPT ![a].pc = "write", ![a].seen = row[s].owner]
  /\ UNCHANGED <<remote, pass, done, faults>>

\* Two identities, both known, that differ.
ConflictingNever(a) == FALSE
Conflicting(a) ==
  /\ task[a].seen # Unowned /\ task[a].owner # Unowned
  /\ task[a].seen # task[a].owner

\* ErrPaymentOwnershipConflict rolls the transaction back.
Reject(a) ==
  /\ task[a].pc = "write"
  /\ Conflicting(a)
  /\ row' = [row EXCEPT ![task[a].sub].lock = None]
  /\ Fails(a)
  /\ UNCHANGED <<remote, done, faults>>

\* UPDATE and COMMIT: the snapshot replaces what is stored, whatever its age;
\* identity_id is filled in when it was empty.
Update(a) ==
  LET s == task[a].sub IN
  /\ task[a].pc = "write"
  /\ ~Conflicting(a)
  /\ row' = [row EXCEPT ![s].version = task[a].version, ![s].lock = None,
                        ![s].owner = IF task[a].seen = Unowned THEN task[a].owner ELSE @]
  /\ Succeeds(a)
  /\ UNCHANGED remote

Unlocked(a) == [s \in Subs |-> [row[s] EXCEPT !.lock = IF @ = a THEN None ELSE @]]

\* A statement fails; an open transaction is rolled back.
DbError(a) ==
  /\ task[a].pc \in {"insert", "select", "write"}
  /\ row' = Unlocked(a)
  /\ Fails(a)
  /\ Fault
  /\ UNCHANGED <<remote, done>>

-----------------------------------------------------------------------------
(* Reconcile.                                                               *)

StartPass(r) ==
  /\ pass[r].pc = "idle"
  /\ pass' = [pass EXCEPT ![r] = [NoPass EXCEPT !.pc = "list", !.due = Stored]]
  /\ UNCHANGED <<remote, row, task, done, faults>>

\* ListSubscriptionsAfter: the next BatchSize rows in the order of their ids.
Later(r) == {s \in Stored : row[s].id > pass[r].after}
Listed(r) ==
  {s \in Later(r) : Cardinality({t \in Later(r) : row[t].id < row[s].id}) < BatchSize}
LastBatchOffByOne(r) == Cardinality(Listed(r)) <= BatchSize
LastBatch(r) == Cardinality(Listed(r)) < BatchSize
List(r) ==
  /\ pass[r].pc = "list"
  /\ \/ /\ pass' = [pass EXCEPT ![r].pc = "items", ![r].last = LastBatch(r), ![r].batch =
                      {[sub |-> s, id |-> row[s].id, owner |-> row[s].owner] : s \in Listed(r)}]
        /\ UNCHANGED faults
     \/ pass' = [pass EXCEPT ![r] = NoPass] /\ Fault    \* the query fails: break
  /\ UNCHANGED <<remote, row, task, done>>

\* ReconcileSubscription for the next item, with the identity as it was listed.
Visit(r) ==
  /\ pass[r].pc = "items" /\ task[r].pc = "idle"
  /\ \E item \in pass[r].batch :
       /\ \A other \in pass[r].batch : item.id <= other.id
       /\ pass' = [pass EXCEPT ![r].after = item.id, ![r].batch = @ \ {item},
                               ![r].visited = @ \cup {item.sub}]
       /\ task' = [task EXCEPT ![r] = [NoTask EXCEPT !.pc = "fetch", !.sub = item.sub,
                                                     !.owner = item.owner]]
  /\ UNCHANGED <<remote, row, done, faults>>

EndBatch(r) ==
  /\ pass[r].pc = "items" /\ task[r].pc = "idle" /\ pass[r].batch = {}
  /\ pass' = [pass EXCEPT ![r] = IF pass[r].last THEN NoPass ELSE [@ EXCEPT !.pc = "list"]]
  /\ UNCHANGED <<remote, row, task, done, faults>>

\* A handler dies, or a pass is canceled by Shutdown.  Between two items this
\* shows when the next one starts, between two batches as a List that fails.
Crash(a) ==
  /\ task[a].pc # "idle"
  /\ row' = Unlocked(a)
  /\ task' = [task EXCEPT ![a] = NoTask]
  /\ pass' = IF a \in Reconcilers THEN [pass EXCEPT ![a] = NoPass] ELSE pass
  /\ Fault
  /\ UNCHANGED <<remote, done>>

Work(a) == Fetch(a) \/ Insert(a) \/ Select(a) \/ Reject(a) \/ Update(a)
Page(r) == StartPass(r) \/ List(r) \/ Visit(r) \/ EndBatch(r)

Next ==
  \/ \E s \in Subs : Change(s)
  \/ \E w \in Workers, s \in Subs : \E owner \in Claims[s] :
       StartFetch(w, s, owner) \/ \E v \in 1..MaxVersion : StartEvent(w, s, v, owner)
  \/ \E a \in Actors : Work(a) \/ DbError(a) \/ Crash(a)
  \/ \E r \in Reconcilers : Page(r)

Spec == Init /\ [][Next]_vars

\* Refreshes run on, waiting in line for a row's lock, and passes are started
\* again and again.
FairSpec ==
  /\ Spec
  /\ \A a \in Actors : WF_vars(Work(a)) /\ SF_vars(Select(a))
  /\ \A r \in Reconcilers : WF_vars(Page(r))

-----------------------------------------------------------------------------
\* UpsertSubscription: a subscription that has an owner keeps it, though two
\* handlers may claim an unowned one at the same time.
OwnerImmutable ==
  [][\A s \in Subs : row[s].owner # Unowned => row'[s].owner = row[s].owner]_vars

\* UpsertSubscription: what a stored subscription says is changed only by a
\* refresh for its owner, or for nobody in particular.
ForeignSnapshotRejected ==
  [][\A s \in Subs : row[s].id # 0 /\ row'[s].version # row[s].version =>
       \E a \in Actors : /\ task[a].pc = "write" /\ task[a].sub = s
                         /\ task[a].owner \in {Unowned, row'[s].owner}]_vars

\* The lock discipline that makes the two hold: who is about to write a row has
\* it locked and has seen its owner, and nobody else has.
RefreshesNameRows ==
  \A a \in Actors :
    /\ task[a].pc # "idle" => task[a].sub \in Subs
    /\ task[a].pc \in {"select", "write"} => row[task[a].sub].id # 0
WritersLock ==
  \A a \in Actors, s \in Subs :
    row[s].lock = a <=> task[a].pc = "write" /\ task[a].sub = s
WritersSawOwner ==
  \A a \in Actors : task[a].pc = "write" => task[a].seen = row[task[a].sub].owner
AbsentIsEmpty == \A s \in Subs : row[s].id = 0 => row[s] = NoRow
SyncInv == TypeOK /\ RefreshesNameRows /\ WritersLock /\ WritersSawOwner /\ AbsentIsEmpty

\* UpsertSubscription: however the statements of handlers and passes interleave
\* and fail, each call stores its snapshot at once or not at all, the ownership
\* it checked is the one it writes under, and an event whose handler failed or
\* was refused is not SUCCEEDED.
Content(s) == [known |-> row[s].id # 0, owner |-> row[s].owner, version |-> row[s].version]
Promise == INSTANCE SubscriptionRecord WITH record <- [s \in Subs |-> Content(s)]
ImplementsSubscriptionRecord == Promise!Spec

Ends(r) == /\ pass[r].pc = "items" /\ pass[r].batch = {} /\ task[r].pc = "idle"
           /\ pass'[r].pc = "idle"
\* Reconcile: a pass that ends by itself has visited every row there was when it
\* began, whatever failed on the way and whatever was inserted meanwhile.
PassComplete ==
  [][\A r \in Reconcilers : Ends(r) => pass[r].due \subseteq pass[r].visited]_vars

\* Why it has: what a pass has still to visit lies after the rows it has listed,
\* or is listed and waits for its turn; and behind the last batch lies nothing.
Waiting(r, s) == \E item \in pass[r].batch : item.sub = s
Behind(r, s) ==
  /\ row[s].id > pass[r].after
  /\ \A item \in pass[r].batch : item.id < row[s].id
Covers(r) ==
  /\ pass[r].due \subseteq Stored
  /\ \A s \in pass[r].due \ pass[r].visited :
       \/ pass[r].pc = "list" /\ row[s].id > pass[r].after
       \/ pass[r].pc = "items" /\ Waiting(r, s)
       \/ pass[r].pc = "items" /\ ~pass[r].last /\ Behind(r, s)
PassesCover == \A r \in Reconcilers : Covers(r)

\* Reconcile repairs what reordered, stale and failed webhooks leave behind: in
\* the end every row is what the provider says, one broken row or not.
Converges ==
  \A s \in Subs \ Gone : <>[](row[s].id # 0 => row[s].version = remote[s])
=============================================================================

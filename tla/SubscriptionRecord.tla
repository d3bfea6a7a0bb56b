-------------------------- MODULE SubscriptionRecord --------------------------
(***************************************************************************)
(* What UpsertSubscription promises, with nothing of its statements: a     *)
(* snapshot is stored in one step, and only for an identity that the       *)
(* record's owner does not contradict; a record that nobody owns is taken  *)
(* by the first identity that is named; an event is SUCCEEDED only if its  *)
(* snapshot was stored in that same step.                                  *)
(*                                                                         *)
(* SubscriptionSync implements this module (see SubscriptionSyncProofs).   *)
(***************************************************************************)
EXTENDS Integers

CONSTANTS Subs,        \* (provider, external subscription id) pairs
          Identities,  \* identities of the application
          Unowned,     \* identity_id = ''
          MaxVersion   \* bound: what a subscription says is in 0..MaxVersion

VARIABLES record,  \* record[s]: the payment_subscriptions record of s
          done     \* <<s, v>>: the events that are SUCCEEDED

vars == <<record, done>>

Owners == Identities \cup {Unowned}

Init ==
  /\ record = [s \in Subs |-> [known |-> FALSE, owner |-> Unowned, version |-> 0]]
  /\ done = {}

Agree(owner, identity) == owner = identity \/ Unowned \in {owner, identity}

Upsert(s, identity, version) ==
  LET owner == record[s].owner IN
  /\ Agree(owner, identity)
  /\ record' = [record EXCEPT ![s] =
                  [known   |-> TRUE,
                   owner   |-> IF owner = Unowned THEN identity ELSE owner,
                   version |-> version]]
  /\ done' \in {done, done \cup {<<s, version>>}}

Next == \E s \in Subs, identity \in Owners, version \in 0..MaxVersion :
          Upsert(s, identity, version)

Spec == Init /\ [][Next]_vars
=============================================================================

-------------------------- MODULE MCSubscriptionSync --------------------------
(***************************************************************************)
(* A small instance of SubscriptionSync for TLC.                           *)
(***************************************************************************)
EXTENDS SubscriptionSync, TLC

CONSTANTS gone, known, alice, bob

MCSubs == {gone, known}
\* Both identities compete for the subscription that the provider answers for.
MCClaims == (gone :> {Unowned}) @@ (known :> {Unowned, alice, bob})
=============================================================================

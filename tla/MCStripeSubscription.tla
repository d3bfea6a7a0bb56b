------------------------ MODULE MCStripeSubscription ------------------------
(***************************************************************************)
(* A small instance of StripeSubscription for TLC.                         *)
(***************************************************************************)
EXTENDS StripeSubscription
=============================================================================

-------------------------- MODULE MCStripePurchase --------------------------
(***************************************************************************)
(* Small instances of StripePurchase for TLC.                              *)
(***************************************************************************)
EXTENDS StripePurchase

AllEvents == StripeEvents
\* The Checkout's events, and the intent's that ranks above SUCCEEDED.
CheckoutAndDeclined == CheckoutEvents \cup {"pi.declined"}
=============================================================================

--------------------------- MODULE MCPaymentLedger ---------------------------
(***************************************************************************)
(* A small instance of PaymentLedger for TLC: three calls to one payment.  *)
(***************************************************************************)
EXTENDS PaymentLedger, TLC

LedgerSymmetry == Permutations(Callers) \cup Permutations(Identities)
=============================================================================

---------------------------- MODULE PaymentStatus ----------------------------
(***************************************************************************)
(* The statuses of a payment and how UpsertPayment orders them.            *)
(***************************************************************************)
EXTENDS Integers

PaymentStatuses == {"PENDING", "SUCCEEDED", "CANCELED", "FAILED", "DISPUTED", "REFUNDED"}

\* "ABSENT", of a payment that has no row, is not a status of the code; it ranks
\* lowest, as any unknown one does.
paymentStatusRank(status) ==
  CASE status = "PENDING" -> 1
    [] status = "SUCCEEDED" -> 2
    [] status \in {"CANCELED", "FAILED"} -> 3
    [] status = "DISPUTED" -> 4
    [] status = "REFUNDED" -> 5
    [] OTHER -> 0

\* A status gives way to one of at least its rank.
MergedStatus(existing, new) ==
  IF paymentStatusRank(new) >= paymentStatusRank(existing) THEN new ELSE existing
=============================================================================

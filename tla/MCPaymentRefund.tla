-------------------------- MODULE MCPaymentRefund --------------------------
(* Small instances of PaymentRefund for TLC. *)
EXTENDS PaymentRefund, TLC

CONSTANTS b, c, s, w1, w2

\* Administrators are interchangeable.
WorkerSymmetry == Permutations(Workers)
=============================================================================

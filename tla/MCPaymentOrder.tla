--------------------------- MODULE MCPaymentOrder ---------------------------
(* Instances of PaymentOrder for TLC. *)
EXTENDS PaymentOrder, TLC

\* Workers are interchangeable; sound for safety properties only.
WorkerSymmetry == Permutations(Workers)
=============================================================================

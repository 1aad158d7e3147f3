--------------------------- MODULE MCIdempotency ---------------------------
(* Small instances of Idempotency for TLC. *)
EXTENDS Idempotency, TLC

CONSTANTS w1, w2, w3, p, q

\* Requests are interchangeable.
WorkerSymmetry == Permutations(Workers)
=============================================================================

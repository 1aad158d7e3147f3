----------------------- MODULE MCSystemOperationLock -----------------------
(* Small instances of SystemOperationLock for TLC. *)
EXTENDS SystemOperationLock, TLC

CONSTANTS w1, w2, update, rollback

\* Admin requests are interchangeable.
WorkerSymmetry == Permutations(Workers)
=============================================================================

------------------------- MODULE MCConcurrencySlots -------------------------
(* A small instance of ConcurrencySlots for TLC. *)
EXTENDS ConcurrencySlots

CONSTANTS r1, r2, p1, p2
=============================================================================

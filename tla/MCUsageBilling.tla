--------------------------- MODULE MCUsageBilling ---------------------------
(* A small instance of UsageBilling for TLC: two connections of one user,   *)
(* one of which only asks whether it may go on.                            *)
EXTENDS UsageBilling, TLC

CONSTANTS r1, r2, p, q

OneHasTurns == r1 :> 2 @@ r2 :> 0
=============================================================================

--------------------------- MODULE MCTokenRefresh ---------------------------
(* A small instance of TokenRefresh for TLC: two processes, each with its   *)
(* loop, and a request in one of them.                                      *)
EXTENDS TokenRefresh, TLC

CONSTANTS r1, b1, b2, p1, p2

RequestWithFirstLoop == r1 :> p1 @@ b1 :> p1 @@ b2 :> p2
=============================================================================

------------------------ MODULE MCSchedulerSnapshot ------------------------
(* A small instance of SchedulerSnapshot for TLC: one rebuild in each of   *)
(* two processes, and requests in one of them.                               *)
EXTENDS SchedulerSnapshot

CONSTANTS a1, a2, p1, p2

MCWorkers == {<<p1, "rebuild">>, <<p2, "rebuild">>, <<p2, "request">>}
=============================================================================

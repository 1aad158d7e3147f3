------------------------- MODULE MCSchedulerOutbox -------------------------
(* A small instance of SchedulerOutbox for TLC: an account's event, an     *)
(* event without deduplication and the full rebuild.                       *)
EXTENDS SchedulerOutbox

CONSTANTS account, bulk, full, c1, f1
=============================================================================

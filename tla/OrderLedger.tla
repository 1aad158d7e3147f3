---------------------------- MODULE OrderLedger ----------------------------
(***************************************************************************)
(* What the payment component promises of an order that buys balance,      *)
(* whatever webhooks, polls, retries, failures and crashes happen: the     *)
(* goods are delivered at most once, only after the money arrived, and the *)
(* order is reported complete only after they were, once and for all.      *)
(***************************************************************************)
EXTENDS Naturals

CONSTANT Orders

VARIABLES
    paid,       \* the orders the provider has the money of
    delivered,  \* how often the balance was credited
    complete    \* the orders that are, or were, COMPLETED

vars == <<paid, delivered, complete>>

Init ==
    /\ paid = {}
    /\ delivered = [o \in Orders |-> 0]
    /\ complete = {}

Pay(o) ==
    /\ o \notin paid
    /\ paid' = paid \cup {o}
    /\ UNCHANGED <<delivered, complete>>

Deliver(o) ==
    /\ o \in paid
    /\ delivered[o] = 0
    /\ delivered' = [delivered EXCEPT ![o] = 1]
    /\ UNCHANGED <<paid, complete>>

Complete(o) ==
    /\ delivered[o] = 1
    /\ complete' = complete \cup {o}
    /\ UNCHANGED <<paid, delivered>>

Next == \E o \in Orders : Pay(o) \/ Deliver(o) \/ Complete(o)

Spec == Init /\ [][Next]_vars
=============================================================================

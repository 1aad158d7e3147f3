---------------------------- MODULE RefundLedger ----------------------------
(***************************************************************************)
(* What the refund of a completed order promises, whatever refusals,       *)
(* failures, crashes and second administrators happen: the goods are taken *)
(* back from the user as a whole and at most once, they are given back as  *)
(* a whole or not at all, the provider accepts one refund at most, neither *)
(* of the former happens after that, and the order is reported refunded    *)
(* only after it, for good.  The provider pays what it accepted at any     *)
(* time, or, if it declines it later, not at all.                          *)
(***************************************************************************)
EXTENDS Integers

CONSTANTS
    Orders,
    Uncalled,   \* the orders the provider is not asked about
    Goods       \* what an order bought

VARIABLES
    gone,     \* goods taken from the user, less those given back
    accepted, \* money the provider agreed to pay back
    paid,     \* money it paid back
    closed    \* the orders reported refunded

vars == <<gone, accepted, paid, closed>>

Init ==
    /\ gone = [o \in Orders |-> 0]
    /\ accepted = [o \in Orders |-> 0]
    /\ paid = [o \in Orders |-> 0]
    /\ closed = {}

\* The refund of an order may go either way.
Open(o) == accepted[o] = 0 /\ o \notin closed

Take(o) ==
    /\ Open(o)
    /\ gone[o] = 0
    /\ \E n \in 1..Goods : gone' = [gone EXCEPT ![o] = n]
    /\ UNCHANGED <<accepted, paid, closed>>

GiveBack(o) ==
    /\ Open(o)
    /\ gone' = [gone EXCEPT ![o] = 0]
    /\ UNCHANGED <<accepted, paid, closed>>

Accept(o) ==
    /\ Open(o)
    /\ o \notin Uncalled
    /\ \E n \in 1..Goods : accepted' = [accepted EXCEPT ![o] = n]
    /\ UNCHANGED <<gone, paid, closed>>

Pay(o) ==
    /\ \E n \in 1..(accepted[o] - paid[o]) : paid' = [paid EXCEPT ![o] = @ + n]
    /\ UNCHANGED <<gone, accepted, closed>>

Close(o) ==
    /\ accepted[o] > 0 \/ o \in Uncalled
    /\ closed' = closed \cup {o}
    /\ UNCHANGED <<gone, accepted, paid>>

Next == \E o \in Orders : Take(o) \/ GiveBack(o) \/ Accept(o) \/ Pay(o) \/ Close(o)

Spec == Init /\ [][Next]_vars
=============================================================================

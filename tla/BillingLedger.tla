---------------------------- MODULE BillingLedger ----------------------------
(***************************************************************************)
(* What the billing of a user's requests promises, whatever tasks overlap, *)
(* are dropped, fail or lose their answers: a request is charged at most   *)
(* once and only after it was served, the gifts pay before the balance,    *)
(* which pays nothing of a small cost.  Nothing else changes the balance   *)
(* but recharges, refunds and saves of the user, which put it back to what *)
(* it was, or near, when the user was read.                                *)
(***************************************************************************)
EXTENDS Integers

CONSTANTS
    Requests,
    Fingerprints,    \* what a request may be billed as
    Small,           \* costs the balance is spared
    NoFingerprint,
    NoValue,         \* the user is not being changed
    Balance, Gift    \* what the user has at first, gifts at most

VARIABLES
    balance, gift,   \* what the user has
    edit,            \* had, when the user was read to be saved later
    recharges,       \* recharges, refunds and edits so far
    served,          \* the requests that were answered
    billed           \* what each request was charged as

vars == <<balance, gift, edit, recharges, served, billed>>

Init ==
    /\ balance = Balance /\ gift \in 0..Gift /\ edit = NoValue /\ recharges = 0
    /\ served = {} /\ billed = [r \in Requests |-> NoFingerprint]

Serve(r) ==
    /\ served' = served \cup {r}
    /\ UNCHANGED <<balance, gift, edit, recharges, billed>>

Bill(r, fp) ==
    /\ r \in served /\ billed[r] = NoFingerprint
    /\ billed' = [billed EXCEPT ![r] = fp]
    /\ \/ gift > 0 /\ gift' = gift - 1 /\ UNCHANGED balance
       \/ gift = 0 /\ fp \notin Small /\ balance' = balance - 1 /\ UNCHANGED gift
       \/ gift = 0 /\ fp \in Small /\ UNCHANGED <<balance, gift>>
    /\ UNCHANGED <<edit, recharges, served>>

\* A recharge, a refund or its rollback.
Transfer ==
    /\ balance' \in {balance - 1, balance + 1}
    /\ recharges' = recharges + 1
    /\ UNCHANGED <<gift, edit, served, billed>>

Read ==
    /\ edit' = balance
    /\ recharges' = recharges + 1
    /\ UNCHANGED <<balance, gift, served, billed>>

Save ==
    /\ edit # NoValue /\ edit' = NoValue
    /\ balance' \in {balance, edit - 1, edit, edit + 1}
    /\ UNCHANGED <<gift, recharges, served, billed>>

Next ==
    \/ Transfer \/ Read \/ Save
    \/ \E r \in Requests : Serve(r) \/ \E fp \in Fingerprints : Bill(r, fp)

Spec == Init /\ [][Next]_vars
=============================================================================

--------------------------- MODULE PaymentRefund ---------------------------
(***************************************************************************)
(* The refund of completed payment orders:                                 *)
(* backend/internal/service/payment_refund.go, with the two statements of  *)
(* SubscriptionService.ExtendSubscription it is built on.                  *)
(*                                                                         *)
(* A Worker is a request of the user (RequestRefund) or of an              *)
(* administrator (PrepareRefund, then ExecuteRefund); a step is one        *)
(* statement, as in PaymentOrder.  All orders belong to one user, who has  *)
(* one balance and one subscription.                                       *)
(***************************************************************************)
EXTENDS Integers, FiniteSets

CONSTANTS
    Orders,     \* ids of orders that were completed
    SubOrders,  \* those of type "subscription"; the rest are "balance"
    NoTradeNo,  \* those with an empty payment_trade_no: an EasyPay popup order
                \* whose payment was noticed by a poll
    NoOrder,    \* the order of a worker that serves none
    Workers,    \* goroutines
    Goods,      \* what an order bought: units of balance, or days
    MaxNow,     \* bound: the last day
    Faults,     \* the kinds of failure that may happen
    MaxFaults   \* bound: how many failures happen in one behaviour

\* "gateway": the provider refuses the refund.  "lost": it accepts it, but its
\* answer does not arrive.  "goods": a statement on the balance or subscription
\* fails.  "goodsLost": it takes effect, but its answer does not arrive.  "status":
\* an update of the order reports an error, whether or not it took effect.
\* "audit": the audit log cannot be read or written.  "crash": the process dies.
FaultKinds == {"gateway", "lost", "goods", "goodsLost", "status", "audit", "crash"}

ASSUME OrdersAssumption ==
    /\ IsFiniteSet(Orders) /\ NoOrder \notin Orders
    /\ SubOrders \subseteq Orders /\ NoTradeNo \subseteq Orders
ASSUME NumbersAssumption == Goods \in Nat \ {0} /\ MaxNow \in Nat /\ MaxFaults \in Nat
ASSUME FaultsAssumption == Faults \subseteq FaultKinds

VARIABLES
    status,          \* payment_orders.status
    balance,         \* users.balance
    subLive,         \* the subscription's row exists
    expiry,          \* user_subscriptions.expires_at, in days
    now,             \* the day
    rollbackFailed,  \* payment_audit_logs has REFUND_ROLLBACK_FAILED for the order
    taken,           \* goods taken back from the user for the order, less those given back
    accepted,        \* money the provider agreed to pay back for the order
    paidBack,        \* money it did pay back
    pc,              \* the statement each worker executes next
    ord,             \* the order a worker serves
    plan,            \* its RefundPlan
    faults,          \* failures so far
    slips            \* of these, per order, those that leave no trace of what was taken:
                     \* a deduction's lost answer, a failure of the audit log

goodsVars == <<balance, subLive, expiry, taken>>
workerVars == <<pc, ord, plan>>
moneyVars == <<accepted, paidBack>>
vars == <<status, goodsVars, now, rollbackFailed, moneyVars, workerVars, faults, slips>>

Refundable == {"COMPLETED", "REFUND_REQUESTED", "REFUND_FAILED"}

Refunded == {"REFUNDED", "PARTIALLY_REFUNDED"}

Statuses == Refundable \cup Refunded \cup {"REFUNDING"}

Balance(o) == o \notin SubOrders

\* RefundPlan: the amount, DeductionType with BalanceToDeduct or SubDaysToDeduct, whether
\* the order was read as REFUND_REQUESTED, and the expiry ExtendSubscription is
\* about to write.
Plans == [amount : 1..Goods, kind : {"none", "balance", "subscription"}, take : 0..Goods,
          requested : BOOLEAN, target : Int]

NoPlan == [amount |-> Goods, kind |-> "none", take |-> 0, requested |-> FALSE, target |-> 0]

\* The statements between taking and leaving the status REFUNDING.
Executing == {"auditCheck", "deduct", "subRead", "subWrite", "revoke", "gateway", "rollback",
              "rollbackRead", "rollbackWrite", "rollbackAudit", "refundFailed", "restore",
              "refundOk"}

Labels == {"idle", "request", "prepDeduct", "lock"} \cup Executing

\* The orders were completed; earlier ones may have bought as much again.
Init ==
    /\ status = [o \in Orders |-> "COMPLETED"]
    /\ \E n \in 1..2 :
          /\ balance = n * Goods * Cardinality(Orders \ SubOrders)
          /\ expiry = n * Goods * Cardinality(SubOrders)
    /\ subLive = (SubOrders # {})
    /\ now = 0
    /\ rollbackFailed = [o \in Orders |-> FALSE]
    /\ taken = [o \in Orders |-> 0]
    /\ accepted = [o \in Orders |-> 0]
    /\ paidBack = [o \in Orders |-> 0]
    /\ pc = [w \in Workers |-> "idle"]
    /\ ord = [w \in Workers |-> NoOrder]
    /\ plan = [w \in Workers |-> NoPlan]
    /\ faults = 0
    /\ slips = [o \in Orders |-> 0]

-----------------------------------------------------------------------------
(* Control of a worker *)

At(w, label) == pc[w] = label

Goto(w, label) ==
    /\ pc' = [pc EXCEPT ![w] = label]
    /\ UNCHANGED <<ord, plan>>

Return(w) ==
    /\ pc' = [pc EXCEPT ![w] = "idle"]
    /\ ord' = [ord EXCEPT ![w] = NoOrder]
    /\ plan' = [plan EXCEPT ![w] = NoPlan]

NoFault == UNCHANGED <<faults, slips>>

OneMore(kind) ==
    /\ kind \in Faults
    /\ faults < MaxFaults
    /\ faults' = faults + 1

Fault(kind) == OneMore(kind) /\ UNCHANGED slips

\* A failure after which what was taken for o is not known of.
Slip(kind, o) == OneMore(kind) /\ slips' = [slips EXCEPT ![o] = @ + 1]

SetStatus(o, s) == status' = [status EXCEPT ![o] = s]

-----------------------------------------------------------------------------
(* The user, the provider and time *)

\* Usage is charged as long as the balance is positive.
Spend ==
    /\ balance > 0
    /\ balance' = balance - 1
    /\ NoFault
    /\ UNCHANGED <<status, subLive, expiry, taken, now, rollbackFailed, moneyVars, workerVars>>

\* An accepted refund is paid at once, later or, where the provider declines it in
\* the end, never; no handler is told.
ProviderPays(o) ==
    /\ \E n \in 1..(accepted[o] - paidBack[o]) :
          paidBack' = [paidBack EXCEPT ![o] = @ + n]
    /\ NoFault
    /\ UNCHANGED <<status, goodsVars, now, rollbackFailed, accepted, workerVars>>

DayPasses ==
    /\ now < MaxNow
    /\ now' = now + 1
    /\ NoFault
    /\ UNCHANGED <<status, goodsVars, rollbackFailed, moneyVars, workerVars>>

-----------------------------------------------------------------------------
(* RequestRefund *)

\* validateRefundRequest and the balance are read before the update.
RequestRefund(w, o) ==
    /\ At(w, "idle")
    /\ Balance(o)
    /\ status[o] = "COMPLETED"
    /\ balance >= Goods
    /\ pc' = [pc EXCEPT ![w] = "request"]
    /\ ord' = [ord EXCEPT ![w] = o]
    /\ NoFault
    /\ UNCHANGED <<status, goodsVars, now, rollbackFailed, moneyVars, plan>>

RequestUpdate(w) ==
    /\ At(w, "request")
    /\ \/ /\ IF status[ord[w]] = "COMPLETED" THEN SetStatus(ord[w], "REFUND_REQUESTED")
             ELSE UNCHANGED status
          /\ NoFault
       \/ Fault("status") /\ UNCHANGED status
    /\ Return(w)
    /\ UNCHANGED <<goodsVars, now, rollbackFailed, moneyVars>>

-----------------------------------------------------------------------------
(* PrepareRefund *)

PrepareRefund(w, o, amount, deduct) ==
    /\ At(w, "idle")
    /\ status[o] \in Refundable
    /\ pc' = [pc EXCEPT ![w] = IF deduct THEN "prepDeduct" ELSE "lock"]
    /\ ord' = [ord EXCEPT ![w] = o]
    /\ plan' = [plan EXCEPT ![w] =
          [NoPlan EXCEPT !.amount = amount, !.requested = (status[o] = "REFUND_REQUESTED")]]
    /\ NoFault
    /\ UNCHANGED <<status, goodsVars, now, rollbackFailed, moneyVars>>

Least(a, b) == IF a < b THEN a ELSE b

\* prepDeduct: the balance is read, or the active subscription, whose cached copy
\* may be out of date; when that gives nothing, only a forced refund goes on.
PrepDeduct(w) ==
    /\ At(w, "prepDeduct")
    /\ \/ /\ Balance(ord[w])
          /\ plan' = [plan EXCEPT ![w].kind = "balance",
                                  ![w].take = IF balance > 0
                                              THEN Least(plan[w].amount, balance) ELSE 0]
          /\ pc' = [pc EXCEPT ![w] = "lock"]
          /\ NoFault
          /\ UNCHANGED ord
       \/ /\ ~Balance(ord[w])
          /\ plan' = [plan EXCEPT ![w].kind = "subscription", ![w].take = Goods]
          /\ pc' = [pc EXCEPT ![w] = "lock"]
          /\ NoFault
          /\ UNCHANGED ord
       \/ /\ IF ~Balance(ord[w]) /\ ~(subLive /\ expiry > now)
             THEN NoFault ELSE Fault("goods")
          /\ Goto(w, "lock") \/ Return(w)
    /\ UNCHANGED <<status, goodsVars, now, rollbackFailed, moneyVars>>

-----------------------------------------------------------------------------
(* ExecuteRefund: taking the goods back *)

\* Faulty variant: no WHERE.
LockRefundAlways(w) ==
    /\ At(w, "lock")
    /\ SetStatus(ord[w], "REFUNDING")
    /\ Goto(w, IF plan[w].take > 0 THEN "auditCheck" ELSE "gateway")
    /\ NoFault
    /\ UNCHANGED <<goodsVars, now, rollbackFailed, moneyVars>>

\* UPDATE ... WHERE status IN (COMPLETED, REFUND_REQUESTED, REFUND_FAILED).  One that
\* changed the row and does not hear of it leaves the row.
LockRefund(w) ==
    /\ At(w, "lock")
    /\ \/ /\ status[ord[w]] \in Refundable
          /\ SetStatus(ord[w], "REFUNDING")
          /\ \/ /\ Goto(w, IF plan[w].take > 0 THEN "auditCheck" ELSE "gateway")
                /\ NoFault
             \/ Return(w) /\ Fault("status")
       \/ /\ status[ord[w]] \notin Refundable
          /\ Return(w)
          /\ NoFault
          /\ UNCHANGED status
       \/ /\ Fault("status")
          /\ Return(w)
          /\ UNCHANGED status
    /\ UNCHANGED <<goodsVars, now, rollbackFailed, moneyVars>>

\* Faulty variant: an earlier deduction that was not rolled back is overlooked.
AuditCheckIgnored(w) ==
    /\ At(w, "auditCheck")
    /\ Goto(w, IF plan[w].kind = "balance" THEN "deduct" ELSE "subRead")
    /\ NoFault
    /\ UNCHANGED <<status, goodsVars, now, rollbackFailed, moneyVars>>

\* hasAuditLog(REFUND_ROLLBACK_FAILED): the goods are still taken from an earlier
\* attempt.  An error of the query counts as "no entry".
AuditCheck(w) ==
    /\ At(w, "auditCheck")
    /\ \/ /\ rollbackFailed[ord[w]]
          /\ pc' = [pc EXCEPT ![w] = "gateway"]
          /\ plan' = [plan EXCEPT ![w].take = 0]
          /\ NoFault
          /\ UNCHANGED ord
       \/ /\ IF rollbackFailed[ord[w]] THEN Slip("audit", ord[w]) ELSE NoFault
          /\ Goto(w, IF plan[w].kind = "balance" THEN "deduct" ELSE "subRead")
    /\ UNCHANGED <<status, goodsVars, now, rollbackFailed, moneyVars>>

\* userRepo.DeductBalance lets the balance fall below zero.  Any error of it is
\* taken to mean that nothing was deducted.
Deduct(w) ==
    /\ At(w, "deduct")
    /\ \/ /\ balance' = balance - plan[w].take
          /\ taken' = [taken EXCEPT ![ord[w]] = @ + plan[w].take]
          /\ \/ Goto(w, "gateway") /\ NoFault
             \/ Goto(w, "restore") /\ Slip("goodsLost", ord[w])
       \/ Fault("goods") /\ Goto(w, "restore") /\ UNCHANGED <<balance, taken>>
    /\ UNCHANGED <<status, subLive, expiry, now, rollbackFailed, moneyVars>>

\* ExtendSubscription(-days) reads the subscription and works out the new expiry.
\* A subscription it would end is revoked instead.
SubRead(w) ==
    /\ At(w, "subRead")
    /\ \/ /\ subLive /\ expiry > now
          /\ IF expiry - plan[w].take > now
             THEN /\ plan' = [plan EXCEPT ![w].target = expiry - plan[w].take]
                  /\ pc' = [pc EXCEPT ![w] = "subWrite"]
                  /\ UNCHANGED ord
             ELSE Goto(w, "revoke")
          /\ NoFault
       \/ /\ IF subLive /\ expiry > now THEN Fault("goods") ELSE NoFault
          /\ Goto(w, "restore")
    /\ UNCHANGED <<status, goodsVars, now, rollbackFailed, moneyVars>>

\* It writes the expiry, and fails as well when the row cannot be read again.
SubWrite(w) ==
    /\ At(w, "subWrite")
    /\ \/ /\ subLive
          /\ expiry' = plan[w].target
          /\ taken' = [taken EXCEPT ![ord[w]] = @ + plan[w].take]
          /\ \/ Goto(w, "gateway") /\ NoFault
             \/ Goto(w, "restore") /\ Slip("goodsLost", ord[w])
       \/ /\ IF subLive THEN Fault("goods") ELSE NoFault
          /\ Goto(w, "restore")
          /\ UNCHANGED <<expiry, taken>>
    /\ UNCHANGED <<status, balance, subLive, now, rollbackFailed, moneyVars>>

Revoke(w) ==
    /\ At(w, "revoke")
    /\ \/ /\ subLive
          /\ subLive' = FALSE
          /\ taken' = [taken EXCEPT ![ord[w]] = @ + plan[w].take]
          /\ \/ Goto(w, "gateway") /\ NoFault
             \/ Goto(w, "restore") /\ Slip("goodsLost", ord[w])
       \/ /\ IF subLive THEN Fault("goods") ELSE NoFault
          /\ Goto(w, "restore")
          /\ UNCHANGED <<subLive, taken>>
    /\ UNCHANGED <<status, balance, expiry, now, rollbackFailed, moneyVars>>

-----------------------------------------------------------------------------
(* gwRefund *)

\* Where handleGwFail, and RollbackRefund in it, goes on.
RollbackLabel(w) ==
    IF plan[w].take = 0 THEN "restore"
    ELSE IF plan[w].kind = "balance" THEN "rollback" ELSE "rollbackRead"

\* Faulty variant: a refusal of the provider is overlooked.
GatewayRefundIgnoresError(w) ==
    /\ At(w, "gateway")
    /\ \/ /\ ord[w] \notin NoTradeNo
          /\ accepted' = [accepted EXCEPT ![ord[w]] = @ + plan[w].amount]
          /\ NoFault
       \/ /\ IF ord[w] \in NoTradeNo THEN NoFault ELSE Fault("gateway")
          /\ UNCHANGED accepted
    /\ Goto(w, "refundOk")
    /\ UNCHANGED <<status, goodsVars, now, rollbackFailed, paidBack>>

\* Faulty variant: a refund that is accepted and not paid yet is taken for a refusal.
GatewayRefundDoubtsPending(w) ==
    /\ At(w, "gateway")
    /\ ord[w] \notin NoTradeNo
    /\ accepted' = [accepted EXCEPT ![ord[w]] = @ + plan[w].amount]
    /\ Goto(w, RollbackLabel(w))
    /\ NoFault
    /\ UNCHANGED <<status, goodsVars, now, rollbackFailed, paidBack>>

\* Without a trade number the provider is not called, and that counts as success; so
\* does every answer but an error, whatever it says of the state of the refund.
GatewayRefund(w) ==
    /\ At(w, "gateway")
    /\ \/ /\ ord[w] \in NoTradeNo
          /\ Goto(w, "refundOk")
          /\ NoFault
          /\ UNCHANGED accepted
       \/ /\ ord[w] \notin NoTradeNo
          /\ accepted' = [accepted EXCEPT ![ord[w]] = @ + plan[w].amount]
          /\ \/ Goto(w, "refundOk") /\ NoFault
             \/ Goto(w, RollbackLabel(w)) /\ Fault("lost")
       \/ /\ ord[w] \notin NoTradeNo
          /\ Fault("gateway")
          /\ Goto(w, RollbackLabel(w))
          /\ UNCHANGED accepted
    /\ UNCHANGED <<status, goodsVars, now, rollbackFailed, paidBack>>

RefundedStatus(w) == IF plan[w].amount < Goods THEN "PARTIALLY_REFUNDED" ELSE "REFUNDED"

\* markRefundOk updates the order by its id alone.
MarkRefundOk(w) ==
    /\ At(w, "refundOk")
    /\ \/ SetStatus(ord[w], RefundedStatus(w)) /\ NoFault
       \/ Fault("status") /\ UNCHANGED status
    /\ Return(w)
    /\ UNCHANGED <<goodsVars, now, rollbackFailed, moneyVars>>

-----------------------------------------------------------------------------
(* handleGwFail, RollbackRefund, restoreStatus *)

Rollback(w) ==
    /\ At(w, "rollback")
    /\ \/ /\ balance' = balance + plan[w].take
          /\ taken' = [taken EXCEPT ![ord[w]] = @ - plan[w].take]
          /\ \/ Goto(w, "restore") /\ NoFault
             \/ Goto(w, "rollbackAudit") /\ Fault("goodsLost")
       \/ Fault("goods") /\ Goto(w, "rollbackAudit") /\ UNCHANGED <<balance, taken>>
    /\ UNCHANGED <<status, subLive, expiry, now, rollbackFailed, moneyVars>>

\* ExtendSubscription(+days); a subscription that was revoked is not found.
RollbackRead(w) ==
    /\ At(w, "rollbackRead")
    /\ \/ /\ subLive
          /\ plan' = [plan EXCEPT ![w].target =
                        (IF expiry > now THEN expiry ELSE now) + plan[w].take]
          /\ pc' = [pc EXCEPT ![w] = "rollbackWrite"]
          /\ NoFault
          /\ UNCHANGED ord
       \/ /\ IF subLive THEN Fault("goods") ELSE NoFault
          /\ Goto(w, "rollbackAudit")
    /\ UNCHANGED <<status, goodsVars, now, rollbackFailed, moneyVars>>

RollbackWrite(w) ==
    /\ At(w, "rollbackWrite")
    /\ \/ /\ subLive
          /\ expiry' = plan[w].target
          /\ taken' = [taken EXCEPT ![ord[w]] = @ - plan[w].take]
          /\ \/ Goto(w, "restore") /\ NoFault
             \/ Goto(w, "rollbackAudit") /\ Fault("goodsLost")
       \/ /\ IF subLive THEN Fault("goods") ELSE NoFault
          /\ Goto(w, "rollbackAudit")
          /\ UNCHANGED <<expiry, taken>>
    /\ UNCHANGED <<status, balance, subLive, now, rollbackFailed, moneyVars>>

RollbackAudit(w) ==
    /\ At(w, "rollbackAudit")
    /\ \/ rollbackFailed' = [rollbackFailed EXCEPT ![ord[w]] = TRUE] /\ NoFault
       \/ Slip("audit", ord[w]) /\ UNCHANGED rollbackFailed
    /\ Goto(w, "refundFailed")
    /\ UNCHANGED <<status, goodsVars, now, moneyVars>>

\* The error of either update is dropped.
MarkRefundFailed(w) ==
    /\ At(w, "refundFailed")
    /\ \/ SetStatus(ord[w], "REFUND_FAILED") /\ NoFault
       \/ Fault("status") /\ UNCHANGED status
    /\ Return(w)
    /\ UNCHANGED <<goodsVars, now, rollbackFailed, moneyVars>>

\* Faulty variant: the refund is reported as rolled back, its lock is kept.
RestoreStatusKeepsLock(w) ==
    /\ At(w, "restore")
    /\ NoFault
    /\ Return(w)
    /\ UNCHANGED <<status, goodsVars, now, rollbackFailed, moneyVars>>

RestoreStatus(w) ==
    /\ At(w, "restore")
    /\ \/ /\ SetStatus(ord[w], IF plan[w].requested THEN "REFUND_REQUESTED" ELSE "COMPLETED")
          /\ NoFault
       \/ Fault("status") /\ UNCHANGED status
    /\ Return(w)
    /\ UNCHANGED <<goodsVars, now, rollbackFailed, moneyVars>>

\* The process dies between two statements; what it wrote stays.
Crash(w) ==
    /\ pc[w] # "idle"
    /\ Fault("crash")
    /\ Return(w)
    /\ UNCHANGED <<status, goodsVars, now, rollbackFailed, moneyVars>>

-----------------------------------------------------------------------------
Step(w) ==
    \/ RequestUpdate(w)
    \/ PrepDeduct(w) \/ LockRefund(w) \/ AuditCheck(w)
    \/ Deduct(w) \/ SubRead(w) \/ SubWrite(w) \/ Revoke(w)
    \/ GatewayRefund(w) \/ MarkRefundOk(w)
    \/ Rollback(w) \/ RollbackRead(w) \/ RollbackWrite(w) \/ RollbackAudit(w)
    \/ MarkRefundFailed(w) \/ RestoreStatus(w)

Call(w, o) ==
    \/ RequestRefund(w, o)
    \/ \E amount \in 1..Goods, deduct \in BOOLEAN : PrepareRefund(w, o, amount, deduct)

Next ==
    \/ \E w \in Workers : Step(w) \/ Crash(w) \/ \E o \in Orders : Call(w, o)
    \/ \E o \in Orders : ProviderPays(o)
    \/ Spend \/ DayPasses

Spec == Init /\ [][Next]_vars

\* The goroutine of a request is scheduled until it returns.
FairSpec == Spec /\ \A w \in Workers : WF_vars(Step(w))

-----------------------------------------------------------------------------
(* Properties *)

TypeOK ==
    /\ status \in [Orders -> Statuses]
    /\ balance \in Int
    /\ subLive \in BOOLEAN
    /\ expiry \in Int
    /\ now \in Nat
    /\ rollbackFailed \in [Orders -> BOOLEAN]
    /\ taken \in [Orders -> Int]
    /\ accepted \in [Orders -> Nat]
    /\ paidBack \in [Orders -> Nat]
    /\ pc \in [Workers -> Labels]
    /\ ord \in [Workers -> Orders \cup {NoOrder}]
    /\ plan \in [Workers -> Plans]
    /\ faults \in Nat
    /\ slips \in [Orders -> Nat]

\* The status REFUNDING is a lock (ExecuteRefund): while a refund runs the row
\* says so, and no second administrator refunds the same order, whose every later
\* statement updates it by its id alone.
RefundExclusive ==
    \A w \in Workers : pc[w] \in Executing =>
        /\ status[ord[w]] = "REFUNDING"
        /\ \A v \in Workers \ {w} : pc[v] \in Executing => ord[v] # ord[w]

\* The provider accepts at most one refund of an order, of no more than it cost, and
\* pays no more: an order with an accepted refund, paid already or not, is not open to
\* another one (gwRefund, markRefundOk).
PaidBackOnce ==
    \A o \in Orders :
        /\ accepted[o] > 0 => accepted[o] =< Goods /\ status[o] \in Refunded \cup {"REFUNDING"}
        /\ paidBack[o] =< accepted[o]

\* The state is well formed, an order is refunded by one administrator at a time, and it is
\* paid back once.
Inv == TypeOK /\ RefundExclusive /\ PaidBackOnce

\* A second payment needs a failure: whatever fails, the provider is made to accept and
\* pay the price of an order no more often than once and once more for each failure
\* (gwRefund, handleGwFail, which takes an answer that was lost for a refusal).
RepaymentsNeedFailures ==
    \A o \in Orders : paidBack[o] =< accepted[o] /\ accepted[o] =< Goods * (faults + 1)

\* A balance order's goods are taken from the user once over all attempts to refund it,
\* and once more for each failure that leaves no trace of a deduction: a lost answer of
\* DeductBalance, after which ExecuteRefund restores the status as if nothing had been
\* deducted, or a failure of the audit log.  A rollback gives back no more than was taken
\* (RollbackRefund).
TakenOnce ==
    \A o \in Orders : taken[o] >= 0 /\ (Balance(o) => taken[o] =< Goods * (1 + slips[o]))

\* Whenever a balance order's goods are gone from the user, the order was refunded, a
\* refund is under way, the audit log says that a rollback failed, which is what the next
\* attempt goes by, or there was a failure of the kind named above.
TakenIsRecorded ==
    \A o \in Orders : Balance(o) /\ taken[o] > 0 =>
        \/ status[o] \in Refunded \cup {"REFUNDING"}
        \/ rollbackFailed[o]
        \/ slips[o] > 0

\* What a user has lost for an order is no more than the order bought, and is known of,
\* but for lost answers of DeductBalance and failures of the audit log (ExecuteRefund,
\* handleGwFail).
LossIsKnown == TakenOnce /\ TakenIsRecorded

\* No plan prepared before a refund succeeded is executed after it.
RefundFinal == [][\A o \in Orders : status[o] \in Refunded => status'[o] = status[o]]_vars

\* The rows, the user's balance and the provider's side of the orders, seen as the
\* ledger RefundLedger specifies.  The goods are those of balance orders: days may be
\* taken by an extension that reports failure, and by concurrent ones.
Ledger == INSTANCE RefundLedger WITH
    Uncalled <- NoTradeNo,
    gone <- [o \in Orders |-> IF Balance(o) THEN taken[o] ELSE 0],
    paid <- paidBack,   \* and accepted is the ledger's accepted
    closed <- {o \in Orders : status[o] \in Refunded}

\* The refund of an order, spread over statements that fail one by one, is what
\* RefundLedger promises (ExecuteRefund, handleGwFail), as long as answers of the provider
\* and of the statements on the balance arrive and the audit log works: nothing is taken
\* or given back once the provider has accepted, and REFUNDED is written only when it has.
\* It does not say that the provider has paid: gwRefund does not look at the status in its
\* answer, and REFUNDED stays when an accepted refund is declined later.
ImplementsLedger == Ledger!Spec

\* A refund that was begun succeeds, fails or is undone.
RefundEnds == \A o \in Orders : status[o] = "REFUNDING" ~> status[o] # "REFUNDING"
=============================================================================

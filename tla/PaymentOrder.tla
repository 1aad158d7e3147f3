---------------------------- MODULE PaymentOrder ----------------------------
(***************************************************************************)
(* The life of a payment order up to the delivery of what was bought:      *)
(* backend/internal/service/payment_order.go, payment_order_lifecycle.go,  *)
(* payment_fulfillment.go and the handlers that call them.                 *)
(*                                                                         *)
(* Every request, webhook delivery and background pass is a Worker that    *)
(* runs one handler at a time.  A step is one statement that reads or      *)
(* writes shared state (the order row, the redeem code, the user's         *)
(* balance, the provider), so handlers interleave between statements just  *)
(* as the goroutines of several server instances do.  All orders belong to *)
(* one user; orders of different users share nothing.                      *)
(***************************************************************************)
EXTENDS Naturals, FiniteSets

CONSTANTS
    Orders,      \* order ids
    SubOrders,   \* the orders of type "subscription"; the rest are "balance"
    NoOrder,     \* the order of a worker that serves none
    Workers,     \* goroutines
    MaxPending,  \* PaymentConfig.MaxPendingOrders
    Faults,      \* the kinds of failure that may happen
    MaxFaults    \* bound: how many failures happen in one behaviour

\* "gateway": a call to the provider fails.  "delivery": a statement between
\* taking and giving up RECHARGING, or of the rewards, reports an error, whether
\* or not it took effect.  "lock": the update that takes RECHARGING takes effect
\* and its answer is lost.  "markFailed": the update of markFailed fails.  "db":
\* any other statement fails.  "crash": the process dies.  A lost answer of those
\* other statements is not told apart: it is the statement followed by a failure
\* of the handler's next one or by a crash.
FaultKinds == {"crash", "db", "lock", "delivery", "markFailed", "gateway"}

\* The failures after which RECHARGING may have nobody to give it up.
LockLosses == {"crash", "lock", "markFailed"}

ASSUME OrdersAssumption == SubOrders \subseteq Orders /\ NoOrder \notin Orders
ASSUME LimitAssumption == MaxPending \in Nat \ {0} /\ MaxFaults \in Nat
ASSUME FaultsAssumption == Faults \subseteq FaultKinds
ASSUME FiniteAssumption == IsFiniteSet(Orders) /\ IsFiniteSet(Workers)

VARIABLES
    status,    \* payment_orders.status; "ABSENT" before the row exists
    paidAt,    \* payment_orders.paid_at is set
    fresh,     \* the order expired no longer than paymentGraceMinutes ago
    upstream,  \* the provider's view: no payment page, open, paid or closed
    code,      \* redeem_codes.status of the order's recharge code
    credits,   \* how often the goods of the order reached the user
    subAudit,  \* payment_audit_logs has SUBSCRIPTION_SUCCESS for the order
    gifts,     \* gift_balance_records per order and kind of reward
    acked,     \* the provider's webhook was answered with success
    pc,        \* the statement each worker executes next
    ord,       \* the order a worker serves
    via,       \* the entry point through which it was called
    first,     \* isFirstRecharge, as the worker read it
    faults,    \* failures so far
    losses     \* of these, how many were LockLosses

rowVars == <<status, paidAt, fresh>>
goodsVars == <<code, credits, subAudit>>
workerVars == <<pc, ord, via, first>>
vars == <<rowVars, upstream, goodsVars, gifts, acked, workerVars, faults, losses>>

\* The five refund statuses are one here: PaymentRefund tells them apart.
Statuses == {"ABSENT", "PENDING", "PAID", "RECHARGING", "COMPLETED",
             "EXPIRED", "CANCELLED", "FAILED", "REFUND"}

Entries == {"none", "create", "webhook", "cancel", "expire", "verify", "retry"}

GiftKinds == {"first", "ongoing"}

\* Statements of a fulfilment that took the RECHARGING lock and has not left it.
Locked == {"lookup", "createCode", "isFirst", "redeem", "subCheck", "subAssign",
           "markCompleted", "markFailed"}

\* Statements that only run once a payment was confirmed.
AfterPayment == Locked \cup {"toPaid", "alreadyProcessed", "fulfill", "lock",
                             "rewardCheck", "rewardGrant", "retryReset"}

Labels == {"idle", "insert", "provider", "createFailed", "query", "cancelUpdate"}
          \cup AfterPayment

Balance(o) == o \notin SubOrders

Init ==
    /\ status = [o \in Orders |-> "ABSENT"]
    /\ paidAt = [o \in Orders |-> FALSE]
    /\ fresh = [o \in Orders |-> FALSE]
    /\ upstream = [o \in Orders |-> "none"]
    /\ code = [o \in Orders |-> "absent"]
    /\ credits = [o \in Orders |-> 0]
    /\ subAudit = [o \in Orders |-> FALSE]
    /\ gifts = [o \in Orders |-> [k \in GiftKinds |-> 0]]
    /\ acked = [o \in Orders |-> FALSE]
    /\ pc = [w \in Workers |-> "idle"]
    /\ ord = [w \in Workers |-> NoOrder]
    /\ via = [w \in Workers |-> "none"]
    /\ first = [w \in Workers |-> FALSE]
    /\ faults = 0
    /\ losses = 0

-----------------------------------------------------------------------------
(* Control of a worker *)

At(w, label) == pc[w] = label

Goto(w, label) ==
    /\ pc' = [pc EXCEPT ![w] = label]
    /\ UNCHANGED <<ord, via, first>>

\* A handler is entered: the worker serves order o and runs from label on.
Enter(w, o, entry, label) ==
    /\ pc' = [pc EXCEPT ![w] = label]
    /\ ord' = [ord EXCEPT ![w] = o]
    /\ via' = [via EXCEPT ![w] = entry]
    /\ UNCHANGED first

\* The handler is gone: it returned, or its process died.
Leave(w) ==
    /\ pc' = [pc EXCEPT ![w] = "idle"]
    /\ ord' = [ord EXCEPT ![w] = NoOrder]
    /\ via' = [via EXCEPT ![w] = "none"]
    /\ first' = [first EXCEPT ![w] = FALSE]

\* The handler returns nil.  handleNotify answers a webhook with success only
\* then; on an error it answers 500 and the provider delivers again.
ReturnOk(w) ==
    /\ Leave(w)
    /\ acked' = IF via[w] = "webhook" THEN [acked EXCEPT ![ord[w]] = TRUE] ELSE acked

ReturnErr(w) == Leave(w) /\ UNCHANGED acked

NoFault == UNCHANGED <<faults, losses>>

Fault(kind) ==
    /\ kind \in Faults
    /\ faults < MaxFaults
    /\ faults' = faults + 1
    /\ losses' = IF kind \in LockLosses THEN losses + 1 ELSE losses

SetStatus(o, s) == status' = [status EXCEPT ![o] = s]

-----------------------------------------------------------------------------
(* CreateOrder *)

Pending == {o \in Orders : status[o] = "PENDING"}

\* Faulty variant: one order too many.
CheckPendingLimitLate(w) ==
    /\ At(w, "idle")
    /\ Cardinality(Pending) =< MaxPending
    /\ Enter(w, NoOrder, "create", "insert")
    /\ NoFault
    /\ UNCHANGED <<rowVars, upstream, goodsVars, gifts, acked>>

\* checkPendingLimit: the count is read, and the insert is a later statement of
\* a transaction that locks nothing.
CheckPendingLimit(w) ==
    /\ At(w, "idle")
    /\ Cardinality(Pending) < MaxPending
    /\ Enter(w, NoOrder, "create", "insert")
    /\ NoFault
    /\ UNCHANGED <<rowVars, upstream, goodsVars, gifts, acked>>

\* The insert fails when the bounded set of order ids is used up.
CreateOrderInTx(w) ==
    /\ At(w, "insert")
    /\ \/ /\ \E o \in Orders :
             /\ status[o] = "ABSENT"
             /\ SetStatus(o, "PENDING")
             /\ Enter(w, o, "create", "provider")
          /\ UNCHANGED acked
       \/ /\ \A o \in Orders : status[o] # "ABSENT"
          /\ ReturnErr(w)
          /\ UNCHANGED status
    /\ NoFault
    /\ UNCHANGED <<paidAt, fresh, upstream, goodsVars, gifts>>

\* invokeProvider: only when all of it succeeds does the user get a page to pay on.
InvokeProvider(w) ==
    /\ At(w, "provider")
    /\ \/ /\ upstream' = [upstream EXCEPT ![ord[w]] = "open"]
          /\ ReturnOk(w)
          /\ NoFault
       \/ /\ Fault("gateway")
          /\ Goto(w, "createFailed")
          /\ UNCHANGED <<upstream, acked>>
    /\ UNCHANGED <<rowVars, goodsVars, gifts>>

\* The row is set to FAILED whatever its status is by now; an error is dropped.
CreateFailed(w) ==
    /\ At(w, "createFailed")
    /\ \/ SetStatus(ord[w], "FAILED") /\ NoFault
       \/ Fault("db") /\ UNCHANGED status
    /\ ReturnErr(w)
    /\ UNCHANGED <<paidAt, fresh, upstream, goodsVars, gifts>>

-----------------------------------------------------------------------------
(* The payer and time *)

\* The user pays on the provider's page, whatever our row says meanwhile.
UserPays(o) ==
    /\ upstream[o] = "open"
    /\ upstream' = [upstream EXCEPT ![o] = "paid"]
    /\ NoFault
    /\ UNCHANGED <<rowVars, goodsVars, gifts, acked, workerVars>>

\* paymentGraceMinutes pass after the order expired.
GraceEnds(o) ==
    /\ status[o] = "EXPIRED"
    /\ fresh[o]
    /\ fresh' = [fresh EXCEPT ![o] = FALSE]
    /\ NoFault
    /\ UNCHANGED <<status, paidAt, upstream, goodsVars, gifts, acked, workerVars>>

\* A refund (PaymentRefund) takes a completed order and may hand it back.
Refund(o) ==
    /\ \/ status[o] = "COMPLETED" /\ SetStatus(o, "REFUND")
       \/ status[o] = "REFUND" /\ SetStatus(o, "COMPLETED")
    /\ NoFault
    /\ UNCHANGED <<paidAt, fresh, upstream, goodsVars, gifts, acked, workerVars>>

-----------------------------------------------------------------------------
(* CancelOrder, AdminCancelOrder, ExpireTimedOutOrders, VerifyOrder... *)

CancelOrder(w, o) ==
    /\ At(w, "idle")
    /\ status[o] = "PENDING"
    /\ Enter(w, o, "cancel", "query")
    /\ NoFault
    /\ UNCHANGED <<rowVars, upstream, goodsVars, gifts, acked>>

\* The expiry loop read the order as PENDING and past its deadline.
ExpireTimedOutOrders(w, o) ==
    /\ At(w, "idle")
    /\ status[o] = "PENDING"
    /\ Enter(w, o, "expire", "query")
    /\ NoFault
    /\ UNCHANGED <<rowVars, upstream, goodsVars, gifts, acked>>

VerifyOrder(w, o) ==
    /\ At(w, "idle")
    /\ status[o] \in {"PENDING", "EXPIRED"}
    /\ Enter(w, o, "verify", "query")
    /\ NoFault
    /\ UNCHANGED <<rowVars, upstream, goodsVars, gifts, acked>>

\* Where checkPaid goes on when it did not return already_paid.
NotPaid(w) ==
    IF via[w] = "verify" THEN ReturnOk(w)
    ELSE Goto(w, "cancelUpdate") /\ UNCHANGED acked

\* checkPaid: a query that fails counts as not paid; a provider that can close
\* the payment page is asked to, and its errors are dropped.
CheckPaid(w) ==
    /\ At(w, "query")
    /\ \/ /\ upstream[ord[w]] = "paid"
          /\ Goto(w, "toPaid")
          /\ NoFault
          /\ UNCHANGED <<upstream, acked>>
       \/ /\ upstream[ord[w]] # "paid"
          /\ \/ UNCHANGED upstream
             \/ /\ upstream[ord[w]] = "open"
                /\ upstream' = [upstream EXCEPT ![ord[w]] = "closed"]
          /\ NotPaid(w)
          /\ NoFault
       \/ /\ Fault("gateway")
          /\ NotPaid(w)
          /\ UNCHANGED upstream
    /\ UNCHANGED <<rowVars, goodsVars, gifts>>

\* Faulty variant: no WHERE status = PENDING.
CancelUpdateAlways(w) ==
    /\ At(w, "cancelUpdate")
    /\ SetStatus(ord[w], IF via[w] = "expire" THEN "EXPIRED" ELSE "CANCELLED")
    /\ fresh' = [fresh EXCEPT ![ord[w]] = (via[w] = "expire")]
    /\ ReturnOk(w)
    /\ NoFault
    /\ UNCHANGED <<paidAt, upstream, goodsVars, gifts>>

\* cancelCore: only an order that is still PENDING is cancelled or expired.
CancelUpdate(w) ==
    /\ At(w, "cancelUpdate")
    /\ IF status[ord[w]] = "PENDING"
       THEN /\ SetStatus(ord[w], IF via[w] = "expire" THEN "EXPIRED" ELSE "CANCELLED")
            /\ fresh' = [fresh EXCEPT ![ord[w]] = (via[w] = "expire")]
       ELSE UNCHANGED <<status, fresh>>
    /\ ReturnOk(w)
    /\ NoFault
    /\ UNCHANGED <<paidAt, upstream, goodsVars, gifts>>

-----------------------------------------------------------------------------
(* HandlePaymentNotification, confirmPayment, toPaid, alreadyProcessed *)

\* A verified success callback; providers deliver it again until it is
\* acknowledged, and may do so at any time.  confirmPayment answers a failed
\* read of the order with nil.
Webhook(w, o) ==
    /\ At(w, "idle")
    /\ upstream[o] = "paid"
    /\ \/ /\ Enter(w, o, "webhook", "toPaid")
          /\ NoFault
          /\ UNCHANGED acked
       \/ /\ Fault("db")
          /\ acked' = [acked EXCEPT ![o] = TRUE]
          /\ UNCHANGED workerVars
    /\ UNCHANGED <<rowVars, upstream, goodsVars, gifts>>

\* The rows the UPDATE of toPaid matches.
Payable(o) ==
    \/ status[o] \in {"PENDING", "CANCELLED"}
    \/ status[o] = "EXPIRED" /\ fresh[o]

ToPaid(w) ==
    /\ At(w, "toPaid")
    /\ IF Payable(ord[w])
       THEN /\ SetStatus(ord[w], "PAID")
            /\ paidAt' = [paidAt EXCEPT ![ord[w]] = TRUE]
            /\ fresh' = [fresh EXCEPT ![ord[w]] = FALSE]
            /\ Goto(w, "fulfill")
       ELSE Goto(w, "alreadyProcessed") /\ UNCHANGED <<status, paidAt, fresh>>
    /\ NoFault
    /\ UNCHANGED <<upstream, goodsVars, gifts, acked>>

AlreadyProcessed(w) ==
    /\ At(w, "alreadyProcessed")
    /\ \/ /\ status[ord[w]] = "FAILED"
          /\ Goto(w, "fulfill")
          /\ NoFault
          /\ UNCHANGED acked
       \/ /\ status[ord[w]] \in {"PAID", "RECHARGING"}
          /\ ReturnErr(w)
          /\ NoFault
       \/ /\ status[ord[w]] \notin {"FAILED", "PAID", "RECHARGING"}
          /\ ReturnOk(w)
          /\ NoFault
       \/ /\ Fault("db")
          /\ ReturnOk(w)
    /\ UNCHANGED <<rowVars, upstream, goodsVars, gifts>>

-----------------------------------------------------------------------------
(* ExecuteBalanceFulfillment, ExecuteSubscriptionFulfillment *)

\* The order is read: a completed one may still lack its rewards, a paid or a failed
\* one is to be locked, and any other is refused.
ExecuteBalanceFulfillment(w) ==
    /\ Balance(ord[w])
    /\ \/ /\ status[ord[w]] = "COMPLETED"
          /\ Goto(w, "rewardCheck")
          /\ UNCHANGED acked
       \/ /\ status[ord[w]] \in {"PAID", "FAILED"}
          /\ Goto(w, "lock")
          /\ UNCHANGED acked
       \/ /\ status[ord[w]] \notin {"COMPLETED", "PAID", "FAILED"}
          /\ ReturnErr(w)

ExecuteSubscriptionFulfillment(w) ==
    /\ ~Balance(ord[w])
    /\ \/ /\ status[ord[w]] = "COMPLETED"
          /\ ReturnOk(w)
       \/ /\ status[ord[w]] \in {"PAID", "FAILED"}
          /\ Goto(w, "lock")
          /\ UNCHANGED acked
       \/ /\ status[ord[w]] \notin {"COMPLETED", "PAID", "FAILED"}
          /\ ReturnErr(w)

Fulfill(w) ==
    /\ At(w, "fulfill")
    /\ ExecuteBalanceFulfillment(w) \/ ExecuteSubscriptionFulfillment(w)
    /\ NoFault
    /\ UNCHANGED <<rowVars, upstream, goodsVars, gifts>>

\* Faulty variant: the update takes the lock without looking at the status.
LockRechargingAlways(w) ==
    /\ At(w, "lock")
    /\ SetStatus(ord[w], "RECHARGING")
    /\ Goto(w, IF Balance(ord[w]) THEN "lookup" ELSE "subCheck")
    /\ NoFault
    /\ UNCHANGED <<paidAt, fresh, upstream, goodsVars, gifts, acked>>

\* UPDATE ... WHERE status IN (PAID, FAILED) SET status = RECHARGING: whoever
\* changes the row fulfils the order, the others return nil.  One that changed
\* the row and does not hear of it returns the error and leaves the row.
LockRecharging(w) ==
    /\ At(w, "lock")
    /\ \/ /\ status[ord[w]] \in {"PAID", "FAILED"}
          /\ SetStatus(ord[w], "RECHARGING")
          /\ \/ /\ Goto(w, IF Balance(ord[w]) THEN "lookup" ELSE "subCheck")
                /\ NoFault
                /\ UNCHANGED acked
             \/ Fault("lock") /\ ReturnErr(w)
       \/ /\ status[ord[w]] \notin {"PAID", "FAILED"}
          /\ ReturnOk(w)
          /\ NoFault
          /\ UNCHANGED status
    /\ UNCHANGED <<paidAt, fresh, upstream, goodsVars, gifts>>

\* Faulty variant: any existing code counts as redeemed.
RedeemActionExisting(c) == IF c = "absent" THEN "createCode" ELSE "markCompleted"

\* resolveRedeemAction: where doBalance goes on; a failed lookup means "create".
RedeemAction(c) ==
    CASE c = "absent" -> "createCode"
      [] c = "unused" -> "isFirst"
      [] c = "used"   -> "markCompleted"

LookupCode(w) ==
    /\ At(w, "lookup")
    /\ \/ Goto(w, RedeemAction(code[ord[w]])) /\ NoFault
       \/ Goto(w, "createCode") /\ Fault("delivery")
    /\ UNCHANGED <<rowVars, upstream, goodsVars, gifts, acked>>

\* CreateCode: the code is unique, so the insert fails where the code exists; and
\* it may report a failure after it.
CreateCode(w) ==
    /\ At(w, "createCode")
    /\ \/ /\ code[ord[w]] = "absent"
          /\ code' = [code EXCEPT ![ord[w]] = "unused"]
          /\ \/ Goto(w, "isFirst") /\ NoFault
             \/ Goto(w, "markFailed") /\ Fault("delivery")
       \/ /\ code[ord[w]] # "absent"
          /\ Goto(w, "markFailed")
          /\ NoFault
          /\ UNCHANGED code
       \/ /\ Fault("delivery")
          /\ Goto(w, "markFailed")
          /\ UNCHANGED code
    /\ UNCHANGED <<rowVars, upstream, credits, subAudit, gifts, acked>>

\* userRepo.IsFirstRecharge: TotalRecharged = 0, read before Redeem raises it.
IsFirstRecharge(w) ==
    /\ At(w, "isFirst")
    /\ \/ /\ first' = [first EXCEPT ![w] = \A o \in Orders \ SubOrders : credits[o] = 0]
          /\ NoFault
       \/ Fault("delivery") /\ UNCHANGED first
    /\ pc' = [pc EXCEPT ![w] = "redeem"]
    /\ UNCHANGED <<rowVars, upstream, goodsVars, gifts, acked, ord, via>>

\* Faulty variants: the code is not marked used; a failure is taken for success.
RedeemKeepsCode(w) ==
    /\ At(w, "redeem")
    /\ code[ord[w]] = "unused"
    /\ credits' = [credits EXCEPT ![ord[w]] = @ + 1]
    /\ Goto(w, "markCompleted")
    /\ NoFault
    /\ UNCHANGED <<rowVars, upstream, code, subAudit, gifts, acked>>

RedeemIgnoresError(w) ==
    /\ At(w, "redeem")
    /\ \/ /\ code[ord[w]] = "unused"
          /\ code' = [code EXCEPT ![ord[w]] = "used"]
          /\ credits' = [credits EXCEPT ![ord[w]] = @ + 1]
          /\ NoFault
       \/ Fault("delivery") /\ UNCHANGED <<code, credits>>
    /\ Goto(w, "markCompleted")
    /\ UNCHANGED <<rowVars, upstream, subAudit, gifts, acked>>

\* Redeem: code and balance change in one transaction that only takes an unused
\* code.  It may fail before the commit, or report a failure after it.
Redeem(w) ==
    /\ At(w, "redeem")
    /\ \/ /\ code[ord[w]] = "unused"
          /\ code' = [code EXCEPT ![ord[w]] = "used"]
          /\ credits' = [credits EXCEPT ![ord[w]] = @ + 1]
          /\ \/ Goto(w, "markCompleted") /\ NoFault
             \/ Goto(w, "markFailed") /\ Fault("delivery")
       \/ /\ code[ord[w]] # "unused"
          /\ Goto(w, "markFailed")
          /\ NoFault
          /\ UNCHANGED <<code, credits>>
       \/ /\ Fault("delivery")
          /\ Goto(w, "markFailed")
          /\ UNCHANGED <<code, credits>>
    /\ UNCHANGED <<rowVars, upstream, subAudit, gifts, acked>>

\* doSub up to hasAuditLog: a failed query of the log counts as "no entry"; a
\* group that cannot be read or is inactive fails the fulfilment.
SubCheck(w) ==
    /\ At(w, "subCheck")
    /\ \/ Goto(w, IF subAudit[ord[w]] THEN "markCompleted" ELSE "subAssign") /\ NoFault
       \/ Goto(w, "subAssign") /\ Fault("delivery")
       \/ Goto(w, "markFailed") /\ Fault("delivery")
    /\ UNCHANGED <<rowVars, upstream, goodsVars, gifts, acked>>

\* AssignOrExtendSubscription: an error may come after the extension.
SubAssign(w) ==
    /\ At(w, "subAssign")
    /\ \/ /\ credits' = [credits EXCEPT ![ord[w]] = @ + 1]
          /\ \/ Goto(w, "markCompleted") /\ NoFault
             \/ Goto(w, "markFailed") /\ Fault("delivery")
       \/ /\ Fault("delivery")
          /\ Goto(w, "markFailed")
          /\ UNCHANGED credits
    /\ UNCHANGED <<rowVars, upstream, code, subAudit, gifts, acked>>

\* markCompleted: the audit entry is written after the update, and only if the
\* update reported no error; the number of rows changed is not looked at.
MarkCompleted(w) ==
    /\ At(w, "markCompleted")
    /\ \/ /\ IF status[ord[w]] = "RECHARGING" THEN SetStatus(ord[w], "COMPLETED")
             ELSE UNCHANGED status
          /\ IF Balance(ord[w])
             THEN Goto(w, "rewardCheck") /\ UNCHANGED <<subAudit, acked>>
             ELSE ReturnOk(w) /\ subAudit' = [subAudit EXCEPT ![ord[w]] = TRUE]
          /\ NoFault
       \/ /\ Fault("delivery")
          /\ \/ UNCHANGED status
             \/ status[ord[w]] = "RECHARGING" /\ SetStatus(ord[w], "COMPLETED")
          /\ Goto(w, "markFailed")
          /\ UNCHANGED <<subAudit, acked>>
    /\ UNCHANGED <<paidAt, fresh, upstream, code, credits, gifts>>

\* Faulty variant: a failed fulfilment is logged and its lock kept.
MarkFailedKeepsLock(w) ==
    /\ At(w, "markFailed")
    /\ NoFault
    /\ ReturnErr(w)
    /\ UNCHANGED <<rowVars, upstream, goodsVars, gifts>>

\* markFailed: only an order still RECHARGING is failed, for markCompleted may have
\* completed it and not heard so; an update that fails is only logged.
MarkFailed(w) ==
    /\ At(w, "markFailed")
    /\ \/ /\ IF status[ord[w]] = "RECHARGING" THEN SetStatus(ord[w], "FAILED")
             ELSE UNCHANGED status
          /\ NoFault
       \/ Fault("markFailed") /\ UNCHANGED status
    /\ ReturnErr(w)
    /\ UNCHANGED <<paidAt, fresh, upstream, goodsVars, gifts>>

-----------------------------------------------------------------------------
(* handleBalanceRechargeRewards *)

\* The reward a recharge is given: HandleInviteeRewardOnFirstRecharge for the
\* first one, HandleOngoingRewardOnRecharge for the others.
RewardKind(w) == IF first[w] THEN "first" ELSE "ongoing"

\* Faulty variant: no source is named, and none is looked for.
RewardCheckNoSource(w) ==
    /\ At(w, "rewardCheck")
    /\ Goto(w, "rewardGrant")
    /\ NoFault
    /\ UNCHANGED <<rowVars, upstream, goodsVars, gifts, acked>>

\* grantGiftBalance: ExistsBySourceRef is read (an error counts as "no record");
\* the insert is a later statement, and no unique index backs the check.
RewardCheck(w) ==
    /\ At(w, "rewardCheck")
    /\ \/ /\ gifts[ord[w]][RewardKind(w)] > 0
          /\ ReturnOk(w)
          /\ NoFault
       \/ /\ gifts[ord[w]][RewardKind(w)] = 0
          /\ Goto(w, "rewardGrant")
          /\ NoFault
          /\ UNCHANGED acked
       \/ /\ Fault("delivery")
          /\ Goto(w, "rewardGrant")
          /\ UNCHANGED acked
    /\ UNCHANGED <<rowVars, upstream, goodsVars, gifts>>

RewardGrant(w) ==
    /\ At(w, "rewardGrant")
    /\ \/ /\ gifts' = [gifts EXCEPT ![ord[w]][RewardKind(w)] = @ + 1]
          /\ NoFault
       \/ Fault("delivery") /\ UNCHANGED gifts
    /\ ReturnOk(w)
    /\ UNCHANGED <<rowVars, upstream, goodsVars>>

-----------------------------------------------------------------------------
(* RetryFulfillment *)

\* Only a completed balance order (for its rewards) and a paid order that was
\* not delivered can be retried.
RetryFulfillment(w, o) ==
    /\ At(w, "idle")
    /\ \/ /\ status[o] = "COMPLETED"
          /\ Balance(o)
          /\ Enter(w, o, "retry", "fulfill")
       \/ /\ paidAt[o]
          /\ status[o] \in {"FAILED", "PAID"}
          /\ Enter(w, o, "retry", "retryReset")
    /\ NoFault
    /\ UNCHANGED <<rowVars, upstream, goodsVars, gifts, acked>>

RetryReset(w) ==
    /\ At(w, "retryReset")
    /\ IF status[ord[w]] \in {"FAILED", "PAID"} THEN SetStatus(ord[w], "PAID")
       ELSE UNCHANGED status
    /\ Goto(w, "fulfill")
    /\ NoFault
    /\ UNCHANGED <<paidAt, fresh, upstream, goodsVars, gifts, acked>>

-----------------------------------------------------------------------------
(* Failures that end a handler *)

\* Statements whose failure, without effect, makes the handler return the error and no
\* more.
Abortable == {"insert", "cancelUpdate", "toPaid", "fulfill", "lock", "retryReset"}

StatementFails(w) ==
    /\ pc[w] \in Abortable
    /\ Fault("db")
    /\ ReturnErr(w)
    /\ UNCHANGED <<rowVars, upstream, goodsVars, gifts>>

\* The process dies between two statements; what it wrote stays.
Crash(w) ==
    /\ pc[w] # "idle"
    /\ Fault("crash")
    /\ Leave(w)
    /\ UNCHANGED <<rowVars, upstream, goodsVars, gifts, acked>>

-----------------------------------------------------------------------------
\* What a running handler does on its own.
Step(w) ==
    \/ CreateOrderInTx(w) \/ InvokeProvider(w) \/ CreateFailed(w)
    \/ CheckPaid(w) \/ CancelUpdate(w)
    \/ ToPaid(w) \/ AlreadyProcessed(w)
    \/ Fulfill(w) \/ LockRecharging(w)
    \/ LookupCode(w) \/ CreateCode(w) \/ IsFirstRecharge(w) \/ Redeem(w)
    \/ SubCheck(w) \/ SubAssign(w)
    \/ MarkCompleted(w) \/ MarkFailed(w)
    \/ RewardCheck(w) \/ RewardGrant(w)
    \/ RetryReset(w)

\* What enters a handler.
Call(w, o) ==
    \/ CancelOrder(w, o) \/ ExpireTimedOutOrders(w, o) \/ VerifyOrder(w, o)
    \/ Webhook(w, o)
    \/ RetryFulfillment(w, o)

Environment(o) == UserPays(o) \/ GraceEnds(o) \/ Refund(o)

Next ==
    \/ \E w \in Workers :
        \/ CheckPendingLimit(w) \/ Step(w) \/ StatementFails(w) \/ Crash(w)
        \/ \E o \in Orders : Call(w, o)
    \/ \E o \in Orders : Environment(o)

Spec == Init /\ [][Next]_vars

-----------------------------------------------------------------------------
(* Fairness *)

\* Goroutines are scheduled, time passes, the provider delivers a callback that was not
\* acknowledged again, and the expiry loop visits every pending order.
Running ==
    /\ \A w \in Workers : WF_vars(Step(w))
    /\ \A o \in Orders :
        /\ WF_vars(GraceEnds(o))
        /\ SF_vars(~acked[o] /\ \E w \in Workers : Webhook(w, o))
        /\ SF_vars(\E w \in Workers : ExpireTimedOutOrders(w, o))

\* An administrator retries a paid order that was not delivered.
AdminRetries ==
    \A o \in Orders :
        SF_vars(credits[o] = 0 /\ \E w \in Workers : RetryFulfillment(w, o))

FairSpec == Spec /\ Running

AdminSpec == FairSpec /\ AdminRetries

-----------------------------------------------------------------------------
(* Properties *)

TypeOK ==
    /\ status \in [Orders -> Statuses]
    /\ paidAt \in [Orders -> BOOLEAN]
    /\ fresh \in [Orders -> BOOLEAN]
    /\ upstream \in [Orders -> {"none", "open", "paid", "closed"}]
    /\ code \in [Orders -> {"absent", "unused", "used"}]
    /\ credits \in [Orders -> Nat]
    /\ subAudit \in [Orders -> BOOLEAN]
    /\ gifts \in [Orders -> [GiftKinds -> Nat]]
    /\ acked \in [Orders -> BOOLEAN]
    /\ pc \in [Workers -> Labels]
    /\ ord \in [Workers -> Orders \cup {NoOrder}]
    /\ via \in [Workers -> Entries]
    /\ first \in [Workers -> BOOLEAN]
    /\ faults \in Nat
    /\ losses \in Nat

\* The status RECHARGING is a lock (ExecuteBalanceFulfillment and
\* ExecuteSubscriptionFulfillment): while a handler is between taking it and
\* giving it up the row says RECHARGING (or, where markCompleted did not hear that
\* it succeeded, says so already), whatever webhooks, retries, cancellations,
\* expiries and failed creations run beside it, and no second handler is there for
\* the same order.
FulfillmentExclusive ==
    \A w \in Workers : pc[w] \in Locked =>
        /\ \/ status[ord[w]] = "RECHARGING"
           \/ pc[w] = "markFailed" /\ status[ord[w]] \in {"COMPLETED", "REFUND"}
        /\ \A v \in Workers \ {w} : pc[v] \in Locked => ord[v] # ord[w]

\* The state is well formed, and an order is fulfilled by one handler at a time.
Inv == TypeOK /\ FulfillmentExclusive

\* The orders whose lock nobody has who would give it up; alreadyProcessed and
\* RetryFulfillment refuse them as being processed.
Abandoned ==
    {o \in Orders : status[o] = "RECHARGING" /\ \A w \in Workers : pc[w] \in Locked => ord[w] # o}

\* No way through a fulfilment leaves its order RECHARGING, whatever fails on it, except
\* three: a crash, a failing markFailed, and an update to RECHARGING
\* (ExecuteBalanceFulfillment, ExecuteSubscriptionFulfillment) that took effect and
\* reported an error.  Each of these leaves one order at most.
LocksAreReleased == Cardinality(Abandoned) =< losses

\* doBalance credits a balance order at most once, however often webhooks,
\* polls and retries fulfil it and wherever a run before them failed.
CreditedOnce == \A o \in Orders : Balance(o) => credits[o] =< 1

\* doSub looks for an audit entry that markCompleted writes last, so a retry after a
\* failed markCompleted extends the subscription again.  It does so for no other
\* reason: every extension beyond the first is preceded by a failure of its own,
\* whatever webhooks, polls and retries fulfil the order at once.
ExtensionsNeedFailures == \A o \in SubOrders : credits[o] =< 1 + faults

\* The goods of an order are delivered once (doBalance), or once and once more for each
\* failure (doSub).
DeliveredOnce == CreditedOnce /\ ExtensionsNeedFailures

\* An order is COMPLETED (or was, and is in a refund) only after its goods
\* reached the user: markCompleted is never reached past a failed delivery.
CompletedIsDelivered ==
    \A o \in Orders : status[o] \in {"COMPLETED", "REFUND"} => credits[o] > 0

\* Goods are only delivered for money the provider received: neither an order
\* whose creation failed nor a cancelled or expired one is ever fulfilled by
\* RetryFulfillment or by a poll without a payment.
DeliveredIsPaid == \A o \in Orders : credits[o] > 0 => upstream[o] = "paid"

\* The order of things is payment, delivery, completion, whatever is retried, polled or
\* cancelled (confirmPayment, ExecuteBalanceFulfillment, RetryFulfillment).
NothingIsSkipped == CompletedIsDelivered /\ DeliveredIsPaid

\* The requests that passed checkPendingLimit and have not inserted their order.
Inserting == {w \in Workers : pc[w] = "insert"}

\* checkPendingLimit counts in one statement and createOrderInTx inserts in a later one,
\* under no lock, so the limit can be passed; but only by requests that counted before
\* the others had inserted.  With those on their way there is never more than one order
\* per other request in flight beyond the limit.
PendingBounded ==
    Cardinality(Pending) + Cardinality(Inserting) < MaxPending + Cardinality(Workers)

\* grantGiftBalance finds the record of the same reward: however often a completed order
\* is retried, a reward is given again only by handlers that looked before the first of
\* them wrote, or whose look failed.
RewardsBounded ==
    \A o \in Orders, k \in GiftKinds : gifts[o][k] =< Cardinality(Workers) + faults

\* What the row says of a payment and of a completion is not taken back.  Once toPaid
\* recorded a payment, no cancellation, expiry or failed creation that read the order
\* earlier makes it an unpaid one; and a completed order leaves COMPLETED for a refund
\* only, no late webhook, retry or failed fulfilment (markFailed) re-opens it.
StatusesAdvance ==
    [][\A o \in Orders :
        /\ paidAt[o] => status'[o] \notin {"ABSENT", "PENDING", "CANCELLED", "EXPIRED"}
        /\ status[o] = "COMPLETED" => status'[o] \in {"COMPLETED", "REFUND"}]_vars

\* An order the user paid for is delivered in the end, unless it expired more
\* than the grace period before the payment was noticed.
PaidIsDelivered ==
    \A o \in Orders :
        upstream[o] = "paid" ~>
            (credits[o] > 0 \/ (status[o] = "EXPIRED" /\ ~fresh[o]))

\* The orders that buy balance, seen as the ledger OrderLedger specifies.
BalanceOrders == Orders \ SubOrders

Ledger == INSTANCE OrderLedger WITH
    Orders <- BalanceOrders,
    paid <- {o \in BalanceOrders : upstream[o] = "paid"},
    delivered <- [o \in BalanceOrders |-> credits[o]],
    complete <- {o \in BalanceOrders : status[o] \in {"COMPLETED", "REFUND"}}

\* The handlers implement the ledger: every statement of every handler, failing
\* or not, is a payment, the delivery, the completion or nothing at all.
ImplementsLedger == Ledger!Spec

=============================================================================

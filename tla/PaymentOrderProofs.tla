------------------------- MODULE PaymentOrderProofs -------------------------
(***************************************************************************)
(* Proofs about PaymentOrder, for any sets of orders and workers, any      *)
(* kinds of failure and any number of them.                                *)
(***************************************************************************)
EXTENDS PaymentOrder, FiniteSetTheorems, TLAPS

-----------------------------------------------------------------------------
(* The inductive invariant *)

Creating == {"provider", "createFailed"}

\* TypeOK in the four parts that statements change separately.
WorkerType ==
    /\ pc \in [Workers -> Labels]
    /\ ord \in [Workers -> Orders \cup {NoOrder}]
    /\ via \in [Workers -> Entries]
    /\ first \in [Workers -> BOOLEAN]

AckType == acked \in [Orders -> BOOLEAN]

RowType ==
    /\ status \in [Orders -> Statuses]
    /\ paidAt \in [Orders -> BOOLEAN]
    /\ fresh \in [Orders -> BOOLEAN]
    /\ upstream \in [Orders -> {"none", "open", "paid", "closed"}]

GoodsType ==
    /\ code \in [Orders -> {"absent", "unused", "used"}]
    /\ credits \in [Orders -> Nat]
    /\ subAudit \in [Orders -> BOOLEAN]
    /\ gifts \in [Orders -> [GiftKinds -> Nat]]
    /\ faults \in Nat
    /\ losses \in Nat

\* What the rows of one order say together.  No page can be paid before the row
\* exists; a payment recorded in whatever form is one the provider received; an
\* order recorded as paid is not in an unpaid status; it completes only after
\* its delivery; and its recharge code is used exactly when the balance was
\* credited, once.
OrderInv(o) ==
    /\ status[o] = "ABSENT" => upstream[o] = "none"
    /\ status[o] \in {"PAID", "RECHARGING", "COMPLETED", "REFUND"} => upstream[o] = "paid"
    /\ paidAt[o] =>
        /\ upstream[o] = "paid"
        /\ status[o] \in {"PAID", "RECHARGING", "COMPLETED", "FAILED", "REFUND"}
    /\ credits[o] > 0 => upstream[o] = "paid"
    /\ status[o] \in {"COMPLETED", "REFUND"} => credits[o] > 0
    /\ subAudit[o] => credits[o] > 0
    /\ Balance(o) => credits[o] = IF code[o] = "used" THEN 1 ELSE 0

\* What the place a worker is at says of its order.  While it creates the order
\* nobody can pay it (this is why the unconditional write of FAILED overwrites
\* no payment); after a confirmed payment the money is there; between taking
\* and giving up the lock the row says RECHARGING (but markFailed may find the
\* completion that reported an error); and it reaches markCompleted only after the
\* delivery.
WorkerInv(w) ==
    /\ pc[w] \notin {"idle", "insert"} => ord[w] \in Orders
    /\ pc[w] \in Creating => upstream[ord[w]] = "none" /\ status[ord[w]] # "ABSENT"
    /\ pc[w] \in AfterPayment => upstream[ord[w]] = "paid"
    /\ pc[w] \in Locked \ {"markFailed"} => status[ord[w]] = "RECHARGING"
    /\ pc[w] = "markFailed" => status[ord[w]] \in {"RECHARGING", "COMPLETED", "REFUND"}
    /\ pc[w] \in {"lookup", "createCode", "isFirst", "redeem"} => Balance(ord[w])
    /\ pc[w] \in {"subCheck", "subAssign"} => ~Balance(ord[w])
    /\ pc[w] = "markCompleted" => credits[ord[w]] > 0

\* Two workers neither fulfil nor create the same order.
Apart(u, v) ==
    /\ pc[u] \in Locked /\ pc[v] \in Locked => ord[u] # ord[v]
    /\ pc[u] \in Creating /\ pc[v] \in Creating => ord[u] # ord[v]

OrdersOK == \A o \in Orders : OrderInv(o)

WorkersOK == \A w \in Workers : WorkerInv(w)

AllApart == \A u \in Workers, v \in Workers : u # v => Apart(u, v)

IInv ==
    /\ WorkerType /\ AckType /\ RowType /\ GoodsType
    /\ OrdersOK /\ WorkersOK /\ AllApart

-----------------------------------------------------------------------------
(* Type correctness of the control of a worker *)

\* A Boolean function stays one when a Boolean is assigned to one of its points.
LEMMA ExceptBoolean ==
    ASSUME NEW S, NEW f \in [S -> BOOLEAN], NEW x, NEW b \in BOOLEAN
    PROVE  [f EXCEPT ![x] = b] \in [S -> BOOLEAN]
OBVIOUS

\* Goto, moving a worker within its handler, keeps the worker well typed.
LEMMA GotoType ==
    ASSUME WorkerType, NEW w \in Workers, NEW l \in Labels, Goto(w, l)
    PROVE  WorkerType'
BY DEF WorkerType, Goto

\* Enter, the start of a handler, keeps the worker well typed.
LEMMA EnterType ==
    ASSUME WorkerType, NEW w \in Workers, NEW o \in Orders \cup {NoOrder},
           NEW e \in Entries, NEW l \in Labels, Enter(w, o, e, l)
    PROVE  WorkerType'
BY DEF WorkerType, Enter

\* Leave, the end of a handler, keeps the worker well typed.
LEMMA LeaveType ==
    ASSUME WorkerType, NEW w \in Workers, Leave(w)
    PROVE  WorkerType'
BY DEF WorkerType, Leave, Labels, Entries

\* Returning from a handler keeps the worker and the acknowledgements well typed.
LEMMA ReturnType ==
    ASSUME WorkerType, AckType, NEW w \in Workers, ReturnOk(w) \/ ReturnErr(w)
    PROVE  WorkerType' /\ AckType'
<1>1. WorkerType'
  BY LeaveType DEF ReturnOk, ReturnErr
<1>2. AckType'
  BY DEF AckType, ReturnOk, ReturnErr
<1> QED
  BY <1>1, <1>2

\* resolveRedeemAction sends doBalance to one of its own statements.
LEMMA RedeemActionLabel ==
    ASSUME NEW c \in {"absent", "unused", "used"}
    PROVE  RedeemAction(c) \in Labels
BY DEF RedeemAction, Labels, AfterPayment, Locked

-----------------------------------------------------------------------------
(* The invariant holds initially and is kept by every statement *)

\* The four parts make up TypeOK.
LEMMA IInvTypeOK == IInv => TypeOK
BY DEF IInv, TypeOK, WorkerType, AckType, RowType, GoodsType

\* No order exists and no handler runs in the initial state, which satisfies IInv.
LEMMA InitIInv == Init => IInv
<1> SUFFICES ASSUME Init PROVE IInv
  OBVIOUS
<1> USE DEF Init
<1>1. WorkerType /\ AckType /\ RowType /\ GoodsType
  BY DEF WorkerType, AckType, RowType, GoodsType, Statuses, Entries, GiftKinds, Labels
<1>2. OrdersOK
  BY DEF OrdersOK, OrderInv
<1>3. WorkersOK
  BY DEF WorkersOK, WorkerInv, Creating, AfterPayment, Locked
<1>4. AllApart
  BY DEF AllApart, Apart, Creating, Locked
<1> QED
  BY <1>1, <1>2, <1>3, <1>4 DEF IInv

\* CheckPendingLimit keeps the invariant.
LEMMA CheckPendingLimitKeeps ==
    ASSUME IInv, NEW w \in Workers, CheckPendingLimit(w)
    PROVE  IInv'
<1> USE OrdersAssumption DEF IInv
<1>1. WorkerType' /\ AckType'
  BY EnterType DEF CheckPendingLimit, AckType, Labels, AfterPayment, Locked, Entries
<1>2. RowType'
  BY DEF CheckPendingLimit, RowType, rowVars
<1>3. GoodsType'
  BY DEF CheckPendingLimit, GoodsType, NoFault, goodsVars
<1>4. OrdersOK'
  BY DEF CheckPendingLimit, At, NoFault, rowVars, goodsVars, OrdersOK, OrderInv, Balance
<1>5. WorkersOK'
  BY DEF CheckPendingLimit, At, Enter, NoFault, rowVars, goodsVars, WorkersOK, WorkerInv, OrdersOK,
         OrderInv, AllApart, Apart, Creating, AfterPayment, Locked, Balance, WorkerType, RowType,
         GoodsType
<1>6. AllApart'
  BY DEF CheckPendingLimit, At, Enter, NoFault, rowVars, goodsVars, AllApart, Apart, WorkersOK,
         WorkerInv, OrdersOK, OrderInv, Creating, AfterPayment, Locked, Balance, WorkerType,
         RowType
<1> QED
  BY <1>1, <1>2, <1>3, <1>4, <1>5, <1>6

\* CreateOrderInTx keeps the invariant.
LEMMA CreateOrderInTxKeeps ==
    ASSUME IInv, NEW w \in Workers, CreateOrderInTx(w)
    PROVE  IInv'
<1> USE OrdersAssumption DEF IInv
<1>1. WorkerType' /\ AckType'
  BY EnterType, ReturnType DEF CreateOrderInTx, AckType, Labels, AfterPayment, Locked, Entries
<1>2. RowType'
  BY DEF CreateOrderInTx, RowType, SetStatus, Statuses
<1>3. GoodsType'
  BY DEF CreateOrderInTx, GoodsType, NoFault, goodsVars
<1>4. OrdersOK'
  BY DEF CreateOrderInTx, At, NoFault, SetStatus, goodsVars, OrdersOK, OrderInv, WorkersOK,
         WorkerInv, Creating, AfterPayment, Locked, RowType, GoodsType, Statuses, Balance
<1>5. WorkersOK'
  BY DEF CreateOrderInTx, At, Enter, Leave, ReturnErr, NoFault, SetStatus, goodsVars, WorkersOK,
         WorkerInv, OrdersOK, OrderInv, AllApart, Apart, Creating, AfterPayment, Locked, Balance,
         WorkerType, RowType, GoodsType
<1>6. AllApart'
  BY DEF CreateOrderInTx, At, Enter, Leave, ReturnErr, NoFault, SetStatus, goodsVars, AllApart,
         Apart, WorkersOK, WorkerInv, OrdersOK, OrderInv, Creating, AfterPayment, Locked, Balance,
         WorkerType, RowType
<1> QED
  BY <1>1, <1>2, <1>3, <1>4, <1>5, <1>6

\* InvokeProvider keeps the invariant.
LEMMA InvokeProviderKeeps ==
    ASSUME IInv, NEW w \in Workers, InvokeProvider(w)
    PROVE  IInv'
<1> USE OrdersAssumption DEF IInv
<1>1. WorkerType' /\ AckType'
  BY GotoType, ReturnType DEF InvokeProvider, AckType, Labels, AfterPayment, Locked
<1>2. RowType'
  BY DEF InvokeProvider, RowType, rowVars
<1>3. GoodsType'
  BY DEF InvokeProvider, GoodsType, NoFault, Fault, goodsVars
<1>4. OrdersOK'
  BY DEF InvokeProvider, At, NoFault, Fault, rowVars, goodsVars, OrdersOK, OrderInv, WorkersOK,
         WorkerInv, Creating, AfterPayment, Locked, RowType, GoodsType, Statuses, Balance
<1>5. WorkersOK'
  BY DEF InvokeProvider, At, Goto, Leave, ReturnOk, NoFault, Fault, rowVars, goodsVars, WorkersOK,
         WorkerInv, OrdersOK, OrderInv, AllApart, Apart, Creating, AfterPayment, Locked, Balance,
         WorkerType, RowType, GoodsType
<1>6. AllApart'
  BY DEF InvokeProvider, At, Goto, Leave, ReturnOk, NoFault, Fault, rowVars, goodsVars, AllApart,
         Apart, WorkersOK, WorkerInv, OrdersOK, OrderInv, Creating, AfterPayment, Locked, Balance,
         WorkerType, RowType
<1> QED
  BY <1>1, <1>2, <1>3, <1>4, <1>5, <1>6

\* CreateFailed keeps the invariant.
LEMMA CreateFailedKeeps ==
    ASSUME IInv, NEW w \in Workers, CreateFailed(w)
    PROVE  IInv'
<1> USE OrdersAssumption DEF IInv
<1>1. WorkerType' /\ AckType'
  BY ReturnType DEF CreateFailed, AckType
<1>2. RowType'
  BY DEF CreateFailed, RowType, SetStatus, Statuses
<1>3. GoodsType'
  BY DEF CreateFailed, GoodsType, NoFault, Fault, goodsVars
<1>4. OrdersOK'
  BY DEF CreateFailed, At, NoFault, Fault, SetStatus, goodsVars, OrdersOK, OrderInv, WorkersOK,
         WorkerInv, Creating, AfterPayment, Locked, RowType, GoodsType, Statuses, Balance
<1>5. WorkersOK'
  BY DEF CreateFailed, At, Leave, ReturnErr, NoFault, Fault, SetStatus, goodsVars, WorkersOK,
         WorkerInv, OrdersOK, OrderInv, AllApart, Apart, Creating, AfterPayment, Locked, Balance,
         WorkerType, RowType, GoodsType
<1>6. AllApart'
  BY DEF CreateFailed, At, Leave, ReturnErr, NoFault, Fault, SetStatus, goodsVars, AllApart, Apart,
         WorkersOK, WorkerInv, OrdersOK, OrderInv, Creating, AfterPayment, Locked, Balance,
         WorkerType, RowType
<1> QED
  BY <1>1, <1>2, <1>3, <1>4, <1>5, <1>6

\* UserPays keeps the invariant.
LEMMA UserPaysKeeps ==
    ASSUME IInv, NEW o \in Orders, UserPays(o)
    PROVE  IInv'
<1> USE OrdersAssumption DEF IInv
<1>1. WorkerType' /\ AckType'
  BY DEF UserPays, workerVars, WorkerType, AckType
<1>2. RowType'
  BY DEF UserPays, RowType, rowVars
<1>3. GoodsType'
  BY DEF UserPays, GoodsType, NoFault, goodsVars
<1>4. OrdersOK'
  BY DEF UserPays, NoFault, rowVars, goodsVars, workerVars, OrdersOK, OrderInv, WorkersOK,
         WorkerInv, Creating, AfterPayment, Locked, RowType, GoodsType, Statuses, Balance
<1>5. WorkersOK'
  BY DEF UserPays, NoFault, rowVars, goodsVars, workerVars, WorkersOK, WorkerInv, OrdersOK,
         OrderInv, AllApart, Apart, Creating, AfterPayment, Locked, Balance, WorkerType, RowType,
         GoodsType
<1>6. AllApart'
  BY DEF UserPays, NoFault, rowVars, goodsVars, workerVars, AllApart, Apart, WorkersOK, WorkerInv,
         OrdersOK, OrderInv, Creating, AfterPayment, Locked, Balance, WorkerType, RowType
<1> QED
  BY <1>1, <1>2, <1>3, <1>4, <1>5, <1>6

\* GraceEnds keeps the invariant.
LEMMA GraceEndsKeeps ==
    ASSUME IInv, NEW o \in Orders, GraceEnds(o)
    PROVE  IInv'
<1> USE OrdersAssumption DEF IInv
<1>1. WorkerType' /\ AckType'
  BY DEF GraceEnds, workerVars, WorkerType, AckType
<1>2. RowType'
  BY DEF GraceEnds, RowType
<1>3. GoodsType'
  BY DEF GraceEnds, GoodsType, NoFault, goodsVars
<1>4. OrdersOK'
  BY DEF GraceEnds, NoFault, goodsVars, workerVars, OrdersOK, OrderInv, Balance
<1>5. WorkersOK'
  BY DEF GraceEnds, NoFault, goodsVars, workerVars, WorkersOK, WorkerInv, OrdersOK, OrderInv,
         AllApart, Apart, Creating, AfterPayment, Locked, Balance, WorkerType, RowType, GoodsType
<1>6. AllApart'
  BY DEF GraceEnds, NoFault, goodsVars, workerVars, AllApart, Apart, WorkersOK, WorkerInv,
         OrdersOK, OrderInv, Creating, AfterPayment, Locked, Balance, WorkerType, RowType
<1> QED
  BY <1>1, <1>2, <1>3, <1>4, <1>5, <1>6

\* Refund keeps the invariant.
LEMMA RefundKeeps ==
    ASSUME IInv, NEW o \in Orders, Refund(o)
    PROVE  IInv'
<1> USE OrdersAssumption DEF IInv
<1>1. WorkerType' /\ AckType'
  BY DEF Refund, workerVars, WorkerType, AckType
<1>2. RowType'
  BY DEF Refund, RowType, SetStatus, Statuses
<1>3. GoodsType'
  BY DEF Refund, GoodsType, NoFault, goodsVars
<1>4. OrdersOK'
  BY DEF Refund, NoFault, SetStatus, goodsVars, workerVars, OrdersOK, OrderInv, WorkersOK,
         WorkerInv, Creating, AfterPayment, Locked, RowType, GoodsType, Statuses, Balance
<1>5. WorkersOK'
  BY DEF Refund, NoFault, SetStatus, goodsVars, workerVars, WorkersOK, WorkerInv, OrdersOK,
         OrderInv, AllApart, Apart, Creating, AfterPayment, Locked, Balance, WorkerType, RowType,
         GoodsType
<1>6. AllApart'
  BY DEF Refund, NoFault, SetStatus, goodsVars, workerVars, AllApart, Apart, WorkersOK, WorkerInv,
         OrdersOK, OrderInv, Creating, AfterPayment, Locked, Balance, WorkerType, RowType
<1> QED
  BY <1>1, <1>2, <1>3, <1>4, <1>5, <1>6

\* CancelOrder keeps the invariant.
LEMMA CancelOrderKeeps ==
    ASSUME IInv, NEW w \in Workers, NEW o \in Orders, CancelOrder(w, o)
    PROVE  IInv'
<1> USE OrdersAssumption DEF IInv
<1>1. WorkerType' /\ AckType'
  BY EnterType DEF CancelOrder, AckType, Labels, AfterPayment, Locked, Entries
<1>2. RowType'
  BY DEF CancelOrder, RowType, rowVars
<1>3. GoodsType'
  BY DEF CancelOrder, GoodsType, NoFault, goodsVars
<1>4. OrdersOK'
  BY DEF CancelOrder, At, NoFault, rowVars, goodsVars, OrdersOK, OrderInv, Balance
<1>5. WorkersOK'
  BY DEF CancelOrder, At, Enter, NoFault, rowVars, goodsVars, WorkersOK, WorkerInv, OrdersOK,
         OrderInv, AllApart, Apart, Creating, AfterPayment, Locked, Balance, WorkerType, RowType,
         GoodsType
<1>6. AllApart'
  BY DEF CancelOrder, At, Enter, NoFault, rowVars, goodsVars, AllApart, Apart, WorkersOK,
         WorkerInv, OrdersOK, OrderInv, Creating, AfterPayment, Locked, Balance, WorkerType,
         RowType
<1> QED
  BY <1>1, <1>2, <1>3, <1>4, <1>5, <1>6

\* ExpireTimedOutOrders keeps the invariant.
LEMMA ExpireTimedOutOrdersKeeps ==
    ASSUME IInv, NEW w \in Workers, NEW o \in Orders, ExpireTimedOutOrders(w, o)
    PROVE  IInv'
<1> USE OrdersAssumption DEF IInv
<1>1. WorkerType' /\ AckType'
  BY EnterType DEF ExpireTimedOutOrders, AckType, Labels, AfterPayment, Locked, Entries
<1>2. RowType'
  BY DEF ExpireTimedOutOrders, RowType, rowVars
<1>3. GoodsType'
  BY DEF ExpireTimedOutOrders, GoodsType, NoFault, goodsVars
<1>4. OrdersOK'
  BY DEF ExpireTimedOutOrders, At, NoFault, rowVars, goodsVars, OrdersOK, OrderInv, Balance
<1>5. WorkersOK'
  BY DEF ExpireTimedOutOrders, At, Enter, NoFault, rowVars, goodsVars, WorkersOK, WorkerInv,
         OrdersOK, OrderInv, AllApart, Apart, Creating, AfterPayment, Locked, Balance, WorkerType,
         RowType, GoodsType
<1>6. AllApart'
  BY DEF ExpireTimedOutOrders, At, Enter, NoFault, rowVars, goodsVars, AllApart, Apart, WorkersOK,
         WorkerInv, OrdersOK, OrderInv, Creating, AfterPayment, Locked, Balance, WorkerType,
         RowType
<1> QED
  BY <1>1, <1>2, <1>3, <1>4, <1>5, <1>6

\* VerifyOrder keeps the invariant.
LEMMA VerifyOrderKeeps ==
    ASSUME IInv, NEW w \in Workers, NEW o \in Orders, VerifyOrder(w, o)
    PROVE  IInv'
<1> USE OrdersAssumption DEF IInv
<1>1. WorkerType' /\ AckType'
  BY EnterType DEF VerifyOrder, AckType, Labels, AfterPayment, Locked, Entries
<1>2. RowType'
  BY DEF VerifyOrder, RowType, rowVars
<1>3. GoodsType'
  BY DEF VerifyOrder, GoodsType, NoFault, goodsVars
<1>4. OrdersOK'
  BY DEF VerifyOrder, At, NoFault, rowVars, goodsVars, OrdersOK, OrderInv, Balance
<1>5. WorkersOK'
  BY DEF VerifyOrder, At, Enter, NoFault, rowVars, goodsVars, WorkersOK, WorkerInv, OrdersOK,
         OrderInv, AllApart, Apart, Creating, AfterPayment, Locked, Balance, WorkerType, RowType,
         GoodsType
<1>6. AllApart'
  BY DEF VerifyOrder, At, Enter, NoFault, rowVars, goodsVars, AllApart, Apart, WorkersOK,
         WorkerInv, OrdersOK, OrderInv, Creating, AfterPayment, Locked, Balance, WorkerType,
         RowType
<1> QED
  BY <1>1, <1>2, <1>3, <1>4, <1>5, <1>6

\* CheckPaid keeps the invariant.
LEMMA CheckPaidKeeps ==
    ASSUME IInv, NEW w \in Workers, CheckPaid(w)
    PROVE  IInv'
<1> USE OrdersAssumption DEF IInv
<1>1. WorkerType' /\ AckType'
  BY GotoType, ReturnType DEF CheckPaid, NotPaid, AckType, Labels, AfterPayment, Locked
<1>2. RowType'
  BY DEF CheckPaid, RowType, rowVars
<1>3. GoodsType'
  BY DEF CheckPaid, GoodsType, NoFault, Fault, goodsVars
<1>4. OrdersOK'
  BY DEF CheckPaid, At, NoFault, Fault, NotPaid, rowVars, goodsVars, OrdersOK, OrderInv, WorkersOK,
         WorkerInv, Creating, AfterPayment, Locked, RowType, GoodsType, Statuses, Balance
<1>5. WorkersOK'
  BY DEF CheckPaid, At, Goto, Leave, ReturnOk, NoFault, Fault, NotPaid, rowVars, goodsVars,
         WorkersOK, WorkerInv, OrdersOK, OrderInv, AllApart, Apart, Creating, AfterPayment, Locked,
         Balance, WorkerType, RowType, GoodsType
<1>6. AllApart'
  BY DEF CheckPaid, At, Goto, Leave, ReturnOk, NoFault, Fault, NotPaid, rowVars, goodsVars,
         AllApart, Apart, WorkersOK, WorkerInv, OrdersOK, OrderInv, Creating, AfterPayment, Locked,
         Balance, WorkerType, RowType
<1> QED
  BY <1>1, <1>2, <1>3, <1>4, <1>5, <1>6

\* CancelUpdate keeps the invariant.
LEMMA CancelUpdateKeeps ==
    ASSUME IInv, NEW w \in Workers, CancelUpdate(w)
    PROVE  IInv'
<1> USE OrdersAssumption DEF IInv
<1>1. WorkerType' /\ AckType'
  BY ReturnType DEF CancelUpdate, AckType
<1>2. RowType'
  BY DEF CancelUpdate, RowType, SetStatus, Statuses
<1>3. GoodsType'
  BY DEF CancelUpdate, GoodsType, NoFault, goodsVars
<1>4. OrdersOK'
  <2>1. CASE status[ord[w]] = "PENDING"
    <3> DEFINE s == IF via[w] = "expire" THEN "EXPIRED" ELSE "CANCELLED"
    <3>1. s \in {"EXPIRED", "CANCELLED"}
      OBVIOUS
    <3>2. status' = [status EXCEPT ![ord[w]] = s]
      BY <2>1 DEF CancelUpdate, SetStatus
    <3> HIDE DEF s
    <3> QED
      BY <2>1, <3>1, <3>2
      DEF CancelUpdate, goodsVars, OrdersOK, OrderInv, RowType, GoodsType, Balance
  <2>2. CASE status[ord[w]] # "PENDING"
    BY <2>2 DEF CancelUpdate, goodsVars, OrdersOK, OrderInv, Balance
  <2> QED
    BY <2>1, <2>2
<1>5. WorkersOK'
  BY DEF CancelUpdate, At, Leave, ReturnOk, NoFault, SetStatus, goodsVars, WorkersOK, WorkerInv,
         OrdersOK, OrderInv, AllApart, Apart, Creating, AfterPayment, Locked, Balance, WorkerType,
         RowType, GoodsType
<1>6. AllApart'
  BY DEF CancelUpdate, At, Leave, ReturnOk, NoFault, SetStatus, goodsVars, AllApart, Apart,
         WorkersOK, WorkerInv, OrdersOK, OrderInv, Creating, AfterPayment, Locked, Balance,
         WorkerType, RowType
<1> QED
  BY <1>1, <1>2, <1>3, <1>4, <1>5, <1>6

\* Webhook keeps the invariant.
LEMMA WebhookKeeps ==
    ASSUME IInv, NEW w \in Workers, NEW o \in Orders, Webhook(w, o)
    PROVE  IInv'
<1> USE OrdersAssumption DEF IInv
<1>1. WorkerType' /\ AckType'
  <2>1. CASE Enter(w, o, "webhook", "toPaid") /\ UNCHANGED acked
    BY <2>1, EnterType DEF AckType, Labels, AfterPayment, Entries
  <2>2. CASE acked' = [acked EXCEPT ![o] = TRUE] /\ UNCHANGED workerVars
    BY <2>2, ExceptBoolean DEF AckType, WorkerType, workerVars
  <2> QED
    BY <2>1, <2>2 DEF Webhook
<1>2. RowType'
  BY DEF Webhook, RowType, rowVars
<1>3. GoodsType'
  BY DEF Webhook, GoodsType, NoFault, Fault, goodsVars
<1>4. OrdersOK'
  BY DEF Webhook, At, NoFault, Fault, rowVars, goodsVars, workerVars, OrdersOK, OrderInv, Balance
<1>5. WorkersOK'
  BY DEF Webhook, At, Enter, NoFault, Fault, rowVars, goodsVars, workerVars, WorkersOK, WorkerInv,
         OrdersOK, OrderInv, AllApart, Apart, Creating, AfterPayment, Locked, Balance, WorkerType,
         RowType, GoodsType
<1>6. AllApart'
  BY DEF Webhook, At, Enter, NoFault, Fault, rowVars, goodsVars, workerVars, AllApart, Apart,
         WorkersOK, WorkerInv, OrdersOK, OrderInv, Creating, AfterPayment, Locked, Balance,
         WorkerType, RowType
<1> QED
  BY <1>1, <1>2, <1>3, <1>4, <1>5, <1>6

\* ToPaid keeps the invariant.
LEMMA ToPaidKeeps ==
    ASSUME IInv, NEW w \in Workers, ToPaid(w)
    PROVE  IInv'
<1> USE OrdersAssumption DEF IInv
<1>1. WorkerType' /\ AckType'
  BY GotoType DEF ToPaid, AckType, Labels, AfterPayment, Locked
<1>2. RowType'
  BY DEF ToPaid, RowType, SetStatus, Statuses
<1>3. GoodsType'
  BY DEF ToPaid, GoodsType, NoFault, goodsVars
<1>4. OrdersOK'
  BY DEF ToPaid, At, NoFault, SetStatus, Payable, goodsVars, OrdersOK, OrderInv, WorkersOK,
         WorkerInv, Creating, AfterPayment, Locked, RowType, GoodsType, Statuses, Balance
<1>5. WorkersOK'
  <2>1. CASE Payable(ord[w])
    <3>1. /\ ord[w] \in Orders
          /\ upstream[ord[w]] = "paid"
          /\ pc' = [pc EXCEPT ![w] = "fulfill"]
          /\ status' = [status EXCEPT ![ord[w]] = "PAID"]
          /\ UNCHANGED <<ord, upstream, credits>>
      BY <2>1
      DEF ToPaid, At, Goto, SetStatus, goodsVars, WorkersOK, WorkerInv, AfterPayment
    <3>2. status[ord[w]] \notin {"RECHARGING", "COMPLETED", "REFUND"}
      BY <2>1 DEF Payable
    <3> QED
      BY <3>1, <3>2
      DEF WorkersOK, WorkerInv, Creating, AfterPayment, Locked, Balance, WorkerType, RowType
  <2>2. CASE ~Payable(ord[w])
    BY <2>2
    DEF ToPaid, At, Goto, goodsVars, WorkersOK, WorkerInv, Creating, AfterPayment, Locked, Balance,
        WorkerType
  <2> QED
    BY <2>1, <2>2
<1>6. AllApart'
  BY DEF ToPaid, At, Goto, NoFault, SetStatus, Payable, goodsVars, AllApart, Apart, WorkersOK,
         WorkerInv, OrdersOK, OrderInv, Creating, AfterPayment, Locked, Balance, WorkerType,
         RowType
<1> QED
  BY <1>1, <1>2, <1>3, <1>4, <1>5, <1>6

\* AlreadyProcessed keeps the invariant.
LEMMA AlreadyProcessedKeeps ==
    ASSUME IInv, NEW w \in Workers, AlreadyProcessed(w)
    PROVE  IInv'
<1> USE OrdersAssumption DEF IInv
<1>1. WorkerType' /\ AckType'
  BY GotoType, ReturnType DEF AlreadyProcessed, AckType, Labels, AfterPayment, Locked
<1>2. RowType'
  BY DEF AlreadyProcessed, RowType, rowVars
<1>3. GoodsType'
  BY DEF AlreadyProcessed, GoodsType, NoFault, Fault, goodsVars
<1>4. OrdersOK'
  BY DEF AlreadyProcessed, At, NoFault, Fault, rowVars, goodsVars, OrdersOK, OrderInv, Balance
<1>5. WorkersOK'
  BY DEF AlreadyProcessed, At, Goto, Leave, ReturnOk, ReturnErr, NoFault, Fault, rowVars,
         goodsVars, WorkersOK, WorkerInv, OrdersOK, OrderInv, AllApart, Apart, Creating,
         AfterPayment, Locked, Balance, WorkerType, RowType, GoodsType
<1>6. AllApart'
  BY DEF AlreadyProcessed, At, Goto, Leave, ReturnOk, ReturnErr, NoFault, Fault, rowVars,
         goodsVars, AllApart, Apart, WorkersOK, WorkerInv, OrdersOK, OrderInv, Creating,
         AfterPayment, Locked, Balance, WorkerType, RowType
<1> QED
  BY <1>1, <1>2, <1>3, <1>4, <1>5, <1>6

\* Fulfill keeps the invariant.
LEMMA FulfillKeeps ==
    ASSUME IInv, NEW w \in Workers, Fulfill(w)
    PROVE  IInv'
<1> USE OrdersAssumption DEF IInv
<1>1. WorkerType' /\ AckType'
  BY GotoType, ReturnType
  DEF Fulfill, ExecuteBalanceFulfillment, ExecuteSubscriptionFulfillment, AckType, Labels,
      AfterPayment, Locked
<1>2. RowType'
  BY DEF Fulfill, RowType, rowVars
<1>3. GoodsType'
  BY DEF Fulfill, GoodsType, NoFault, goodsVars
<1>4. OrdersOK'
  BY DEF Fulfill, At, NoFault, rowVars, goodsVars, OrdersOK, OrderInv, Balance
<1>5. WorkersOK'
  BY DEF Fulfill, ExecuteBalanceFulfillment, ExecuteSubscriptionFulfillment, At, Goto, Leave,
         ReturnOk, ReturnErr, NoFault, rowVars, goodsVars, WorkersOK, WorkerInv, OrdersOK,
         OrderInv, AllApart, Apart, Creating, AfterPayment, Locked, Balance, WorkerType, RowType,
         GoodsType
<1>6. AllApart'
  BY DEF Fulfill, ExecuteBalanceFulfillment, ExecuteSubscriptionFulfillment, At, Goto, Leave,
         ReturnOk, ReturnErr, NoFault, rowVars, goodsVars, AllApart, Apart, WorkersOK, WorkerInv,
         OrdersOK, OrderInv, Creating, AfterPayment, Locked, Balance, WorkerType, RowType
<1> QED
  BY <1>1, <1>2, <1>3, <1>4, <1>5, <1>6

\* LockRecharging keeps the invariant.
LEMMA LockRechargingKeeps ==
    ASSUME IInv, NEW w \in Workers, LockRecharging(w)
    PROVE  IInv'
<1> USE OrdersAssumption DEF IInv
<1>1. WorkerType' /\ AckType'
  BY GotoType, ReturnType DEF LockRecharging, AckType, Labels, AfterPayment, Locked
<1>2. RowType'
  BY DEF LockRecharging, RowType, SetStatus, Statuses
<1>3. GoodsType'
  BY DEF LockRecharging, GoodsType, NoFault, Fault, goodsVars
<1>4. OrdersOK'
  BY DEF LockRecharging, At, SetStatus, goodsVars, OrdersOK, OrderInv, WorkersOK,
         WorkerInv, Creating, AfterPayment, Locked, RowType, GoodsType, Statuses, Balance
<1>5. WorkersOK'
  <2> DEFINE next == IF Balance(ord[w]) THEN "lookup" ELSE "subCheck"
  <2>1. CASE SetStatus(ord[w], "RECHARGING") /\ Goto(w, next)
    <3>1. /\ ord[w] \in Orders
          /\ upstream[ord[w]] = "paid"
          /\ status[ord[w]] \in {"PAID", "FAILED"}
          /\ pc' = [pc EXCEPT ![w] = next]
          /\ status' = [status EXCEPT ![ord[w]] = "RECHARGING"]
          /\ UNCHANGED <<ord, upstream, credits>>
      BY <2>1
      DEF LockRecharging, At, Goto, SetStatus, goodsVars, WorkersOK, WorkerInv, AfterPayment,
          ReturnOk, Leave, IInv, WorkerType, RowType
    <3> QED
      BY <3>1
      DEF WorkersOK, WorkerInv, Creating, AfterPayment, Locked, Balance, WorkerType, RowType
  <2>2. CASE SetStatus(ord[w], "RECHARGING") /\ Leave(w)
    <3>1. ord[w] \in Orders /\ status[ord[w]] # "REFUND" /\ status[ord[w]] # "COMPLETED"
      BY <2>2 DEF LockRecharging, At, SetStatus, WorkersOK, WorkerInv, AfterPayment, RowType
    <3> QED
      BY <2>2, <3>1
      DEF LockRecharging, SetStatus, Leave, goodsVars, WorkersOK, WorkerInv, Creating,
          AfterPayment, Locked, Balance, WorkerType, RowType
  <2>3. CASE UNCHANGED status /\ Leave(w)
    BY <2>3
    DEF LockRecharging, Leave, goodsVars, WorkersOK, WorkerInv, Creating, AfterPayment, Locked,
        Balance, WorkerType
  <2> QED
    BY <2>1, <2>2, <2>3 DEF LockRecharging, ReturnOk, ReturnErr
<1>6. AllApart'
  BY DEF LockRecharging, At, Goto, Leave, ReturnOk, ReturnErr, SetStatus, goodsVars, AllApart,
         Apart, WorkersOK, WorkerInv, OrdersOK, OrderInv, Creating, AfterPayment, Locked, Balance,
         WorkerType, RowType
<1> QED
  BY <1>1, <1>2, <1>3, <1>4, <1>5, <1>6

\* LookupCode keeps the invariant.
LEMMA LookupCodeKeeps ==
    ASSUME IInv, NEW w \in Workers, LookupCode(w)
    PROVE  IInv'
<1> USE OrdersAssumption DEF IInv
<1>1. WorkerType' /\ AckType'
  <2>1. PICK l \in Labels : Goto(w, l)
    BY RedeemActionLabel
    DEF LookupCode, At, WorkersOK, WorkerInv, GoodsType, Labels, AfterPayment, Locked
  <2> QED
    BY <2>1, GotoType DEF LookupCode, AckType
<1>2. RowType'
  BY DEF LookupCode, RowType, rowVars
<1>3. GoodsType'
  BY DEF LookupCode, GoodsType, NoFault, Fault, goodsVars
<1>4. OrdersOK'
  BY DEF LookupCode, At, NoFault, Fault, RedeemAction, rowVars, goodsVars, OrdersOK, OrderInv,
         Balance
<1>5. WorkersOK'
  BY DEF LookupCode, At, Goto, NoFault, Fault, RedeemAction, rowVars, goodsVars, WorkersOK,
         WorkerInv, OrdersOK, OrderInv, AllApart, Apart, Creating, AfterPayment, Locked, Balance,
         WorkerType, RowType, GoodsType
<1>6. AllApart'
  BY DEF LookupCode, At, Goto, NoFault, Fault, RedeemAction, rowVars, goodsVars, AllApart, Apart,
         WorkersOK, WorkerInv, OrdersOK, OrderInv, Creating, AfterPayment, Locked, Balance,
         WorkerType, RowType
<1> QED
  BY <1>1, <1>2, <1>3, <1>4, <1>5, <1>6

\* CreateCode keeps the invariant.
LEMMA CreateCodeKeeps ==
    ASSUME IInv, NEW w \in Workers, CreateCode(w)
    PROVE  IInv'
<1> USE OrdersAssumption DEF IInv
<1>1. WorkerType' /\ AckType'
  BY GotoType DEF CreateCode, AckType, Labels, AfterPayment, Locked
<1>2. RowType'
  BY DEF CreateCode, RowType, rowVars
<1>3. GoodsType'
  BY DEF CreateCode, GoodsType, NoFault, Fault
<1>4. OrdersOK'
  BY DEF CreateCode, At, NoFault, Fault, rowVars, OrdersOK, OrderInv, WorkersOK, WorkerInv,
         Creating, AfterPayment, Locked, RowType, GoodsType, Statuses, Balance
<1>5. WorkersOK'
  BY DEF CreateCode, At, Goto, NoFault, Fault, rowVars, WorkersOK, WorkerInv, OrdersOK, OrderInv,
         AllApart, Apart, Creating, AfterPayment, Locked, Balance, WorkerType, RowType, GoodsType
<1>6. AllApart'
  BY DEF CreateCode, At, Goto, NoFault, Fault, rowVars, AllApart, Apart, WorkersOK, WorkerInv,
         OrdersOK, OrderInv, Creating, AfterPayment, Locked, Balance, WorkerType, RowType
<1> QED
  BY <1>1, <1>2, <1>3, <1>4, <1>5, <1>6

\* IsFirstRecharge keeps the invariant.
LEMMA IsFirstRechargeKeeps ==
    ASSUME IInv, NEW w \in Workers, IsFirstRecharge(w)
    PROVE  IInv'
<1> USE OrdersAssumption DEF IInv
<1>1. WorkerType' /\ AckType'
  <2>1. pc' = [pc EXCEPT ![w] = "redeem"] /\ UNCHANGED <<acked, ord, via>>
    BY DEF IsFirstRecharge
  <2>2. first' \in [Workers -> BOOLEAN]
    <3> DEFINE none == \A o \in Orders \ SubOrders : credits[o] = 0
    <3>1. none \in BOOLEAN
      OBVIOUS
    <3>2. first \in [Workers -> BOOLEAN]
      BY DEF WorkerType
    <3>3. [first EXCEPT ![w] = none] \in [Workers -> BOOLEAN]
      <4> HIDE DEF none
      <4> QED
        BY <3>1, <3>2, ExceptBoolean
    <3> QED
      BY <3>2, <3>3 DEF IsFirstRecharge
  <2> QED
    BY <2>1, <2>2 DEF WorkerType, AckType, Labels, AfterPayment, Locked
<1>2. RowType'
  BY DEF IsFirstRecharge, RowType, rowVars
<1>3. GoodsType'
  BY DEF IsFirstRecharge, GoodsType, NoFault, Fault, goodsVars
<1>4. OrdersOK'
  BY DEF IsFirstRecharge, At, NoFault, Fault, rowVars, goodsVars, OrdersOK, OrderInv, Balance
<1>5. WorkersOK'
  BY DEF IsFirstRecharge, At, NoFault, Fault, rowVars, goodsVars, WorkersOK, WorkerInv, OrdersOK,
         OrderInv, AllApart, Apart, Creating, AfterPayment, Locked, Balance, WorkerType, RowType,
         GoodsType
<1>6. AllApart'
  BY DEF IsFirstRecharge, At, NoFault, Fault, rowVars, goodsVars, AllApart, Apart, WorkersOK,
         WorkerInv, OrdersOK, OrderInv, Creating, AfterPayment, Locked, Balance, WorkerType,
         RowType
<1> QED
  BY <1>1, <1>2, <1>3, <1>4, <1>5, <1>6

\* Redeem keeps the invariant.
LEMMA RedeemKeeps ==
    ASSUME IInv, NEW w \in Workers, Redeem(w)
    PROVE  IInv'
<1> USE OrdersAssumption DEF IInv
<1>1. WorkerType' /\ AckType'
  BY GotoType DEF Redeem, AckType, Labels, AfterPayment, Locked
<1>2. RowType'
  BY DEF Redeem, RowType, rowVars
<1>3. GoodsType'
  <2>1. ord[w] \in Orders
    BY DEF Redeem, At, WorkersOK, WorkerInv
  <2>2. code' \in [Orders -> {"absent", "unused", "used"}]
    BY DEF Redeem, GoodsType
  <2>3. credits' \in [Orders -> Nat]
    BY <2>1 DEF Redeem, GoodsType
  <2>4. faults' \in Nat /\ losses' \in Nat
    BY DEF Redeem, GoodsType, NoFault, Fault
  <2> QED
    BY <2>2, <2>3, <2>4 DEF Redeem, GoodsType
<1>4. OrdersOK'
  BY DEF Redeem, At, NoFault, Fault, rowVars, OrdersOK, OrderInv, WorkersOK, WorkerInv, Creating,
         AfterPayment, Locked, RowType, GoodsType, Statuses, Balance
<1>5. WorkersOK'
  BY DEF Redeem, At, Goto, NoFault, Fault, rowVars, WorkersOK, WorkerInv, OrdersOK, OrderInv,
         AllApart, Apart, Creating, AfterPayment, Locked, Balance, WorkerType, RowType, GoodsType
<1>6. AllApart'
  BY DEF Redeem, At, Goto, NoFault, Fault, rowVars, AllApart, Apart, WorkersOK, WorkerInv,
         OrdersOK, OrderInv, Creating, AfterPayment, Locked, Balance, WorkerType, RowType
<1> QED
  BY <1>1, <1>2, <1>3, <1>4, <1>5, <1>6

\* SubCheck keeps the invariant.
LEMMA SubCheckKeeps ==
    ASSUME IInv, NEW w \in Workers, SubCheck(w)
    PROVE  IInv'
<1> USE OrdersAssumption DEF IInv
<1>1. WorkerType' /\ AckType'
  BY GotoType DEF SubCheck, AckType, Labels, AfterPayment, Locked
<1>2. RowType'
  BY DEF SubCheck, RowType, rowVars
<1>3. GoodsType'
  BY DEF SubCheck, GoodsType, NoFault, Fault, goodsVars
<1>4. OrdersOK'
  BY DEF SubCheck, At, NoFault, Fault, rowVars, goodsVars, OrdersOK, OrderInv, Balance
<1>5. WorkersOK'
  BY DEF SubCheck, At, Goto, NoFault, Fault, rowVars, goodsVars, WorkersOK, WorkerInv, OrdersOK,
         OrderInv, AllApart, Apart, Creating, AfterPayment, Locked, Balance, WorkerType, RowType,
         GoodsType
<1>6. AllApart'
  BY DEF SubCheck, At, Goto, NoFault, Fault, rowVars, goodsVars, AllApart, Apart, WorkersOK,
         WorkerInv, OrdersOK, OrderInv, Creating, AfterPayment, Locked, Balance, WorkerType,
         RowType
<1> QED
  BY <1>1, <1>2, <1>3, <1>4, <1>5, <1>6

\* SubAssign keeps the invariant.
LEMMA SubAssignKeeps ==
    ASSUME IInv, NEW w \in Workers, SubAssign(w)
    PROVE  IInv'
<1> USE OrdersAssumption DEF IInv
<1>1. WorkerType' /\ AckType'
  BY GotoType DEF SubAssign, AckType, Labels, AfterPayment, Locked
<1>2. RowType'
  BY DEF SubAssign, RowType, rowVars
<1>3. GoodsType'
  BY DEF SubAssign, GoodsType, NoFault, Fault, At, GiftKinds, WorkersOK, WorkerInv, AfterPayment,
         Locked
<1>4. OrdersOK'
  BY DEF SubAssign, At, NoFault, Fault, rowVars, OrdersOK, OrderInv, WorkersOK, WorkerInv,
         Creating, AfterPayment, Locked, RowType, GoodsType, Statuses, Balance
<1>5. WorkersOK'
  BY DEF SubAssign, At, Goto, NoFault, Fault, rowVars, WorkersOK, WorkerInv, OrdersOK, OrderInv,
         AllApart, Apart, Creating, AfterPayment, Locked, Balance, WorkerType, RowType, GoodsType
<1>6. AllApart'
  BY DEF SubAssign, At, Goto, NoFault, Fault, rowVars, AllApart, Apart, WorkersOK, WorkerInv,
         OrdersOK, OrderInv, Creating, AfterPayment, Locked, Balance, WorkerType, RowType
<1> QED
  BY <1>1, <1>2, <1>3, <1>4, <1>5, <1>6

\* MarkCompleted keeps the invariant.
LEMMA MarkCompletedKeeps ==
    ASSUME IInv, NEW w \in Workers, MarkCompleted(w)
    PROVE  IInv'
<1> USE OrdersAssumption DEF IInv
<1>1. WorkerType' /\ AckType'
  BY GotoType, ReturnType DEF MarkCompleted, AckType, Labels, AfterPayment, Locked
<1>2. RowType'
  BY DEF MarkCompleted, RowType, SetStatus, Statuses
<1>3. GoodsType'
  <2>1. subAudit' \in [Orders -> BOOLEAN]
    BY ExceptBoolean DEF MarkCompleted, GoodsType
  <2>2. faults' \in Nat /\ losses' \in Nat
    BY DEF MarkCompleted, GoodsType, NoFault, Fault
  <2> QED
    BY <2>1, <2>2 DEF MarkCompleted, GoodsType
<1>4. OrdersOK'
  BY DEF MarkCompleted, At, NoFault, Fault, SetStatus, OrdersOK, OrderInv, WorkersOK, WorkerInv,
         Creating, AfterPayment, Locked, RowType, GoodsType, Statuses, Balance
<1>5. WorkersOK'
  BY DEF MarkCompleted, At, Goto, Leave, ReturnOk, NoFault, Fault, SetStatus, WorkersOK, WorkerInv,
         OrdersOK, OrderInv, AllApart, Apart, Creating, AfterPayment, Locked, Balance, WorkerType,
         RowType, GoodsType
<1>6. AllApart'
  BY DEF MarkCompleted, At, Goto, Leave, ReturnOk, NoFault, Fault, SetStatus, AllApart, Apart,
         WorkersOK, WorkerInv, OrdersOK, OrderInv, Creating, AfterPayment, Locked, Balance,
         WorkerType, RowType
<1> QED
  BY <1>1, <1>2, <1>3, <1>4, <1>5, <1>6

\* MarkFailed keeps the invariant.
LEMMA MarkFailedKeeps ==
    ASSUME IInv, NEW w \in Workers, MarkFailed(w)
    PROVE  IInv'
<1> USE OrdersAssumption DEF IInv
<1>1. WorkerType' /\ AckType'
  BY ReturnType DEF MarkFailed, AckType
<1>2. RowType'
  BY DEF MarkFailed, RowType, SetStatus, Statuses
<1>3. GoodsType'
  BY DEF MarkFailed, GoodsType, NoFault, Fault, goodsVars
<1>4. OrdersOK'
  BY DEF MarkFailed, At, NoFault, Fault, SetStatus, goodsVars, OrdersOK, OrderInv, WorkersOK,
         WorkerInv, Creating, AfterPayment, Locked, RowType, GoodsType, Statuses, Balance
<1>5. WorkersOK'
  BY DEF MarkFailed, At, Leave, ReturnErr, NoFault, Fault, SetStatus, goodsVars, WorkersOK,
         WorkerInv, OrdersOK, OrderInv, AllApart, Apart, Creating, AfterPayment, Locked, Balance,
         WorkerType, RowType, GoodsType
<1>6. AllApart'
  BY DEF MarkFailed, At, Leave, ReturnErr, NoFault, Fault, SetStatus, goodsVars, AllApart, Apart,
         WorkersOK, WorkerInv, OrdersOK, OrderInv, Creating, AfterPayment, Locked, Balance,
         WorkerType, RowType
<1> QED
  BY <1>1, <1>2, <1>3, <1>4, <1>5, <1>6

\* RewardCheck keeps the invariant.
LEMMA RewardCheckKeeps ==
    ASSUME IInv, NEW w \in Workers, RewardCheck(w)
    PROVE  IInv'
<1> USE OrdersAssumption DEF IInv
<1>1. WorkerType' /\ AckType'
  BY GotoType, ReturnType DEF RewardCheck, AckType, Labels, AfterPayment, Locked
<1>2. RowType'
  BY DEF RewardCheck, RowType, rowVars
<1>3. GoodsType'
  BY DEF RewardCheck, GoodsType, NoFault, Fault, RewardKind, goodsVars
<1>4. OrdersOK'
  BY DEF RewardCheck, At, NoFault, Fault, RewardKind, rowVars, goodsVars, OrdersOK, OrderInv,
         Balance
<1>5. WorkersOK'
  BY DEF RewardCheck, At, Goto, Leave, ReturnOk, NoFault, Fault, RewardKind, rowVars, goodsVars,
         WorkersOK, WorkerInv, OrdersOK, OrderInv, AllApart, Apart, Creating, AfterPayment, Locked,
         Balance, WorkerType, RowType, GoodsType
<1>6. AllApart'
  BY DEF RewardCheck, At, Goto, Leave, ReturnOk, NoFault, Fault, RewardKind, rowVars, goodsVars,
         AllApart, Apart, WorkersOK, WorkerInv, OrdersOK, OrderInv, Creating, AfterPayment, Locked,
         Balance, WorkerType, RowType
<1> QED
  BY <1>1, <1>2, <1>3, <1>4, <1>5, <1>6

\* RewardGrant keeps the invariant.
LEMMA RewardGrantKeeps ==
    ASSUME IInv, NEW w \in Workers, RewardGrant(w)
    PROVE  IInv'
<1> USE OrdersAssumption DEF IInv
<1>1. WorkerType' /\ AckType'
  BY ReturnType DEF RewardGrant, AckType
<1>2. RowType'
  BY DEF RewardGrant, RowType, rowVars
<1>3. GoodsType'
  BY DEF RewardGrant, GoodsType, NoFault, Fault, RewardKind, goodsVars, At, GiftKinds, WorkersOK,
         WorkerInv, AfterPayment, Locked
<1>4. OrdersOK'
  BY DEF RewardGrant, At, NoFault, Fault, RewardKind, rowVars, goodsVars, OrdersOK, OrderInv,
         Balance
<1>5. WorkersOK'
  BY DEF RewardGrant, At, Leave, ReturnOk, NoFault, Fault, RewardKind, rowVars, goodsVars,
         WorkersOK, WorkerInv, OrdersOK, OrderInv, AllApart, Apart, Creating, AfterPayment, Locked,
         Balance, WorkerType, RowType, GoodsType
<1>6. AllApart'
  BY DEF RewardGrant, At, Leave, ReturnOk, NoFault, Fault, RewardKind, rowVars, goodsVars,
         AllApart, Apart, WorkersOK, WorkerInv, OrdersOK, OrderInv, Creating, AfterPayment, Locked,
         Balance, WorkerType, RowType
<1> QED
  BY <1>1, <1>2, <1>3, <1>4, <1>5, <1>6

\* RetryFulfillment keeps the invariant.
LEMMA RetryFulfillmentKeeps ==
    ASSUME IInv, NEW w \in Workers, NEW o \in Orders, RetryFulfillment(w, o)
    PROVE  IInv'
<1> USE OrdersAssumption DEF IInv
<1>1. WorkerType' /\ AckType'
  BY EnterType DEF RetryFulfillment, AckType, Labels, AfterPayment, Locked, Entries
<1>2. RowType'
  BY DEF RetryFulfillment, RowType, rowVars
<1>3. GoodsType'
  BY DEF RetryFulfillment, GoodsType, NoFault, goodsVars
<1>4. OrdersOK'
  BY DEF RetryFulfillment, At, NoFault, rowVars, goodsVars, OrdersOK, OrderInv, Balance
<1>5. WorkersOK'
  <2>1. upstream[o] = "paid"
    BY DEF RetryFulfillment, OrdersOK, OrderInv
  <2>2. PICK l \in {"fulfill", "retryReset"} : Enter(w, o, "retry", l)
    BY DEF RetryFulfillment
  <2>3. pc'[w] = l /\ ord'[w] = o
    BY <2>2 DEF Enter, WorkerType
  <2>4. \A v \in Workers \ {w} : pc'[v] = pc[v] /\ ord'[v] = ord[v]
    BY <2>2 DEF Enter, WorkerType
  <2>5. UNCHANGED <<status, upstream, credits>>
    BY DEF RetryFulfillment, rowVars, goodsVars
  <2>6. WorkerInv(w)'
    BY <2>1, <2>3, <2>5 DEF WorkerInv, Creating, AfterPayment, Locked
  <2>7. ASSUME NEW v \in Workers \ {w} PROVE WorkerInv(v)'
    BY <2>4, <2>5 DEF WorkersOK, WorkerInv, Balance
  <2> QED
    BY <2>6, <2>7 DEF WorkersOK
<1>6. AllApart'
  BY DEF RetryFulfillment, At, Enter, NoFault, rowVars, goodsVars, AllApart, Apart, WorkersOK,
         WorkerInv, OrdersOK, OrderInv, Creating, AfterPayment, Locked, Balance, WorkerType,
         RowType
<1> QED
  BY <1>1, <1>2, <1>3, <1>4, <1>5, <1>6

\* RetryReset keeps the invariant.
LEMMA RetryResetKeeps ==
    ASSUME IInv, NEW w \in Workers, RetryReset(w)
    PROVE  IInv'
<1> USE OrdersAssumption DEF IInv
<1>1. WorkerType' /\ AckType'
  BY GotoType DEF RetryReset, AckType, Labels, AfterPayment, Locked
<1>2. RowType'
  BY DEF RetryReset, RowType, SetStatus, Statuses
<1>3. GoodsType'
  BY DEF RetryReset, GoodsType, NoFault, goodsVars
<1>4. OrdersOK'
  BY DEF RetryReset, At, NoFault, SetStatus, goodsVars, OrdersOK, OrderInv, WorkersOK, WorkerInv,
         Creating, AfterPayment, Locked, RowType, GoodsType, Statuses, Balance
<1>5. WorkersOK'
  BY DEF RetryReset, At, Goto, NoFault, SetStatus, goodsVars, WorkersOK, WorkerInv, OrdersOK,
         OrderInv, AllApart, Apart, Creating, AfterPayment, Locked, Balance, WorkerType, RowType,
         GoodsType
<1>6. AllApart'
  BY DEF RetryReset, At, Goto, NoFault, SetStatus, goodsVars, AllApart, Apart, WorkersOK,
         WorkerInv, OrdersOK, OrderInv, Creating, AfterPayment, Locked, Balance, WorkerType,
         RowType
<1> QED
  BY <1>1, <1>2, <1>3, <1>4, <1>5, <1>6

\* StatementFails keeps the invariant.
LEMMA StatementFailsKeeps ==
    ASSUME IInv, NEW w \in Workers, StatementFails(w)
    PROVE  IInv'
<1> USE OrdersAssumption DEF IInv
<1>1. WorkerType' /\ AckType'
  BY ReturnType DEF StatementFails, AckType
<1>2. RowType'
  BY DEF StatementFails, RowType, rowVars
<1>3. GoodsType'
  BY DEF StatementFails, GoodsType, Fault, goodsVars
<1>4. OrdersOK'
  BY DEF StatementFails, Fault, Abortable, rowVars, goodsVars, OrdersOK, OrderInv, Balance
<1>5. WorkersOK'
  BY DEF StatementFails, Leave, ReturnErr, Fault, Abortable, rowVars, goodsVars, WorkersOK,
         WorkerInv, OrdersOK, OrderInv, AllApart, Apart, Creating, AfterPayment, Locked, Balance,
         WorkerType, RowType, GoodsType
<1>6. AllApart'
  BY DEF StatementFails, Leave, ReturnErr, Fault, Abortable, rowVars, goodsVars, AllApart, Apart,
         WorkersOK, WorkerInv, OrdersOK, OrderInv, Creating, AfterPayment, Locked, Balance,
         WorkerType, RowType
<1> QED
  BY <1>1, <1>2, <1>3, <1>4, <1>5, <1>6

\* Crash keeps the invariant.
LEMMA CrashKeeps ==
    ASSUME IInv, NEW w \in Workers, Crash(w)
    PROVE  IInv'
<1> USE OrdersAssumption DEF IInv
<1>1. WorkerType' /\ AckType'
  BY LeaveType DEF Crash, AckType
<1>2. RowType'
  BY DEF Crash, RowType, rowVars
<1>3. GoodsType'
  BY DEF Crash, GoodsType, Fault, goodsVars
<1>4. OrdersOK'
  BY DEF Crash, Fault, rowVars, goodsVars, OrdersOK, OrderInv, Balance
<1>5. WorkersOK'
  BY DEF Crash, Leave, Fault, rowVars, goodsVars, WorkersOK, WorkerInv, OrdersOK, OrderInv,
         AllApart, Apart, Creating, AfterPayment, Locked, Balance, WorkerType, RowType, GoodsType
<1>6. AllApart'
  BY DEF Crash, Leave, Fault, rowVars, goodsVars, AllApart, Apart, WorkersOK, WorkerInv, OrdersOK,
         OrderInv, Creating, AfterPayment, Locked, Balance, WorkerType, RowType
<1> QED
  BY <1>1, <1>2, <1>3, <1>4, <1>5, <1>6

\* Every step of the system, and stuttering, keeps the invariant.
LEMMA NextKeeps ==
    ASSUME IInv, [Next]_vars
    PROVE  IInv'
<1>1. CASE UNCHANGED vars
  BY <1>1
  DEF IInv, vars, rowVars, goodsVars, workerVars, WorkerType, AckType, RowType, GoodsType,
      OrdersOK, OrderInv, WorkersOK, WorkerInv, AllApart, Apart, Balance
<1>2. ASSUME NEW w \in Workers, Step(w) PROVE IInv'
  BY <1>2, CreateOrderInTxKeeps, InvokeProviderKeeps, CreateFailedKeeps, CheckPaidKeeps,
     CancelUpdateKeeps, ToPaidKeeps, AlreadyProcessedKeeps, FulfillKeeps, LockRechargingKeeps,
     LookupCodeKeeps, CreateCodeKeeps, IsFirstRechargeKeeps, RedeemKeeps, SubCheckKeeps,
     SubAssignKeeps, MarkCompletedKeeps, MarkFailedKeeps, RewardCheckKeeps, RewardGrantKeeps,
     RetryResetKeeps
  DEF Step
<1>3. ASSUME NEW w \in Workers, NEW o \in Orders, Call(w, o) PROVE IInv'
  BY <1>3, CancelOrderKeeps, ExpireTimedOutOrdersKeeps, VerifyOrderKeeps, WebhookKeeps,
     RetryFulfillmentKeeps
  DEF Call
<1>4. ASSUME NEW o \in Orders, Environment(o) PROVE IInv'
  BY <1>4, UserPaysKeeps, GraceEndsKeeps, RefundKeeps DEF Environment
<1>5. ASSUME NEW w \in Workers, CheckPendingLimit(w) \/ StatementFails(w) \/ Crash(w) PROVE IInv'
  BY <1>5, CheckPendingLimitKeeps, StatementFailsKeeps, CrashKeeps
<1> QED
  BY <1>1, <1>2, <1>3, <1>4, <1>5 DEF Next

\* The inductive invariant holds in every reachable state.
THEOREM Invariance == Spec => []IInv
<1>1. Init => IInv
  BY InitIInv
<1>2. IInv /\ [Next]_vars => IInv'
  BY NextKeeps
<1> QED
  BY <1>1, <1>2, PTL DEF Spec

-----------------------------------------------------------------------------
(* The safety properties *)

\* RECHARGING is a lock: one handler at a time fulfils an order, and the row says
\* so while it does; and every variable keeps its type.
THEOREM FulfillmentIsExclusive == Spec => []Inv
<1>1. IInv => FulfillmentExclusive
  BY DEF IInv, FulfillmentExclusive, WorkersOK, WorkerInv, AllApart, Apart
<1>2. IInv => Inv
  BY <1>1, IInvTypeOK DEF Inv
<1> QED
  BY <1>2, Invariance, PTL

\* doBalance credits the balance for an order at most once.
THEOREM CreditIsOnce == Spec => []CreditedOnce
<1>1. IInv => CreditedOnce
  BY DEF IInv, CreditedOnce, OrdersOK, OrderInv
<1> QED
  BY <1>1, Invariance, PTL

\* An order is completed only after its delivery, and goods are delivered only for money
\* the provider received.
THEOREM DeliveryFollowsPayment == Spec => []NothingIsSkipped
<1>1. IInv => CompletedIsDelivered
  BY DEF IInv, CompletedIsDelivered, OrdersOK, OrderInv
<1>2. IInv => DeliveredIsPaid
  BY DEF IInv, DeliveredIsPaid, OrdersOK, OrderInv
<1>3. IInv => NothingIsSkipped
  BY <1>1, <1>2 DEF NothingIsSkipped
<1> QED
  BY <1>3, Invariance, PTL

-----------------------------------------------------------------------------
(* The action properties *)

\* The statements that write the order's row, its goods or the provider's page.
Writes(w) ==
    \/ CreateOrderInTx(w) \/ InvokeProvider(w) \/ CreateFailed(w)
    \/ CheckPaid(w) \/ CancelUpdate(w) \/ ToPaid(w) \/ LockRecharging(w)
    \/ CreateCode(w) \/ Redeem(w) \/ SubAssign(w)
    \/ MarkCompleted(w) \/ MarkFailed(w) \/ RetryReset(w)

\* Every other statement of a handler leaves them alone.
LEMMA StepKinds ==
    ASSUME [Next]_vars
    PROVE  \/ UNCHANGED <<rowVars, upstream, goodsVars>>
           \/ \E w \in Workers : Writes(w)
           \/ \E o \in Orders : Environment(o)
<1>1. CASE UNCHANGED vars
  BY <1>1 DEF vars
<1>2. ASSUME NEW w \in Workers, Step(w)
      PROVE  Writes(w) \/ UNCHANGED <<rowVars, upstream, goodsVars>>
  BY <1>2
  DEF Step, Writes, AlreadyProcessed, Fulfill, LookupCode, IsFirstRecharge, SubCheck, RewardCheck,
      RewardGrant
<1>3. ASSUME NEW w \in Workers, NEW o \in Orders, Call(w, o)
      PROVE  UNCHANGED <<rowVars, upstream, goodsVars>>
  BY <1>3 DEF Call, CancelOrder, ExpireTimedOutOrders, VerifyOrder, Webhook, RetryFulfillment
<1>4. ASSUME NEW w \in Workers, CheckPendingLimit(w) \/ StatementFails(w) \/ Crash(w)
      PROVE  UNCHANGED <<rowVars, upstream, goodsVars>>
  BY <1>4 DEF CheckPendingLimit, StatementFails, Crash
<1> QED
  BY <1>1, <1>2, <1>3, <1>4 DEF Next

\* No statement clears paid_at.
LEMMA PaidAtStays ==
    ASSUME IInv, [Next]_vars, NEW o \in Orders, paidAt[o]
    PROVE  paidAt'[o]
<1>1. CASE UNCHANGED <<rowVars, upstream, goodsVars>>
  BY <1>1 DEF rowVars
<1>2. ASSUME NEW w \in Workers, Writes(w) PROVE paidAt'[o]
  <2>1. CASE ToPaid(w)
    BY <2>1 DEF ToPaid, IInv, RowType
  <2>2. CASE ~ToPaid(w)
    BY <1>2, <2>2
    DEF Writes, CreateOrderInTx, InvokeProvider, CreateFailed, CheckPaid, CancelUpdate,
        LockRecharging, CreateCode, Redeem, SubAssign, MarkCompleted, MarkFailed, RetryReset,
        rowVars
  <2> QED
    BY <2>1, <2>2
<1>3. ASSUME NEW p \in Orders, Environment(p) PROVE paidAt'[o]
  BY <1>3 DEF Environment, UserPays, GraceEnds, Refund, rowVars
<1> QED
  BY <1>1, <1>2, <1>3, StepKinds

\* What a write can do to a status, a page and a delivery.  CreateFailed, which
\* looks at nothing, finds no completed order because its own was never paid.
LEMMA WriteEffect ==
    ASSUME IInv, NEW w \in Workers, Writes(w), NEW o \in Orders
    PROVE  /\ status[o] = "COMPLETED" => status'[o] = "COMPLETED"
           /\ status[o] = "REFUND" => status'[o] = "REFUND"
           /\ upstream'[o] = "paid" <=> upstream[o] = "paid"
<1> USE DEF IInv, RowType
<1>1. CASE CreateOrderInTx(w)
  BY <1>1 DEF CreateOrderInTx, SetStatus
<1>2. CASE InvokeProvider(w)
  BY <1>2 DEF InvokeProvider, At, rowVars, WorkersOK, WorkerInv, Creating
<1>3. CASE CreateFailed(w)
  BY <1>3 DEF CreateFailed, At, SetStatus, WorkersOK, WorkerInv, Creating, OrdersOK, OrderInv
<1>4. CASE CheckPaid(w)
  BY <1>4 DEF CheckPaid, rowVars
<1>5. CASE CancelUpdate(w)
  BY <1>5 DEF CancelUpdate, SetStatus
<1>6. CASE ToPaid(w)
  BY <1>6 DEF ToPaid, SetStatus, Payable
<1>7. CASE LockRecharging(w)
  BY <1>7 DEF LockRecharging, SetStatus
<1>8. CASE CreateCode(w) \/ Redeem(w) \/ SubAssign(w)
  BY <1>8 DEF CreateCode, Redeem, SubAssign, rowVars
<1>9. CASE MarkCompleted(w)
  BY <1>9 DEF MarkCompleted, SetStatus
<1>10. CASE MarkFailed(w)
  BY <1>10 DEF MarkFailed, SetStatus
<1>11. CASE RetryReset(w)
  BY <1>11 DEF RetryReset, SetStatus
<1> QED
  BY <1>1, <1>2, <1>3, <1>4, <1>5, <1>6, <1>7, <1>8, <1>9, <1>10, <1>11 DEF Writes

\* A completed order is only ever taken by a refund.
LEMMA CompletionStays ==
    ASSUME IInv, [Next]_vars, NEW o \in Orders, status[o] = "COMPLETED"
    PROVE  status'[o] \in {"COMPLETED", "REFUND"}
<1>1. CASE UNCHANGED <<rowVars, upstream, goodsVars>>
  BY <1>1 DEF rowVars
<1>2. ASSUME NEW w \in Workers, Writes(w) PROVE status'[o] = "COMPLETED"
  BY <1>2, WriteEffect
<1>3. ASSUME NEW p \in Orders, Environment(p) PROVE status'[o] \in {"COMPLETED", "REFUND"}
  BY <1>3 DEF Environment, UserPays, GraceEnds, Refund, SetStatus, rowVars, IInv, RowType
<1> QED
  BY <1>1, <1>2, <1>3, StepKinds

\* No cancellation, expiry or failed creation undoes a recorded payment, and no late handler
\* re-opens a completed order.
THEOREM StatusesOnlyAdvance == Spec => StatusesAdvance
<1>1. ASSUME IInv, IInv', [Next]_vars, NEW o \in Orders, paidAt[o]
      PROVE  status'[o] \notin {"ABSENT", "PENDING", "CANCELLED", "EXPIRED"}
  BY <1>1, PaidAtStays DEF IInv, OrdersOK, OrderInv
<1>2. IInv /\ IInv' /\ [Next]_vars =>
        [\A o \in Orders :
            /\ paidAt[o] => status'[o] \notin {"ABSENT", "PENDING", "CANCELLED", "EXPIRED"}
            /\ status[o] = "COMPLETED" => status'[o] \in {"COMPLETED", "REFUND"}]_vars
  BY <1>1, CompletionStays
<1> QED
  BY <1>2, Invariance, PTL DEF Spec, StatusesAdvance

-----------------------------------------------------------------------------
(* Extensions of a subscription against failures *)

Finishing(o) == \E w \in Workers : pc[w] = "markCompleted" /\ ord[w] = o

\* An order that cannot be delivered again unless something fails: its delivery
\* is past, and it is completed or about to be.
Sealed(o) == status[o] \in {"COMPLETED", "REFUND"} \/ Finishing(o)

\* There is an extension for each failure at most, and one more when the order is
\* sealed.
Counted(o) ==
    \/ credits[o] =< faults
    \/ credits[o] =< 1 + faults /\ Sealed(o)

AllCounted == \A o \in SubOrders : Counted(o)

\* What a statement adds to the failures.
CountedOnce ==
    /\ faults' = faults \/ faults' = faults + 1
    /\ losses' = losses \/ losses' = losses + 1

\* Every statement fails at most once, and most do not.
LEMMA FaultsCounted ==
    ASSUME [Next]_vars
    PROVE  CountedOnce
<1> USE DEF NoFault, Fault, CountedOnce
<1>1. CASE UNCHANGED vars
  BY <1>1 DEF vars
<1>2. ASSUME NEW w \in Workers, Step(w) PROVE CountedOnce
  <2>1. CASE \/ CreateOrderInTx(w) \/ InvokeProvider(w) \/ CreateFailed(w) \/ CheckPaid(w)
             \/ CancelUpdate(w) \/ ToPaid(w) \/ AlreadyProcessed(w) \/ Fulfill(w)
             \/ LockRecharging(w)
    BY <2>1
    DEF CreateOrderInTx, InvokeProvider, CreateFailed, CheckPaid, CancelUpdate, ToPaid,
        AlreadyProcessed, Fulfill, LockRecharging
  <2>2. CASE \/ LookupCode(w) \/ CreateCode(w) \/ IsFirstRecharge(w) \/ Redeem(w)
             \/ SubCheck(w) \/ SubAssign(w)
    BY <2>2 DEF LookupCode, CreateCode, IsFirstRecharge, Redeem, SubCheck, SubAssign
  <2>3. CASE \/ MarkCompleted(w) \/ MarkFailed(w) \/ RewardCheck(w) \/ RewardGrant(w)
             \/ RetryReset(w)
    BY <2>3 DEF MarkCompleted, MarkFailed, RewardCheck, RewardGrant, RetryReset
  <2> QED
    BY <1>2, <2>1, <2>2, <2>3 DEF Step
<1>3. ASSUME NEW w \in Workers, NEW o \in Orders, Call(w, o)
      PROVE  CountedOnce
  BY <1>3 DEF Call, CancelOrder, ExpireTimedOutOrders, VerifyOrder, Webhook, RetryFulfillment
<1>4. ASSUME NEW o \in Orders, Environment(o) PROVE CountedOnce
  BY <1>4 DEF Environment, UserPays, GraceEnds, Refund
<1>5. ASSUME NEW w \in Workers, CheckPendingLimit(w) \/ StatementFails(w) \/ Crash(w)
      PROVE  CountedOnce
  BY <1>5 DEF CheckPendingLimit, StatementFails, Crash
<1> QED
  BY <1>1, <1>2, <1>3, <1>4, <1>5 DEF Next

\* A completed order stays so, a refund included.
LEMMA CompleteForGood ==
    ASSUME IInv, [Next]_vars, NEW o \in Orders, status[o] \in {"COMPLETED", "REFUND"}
    PROVE  status'[o] \in {"COMPLETED", "REFUND"}
<1>1. CASE UNCHANGED <<rowVars, upstream, goodsVars>>
  BY <1>1 DEF rowVars
<1>2. ASSUME NEW w \in Workers, Writes(w) PROVE status'[o] \in {"COMPLETED", "REFUND"}
  BY <1>2, WriteEffect
<1>3. ASSUME NEW p \in Orders, Environment(p) PROVE status'[o] \in {"COMPLETED", "REFUND"}
  BY <1>3 DEF Environment, UserPays, GraceEnds, Refund, SetStatus, rowVars, IInv, RowType
<1> QED
  BY <1>1, <1>2, <1>3, StepKinds

\* Only doSub extends a subscription, and only that of its own order.
LEMMA OnlyDoSubExtends ==
    ASSUME IInv, [Next]_vars, NEW o \in SubOrders,
           \A w \in Workers : SubAssign(w) => ord[w] # o
    PROVE  credits'[o] = credits[o]
<1>0. o \in Orders /\ ~Balance(o)
  BY OrdersAssumption DEF Balance
<1>1. CASE UNCHANGED <<rowVars, upstream, goodsVars>>
  BY <1>1 DEF goodsVars
<1>2. ASSUME NEW w \in Workers, Writes(w) PROVE credits'[o] = credits[o]
  <2>1. CASE SubAssign(w)
    BY <1>0, <2>1 DEF SubAssign, IInv, GoodsType
  <2>2. CASE Redeem(w)
    BY <1>0, <2>2 DEF Redeem, At, IInv, WorkersOK, WorkerInv, GoodsType
  <2>3. CASE ~SubAssign(w) /\ ~Redeem(w)
    BY <1>2, <2>3
    DEF Writes, CreateOrderInTx, InvokeProvider, CreateFailed, CheckPaid, CancelUpdate, ToPaid,
        LockRecharging, CreateCode, MarkCompleted, MarkFailed, RetryReset, goodsVars
  <2> QED
    BY <2>1, <2>2, <2>3
<1>3. ASSUME NEW p \in Orders, Environment(p) PROVE credits'[o] = credits[o]
  BY <1>3 DEF Environment, UserPays, GraceEnds, Refund, goodsVars
<1> QED
  BY <1>1, <1>2, <1>3, StepKinds

\* A worker leaves markCompleted by that statement or by a crash.
LEMMA LeavingMarkCompleted ==
    ASSUME IInv, [Next]_vars, NEW w \in Workers, pc[w] = "markCompleted"
    PROVE  \/ pc'[w] = "markCompleted" /\ ord'[w] = ord[w]
           \/ MarkCompleted(w)
           \/ Crash(w)
<1> DEFINE Kept == pc'[w] = "markCompleted" /\ ord'[w] = ord[w]
<1> USE DEF At, Enter, Goto, Leave, ReturnOk, ReturnErr, IInv, WorkerType
<1>1. CASE UNCHANGED vars
  BY <1>1 DEF vars, workerVars
<1>2. ASSUME NEW u \in Workers, Step(u) PROVE Kept \/ MarkCompleted(w)
  <2>1. CASE CreateOrderInTx(u) \/ InvokeProvider(u) \/ CreateFailed(u) \/ CancelUpdate(u)
    BY <2>1 DEF CreateOrderInTx, InvokeProvider, CreateFailed, CancelUpdate
  <2>2. CASE CheckPaid(u)
    BY <2>2 DEF CheckPaid, NotPaid
  <2>3. CASE ToPaid(u) \/ AlreadyProcessed(u) \/ Fulfill(u) \/ LockRecharging(u)
    BY <2>3
    DEF ToPaid, AlreadyProcessed, Fulfill, ExecuteBalanceFulfillment,
        ExecuteSubscriptionFulfillment, LockRecharging
  <2>4. CASE LookupCode(u) \/ CreateCode(u) \/ IsFirstRecharge(u) \/ Redeem(u)
    BY <2>4 DEF LookupCode, CreateCode, IsFirstRecharge, Redeem
  <2>5. CASE SubCheck(u) \/ SubAssign(u)
    BY <2>5 DEF SubCheck, SubAssign
  <2>6. CASE MarkCompleted(u)
    <3>1. CASE u = w
      BY <2>6, <3>1
    <3>2. CASE u # w
      BY <2>6, <3>2 DEF MarkCompleted
    <3> QED
      BY <3>1, <3>2
  <2>7. CASE MarkFailed(u) \/ RewardCheck(u) \/ RewardGrant(u) \/ RetryReset(u)
    BY <2>7 DEF MarkFailed, RewardCheck, RewardGrant, RetryReset
  <2> QED
    BY <1>2, <2>1, <2>2, <2>3, <2>4, <2>5, <2>6, <2>7 DEF Step
<1>3. ASSUME NEW u \in Workers, NEW o \in Orders, Call(u, o) PROVE Kept
  BY <1>3
  DEF Call, CancelOrder, ExpireTimedOutOrders, VerifyOrder, Webhook, RetryFulfillment, workerVars
<1>4. ASSUME NEW o \in Orders, Environment(o) PROVE Kept
  BY <1>4 DEF Environment, UserPays, GraceEnds, Refund, workerVars
<1>5. ASSUME NEW u \in Workers, CheckPendingLimit(u) \/ StatementFails(u) PROVE Kept
  BY <1>5 DEF CheckPendingLimit, StatementFails, Abortable
<1>6. ASSUME NEW u \in Workers, Crash(u) PROVE Kept \/ Crash(w)
  BY <1>6 DEF Crash
<1> QED
  BY <1>1, <1>2, <1>3, <1>4, <1>5, <1>6 DEF Next

\* An order about to be completed stays so, is completed, or something failed.
LEMMA FinishingEnds ==
    ASSUME IInv, [Next]_vars, NEW o \in SubOrders, Finishing(o)
    PROVE  Sealed(o)' \/ faults' = faults + 1
<1>0. o \in Orders
  BY OrdersAssumption
<1>1. PICK w \in Workers : pc[w] = "markCompleted" /\ ord[w] = o
  BY DEF Finishing
<1>2. CASE pc'[w] = "markCompleted" /\ ord'[w] = ord[w]
  BY <1>1, <1>2 DEF Sealed, Finishing
<1>3. CASE MarkCompleted(w)
  <2>1. status[o] = "RECHARGING"
    BY <1>1 DEF IInv, WorkersOK, WorkerInv, Locked
  <2> QED
    BY <1>0, <1>1, <1>3, <2>1 DEF MarkCompleted, SetStatus, Fault, Sealed, IInv, RowType
<1>4. CASE Crash(w)
  BY <1>4 DEF Crash, Fault
<1> QED
  BY <1>1, <1>2, <1>3, <1>4, LeavingMarkCompleted

\* The extension itself: the lock says that nobody else is past one, so the order
\* is not sealed before, and it is after.
LEMMA SubAssignCounted ==
    ASSUME IInv, AllCounted, NEW w \in Workers, SubAssign(w), NEW o \in SubOrders, ord[w] = o
    PROVE  Counted(o)'
<1>0. o \in Orders /\ credits[o] \in Nat /\ faults \in Nat
  BY OrdersAssumption DEF IInv, GoodsType
<1>1. status[o] = "RECHARGING"
  BY DEF SubAssign, At, IInv, WorkersOK, WorkerInv, Locked
<1>2. ~Finishing(o)
  BY DEF Finishing, SubAssign, At, IInv, AllApart, Apart, Locked
<1>3. credits[o] =< faults
  BY <1>1, <1>2 DEF AllCounted, Counted, Sealed
<1>4. CASE credits' = [credits EXCEPT ![ord[w]] = @ + 1] /\ Goto(w, "markCompleted") /\ NoFault
  <2>1. Finishing(o)'
    BY <1>4 DEF Goto, Finishing, IInv, WorkerType
  <2>2. credits'[o] =< 1 + faults'
    BY <1>0, <1>3, <1>4 DEF NoFault, IInv, GoodsType
  <2> QED
    BY <2>1, <2>2 DEF Counted, Sealed
<1>5. CASE Fault("delivery")
  <2>1. credits'[o] =< credits[o] + 1
    BY <1>0 DEF SubAssign, IInv, GoodsType
  <2>2. faults' = faults + 1 /\ credits'[o] \in Nat
    BY <1>0, <1>5 DEF Fault, SubAssign, IInv, GoodsType
  <2> QED
    BY <1>0, <1>3, <2>1, <2>2 DEF Counted
<1> QED
  BY <1>4, <1>5 DEF SubAssign

\* Every step keeps the count.
LEMMA NextCounted ==
    ASSUME IInv, AllCounted, [Next]_vars
    PROVE  AllCounted'
<1> SUFFICES ASSUME NEW o \in SubOrders PROVE Counted(o)'
  BY DEF AllCounted
<1>0. o \in Orders /\ credits[o] \in Nat /\ faults \in Nat
  BY OrdersAssumption DEF IInv, GoodsType
<1>1. CASE \E w \in Workers : SubAssign(w) /\ ord[w] = o
  BY <1>1, SubAssignCounted
<1>2. CASE \A w \in Workers : SubAssign(w) => ord[w] # o
  <2>1. credits'[o] = credits[o]
    BY <1>2, OnlyDoSubExtends
  <2>2. faults' = faults \/ faults' = faults + 1
    BY FaultsCounted DEF CountedOnce
  <2>3. CASE credits[o] =< faults
    BY <1>0, <2>1, <2>2, <2>3 DEF Counted
  <2>4. CASE credits[o] =< 1 + faults /\ Sealed(o)
    <3>1. Sealed(o)' \/ faults' = faults + 1
      BY <1>0, <2>4, CompleteForGood, FinishingEnds DEF Sealed
    <3> QED
      BY <1>0, <2>1, <2>2, <2>4, <3>1 DEF Counted
  <2> QED
    BY <2>3, <2>4 DEF AllCounted, Counted
<1> QED
  BY <1>1, <1>2

\* However often a subscription order is fulfilled, there is one extension, and one
\* more for each failure at most.
THEOREM ExtensionsAreBounded == Spec => []ExtensionsNeedFailures
<1>1. Init => AllCounted
  BY OrdersAssumption DEF Init, AllCounted, Counted
<1>2. IInv /\ AllCounted /\ [Next]_vars => AllCounted'
  BY NextCounted
<1>3. IInv /\ AllCounted => ExtensionsNeedFailures
  BY OrdersAssumption DEF IInv, GoodsType, AllCounted, Counted, ExtensionsNeedFailures
<1> QED
  BY <1>1, <1>2, <1>3, Invariance, PTL DEF Spec

\* An order's goods are delivered once, but for the extensions that failures repeat.
THEOREM DeliveryIsOnce == Spec => []DeliveredOnce
<1>1. CreditedOnce /\ ExtensionsNeedFailures => DeliveredOnce
  BY DEF DeliveredOnce
<1> QED
  BY <1>1, CreditIsOnce, ExtensionsAreBounded, PTL

-----------------------------------------------------------------------------
(* The limit on pending orders *)

\* Subsets of the orders and of the workers are finite, and no larger than those.
LEMMA Sizes ==
    /\ \A S \in SUBSET Orders : IsFiniteSet(S) /\ Cardinality(S) \in Nat
    /\ \A S \in SUBSET Workers :
           IsFiniteSet(S) /\ Cardinality(S) \in Nat /\ Cardinality(S) =< Cardinality(Workers)
    /\ Cardinality(Workers) \in Nat
BY FiniteAssumption, FS_Subset, FS_CardinalityType

\* One statement leads to the insert: the count that found the limit not reached.
LEMMA InsertFollowsCount ==
    ASSUME IInv, [Next]_vars, NEW u \in Workers, pc'[u] = "insert", pc[u] # "insert"
    PROVE  \E w \in Workers : CheckPendingLimit(w)
<1> USE DEF At, Enter, Goto, Leave, ReturnOk, ReturnErr, IInv, WorkerType
<1>1. CASE UNCHANGED vars
  BY <1>1 DEF vars, workerVars
<1>2. ASSUME NEW w \in Workers, Step(w) PROVE FALSE
  <2>1. CASE CreateOrderInTx(w) \/ InvokeProvider(w) \/ CreateFailed(w) \/ CancelUpdate(w)
    BY <2>1 DEF CreateOrderInTx, InvokeProvider, CreateFailed, CancelUpdate
  <2>2. CASE CheckPaid(w)
    BY <2>2 DEF CheckPaid, NotPaid
  <2>3. CASE ToPaid(w) \/ AlreadyProcessed(w) \/ Fulfill(w) \/ LockRecharging(w)
    BY <2>3
    DEF ToPaid, AlreadyProcessed, Fulfill, ExecuteBalanceFulfillment,
        ExecuteSubscriptionFulfillment, LockRecharging
  <2>4. CASE CreateCode(w) \/ IsFirstRecharge(w) \/ Redeem(w)
    BY <2>4 DEF CreateCode, IsFirstRecharge, Redeem
  <2>5. CASE LookupCode(w)
    <3>1. code[ord[w]] \in {"absent", "unused", "used"}
      BY <2>5 DEF LookupCode, WorkersOK, WorkerInv, AfterPayment, Locked, GoodsType
    <3>2. RedeemAction(code[ord[w]]) # "insert"
      BY <3>1 DEF RedeemAction
    <3> QED
      BY <2>5, <3>2 DEF LookupCode
  <2>6. CASE SubCheck(w) \/ SubAssign(w)
    BY <2>6 DEF SubCheck, SubAssign
  <2>7. CASE MarkCompleted(w) \/ MarkFailed(w) \/ RewardCheck(w) \/ RewardGrant(w) \/ RetryReset(w)
    BY <2>7 DEF MarkCompleted, MarkFailed, RewardCheck, RewardGrant, RetryReset
  <2> QED
    BY <1>2, <2>1, <2>2, <2>3, <2>4, <2>5, <2>6, <2>7 DEF Step
<1>3. ASSUME NEW w \in Workers, NEW o \in Orders, Call(w, o) PROVE FALSE
  BY <1>3
  DEF Call, CancelOrder, ExpireTimedOutOrders, VerifyOrder, Webhook, RetryFulfillment, workerVars
<1>4. ASSUME NEW o \in Orders, Environment(o) PROVE FALSE
  BY <1>4 DEF Environment, UserPays, GraceEnds, Refund, workerVars
<1>5. ASSUME NEW w \in Workers, StatementFails(w) \/ Crash(w) PROVE FALSE
  BY <1>5 DEF StatementFails, Crash
<1> QED
  BY <1>1, <1>2, <1>3, <1>4, <1>5 DEF Next

\* Only createOrderInTx makes an order pending: no refused callback, retry or failed
\* fulfilment takes one back to PENDING.
LEMMA PendingFollowsInsert ==
    ASSUME IInv, [Next]_vars, NEW o \in Orders, status'[o] = "PENDING", status[o] # "PENDING"
    PROVE  \E w \in Workers : CreateOrderInTx(w)
<1> USE DEF IInv, RowType, SetStatus
<1>1. CASE UNCHANGED <<rowVars, upstream, goodsVars>>
  BY <1>1 DEF rowVars
<1>2. ASSUME NEW w \in Workers, Writes(w) PROVE CreateOrderInTx(w)
  BY <1>2
  DEF Writes, InvokeProvider, CreateFailed, CheckPaid, CancelUpdate, ToPaid, LockRecharging,
      CreateCode, Redeem, SubAssign, MarkCompleted, MarkFailed, RetryReset, rowVars
<1>3. ASSUME NEW p \in Orders, Environment(p) PROVE FALSE
  BY <1>3 DEF Environment, UserPays, GraceEnds, Refund, rowVars
<1> QED
  BY <1>1, <1>2, <1>3, StepKinds

\* The count: it found the limit not reached, and no more than all workers insert.
LEMMA CountKeepsPending ==
    ASSUME IInv, NEW w \in Workers, CheckPendingLimit(w)
    PROVE  PendingBounded'
<1>1. Pending' = Pending /\ Cardinality(Pending) < MaxPending
  BY DEF CheckPendingLimit, Pending, rowVars
<1>2. Cardinality(Pending) \in Nat
  BY Sizes DEF Pending
<1>3. Inserting' \in SUBSET Workers
  BY DEF Inserting
<1>4. Cardinality(Inserting') \in Nat /\ Cardinality(Inserting') =< Cardinality(Workers)
  BY <1>3, Sizes
<1>5. Cardinality(Pending) + Cardinality(Inserting') < MaxPending + Cardinality(Workers)
  BY <1>1, <1>2, <1>4, Sizes, LimitAssumption
<1> QED
  BY <1>1, <1>5 DEF PendingBounded

\* The insert: there is one pending order more, and one request less on its way.
LEMMA InsertKeepsPending ==
    ASSUME IInv, PendingBounded, NEW w \in Workers, CreateOrderInTx(w)
    PROVE  PendingBounded'
<1>1. w \in Inserting /\ Inserting' = Inserting \ {w}
  BY DEF CreateOrderInTx, At, Enter, ReturnErr, Leave, Inserting, IInv, WorkerType
<1>2. PICK o \in Orders \cup {NoOrder} : Pending' \subseteq Pending \cup {o}
  BY DEF CreateOrderInTx, SetStatus, Pending, IInv, RowType
<1>3. /\ IsFiniteSet(Pending) /\ Cardinality(Pending) \in Nat
      /\ IsFiniteSet(Pending') /\ Cardinality(Pending') \in Nat
      /\ IsFiniteSet(Inserting) /\ Cardinality(Inserting) \in Nat
  BY Sizes DEF Pending, Inserting
<1>4. Cardinality(Inserting') = Cardinality(Inserting) - 1
  BY <1>1, <1>3, FS_RemoveElement
<1>5. /\ IsFiniteSet(Pending \cup {o}) /\ Cardinality(Pending \cup {o}) \in Nat
      /\ Cardinality(Pending \cup {o}) =< Cardinality(Pending) + 1
  <2>1. IsFiniteSet(Pending \cup {o}) /\ Cardinality(Pending \cup {o}) =
            IF o \in Pending THEN Cardinality(Pending) ELSE Cardinality(Pending) + 1
    BY <1>3, FS_AddElement
  <2> QED
    BY <1>3, <2>1
<1>6. Cardinality(Pending') =< Cardinality(Pending \cup {o})
  BY <1>2, <1>5, FS_Subset
<1> QED
  BY <1>3, <1>4, <1>5, <1>6, Sizes, LimitAssumption DEF PendingBounded

\* Every step keeps the count of pending orders and of those on their way.
LEMMA NextPending ==
    ASSUME IInv, PendingBounded, [Next]_vars
    PROVE  PendingBounded'
<1>1. CASE \E w \in Workers : CheckPendingLimit(w)
  BY <1>1, CountKeepsPending
<1>2. CASE \E w \in Workers : CreateOrderInTx(w)
  BY <1>2, InsertKeepsPending
<1>3. CASE \A w \in Workers : ~CheckPendingLimit(w) /\ ~CreateOrderInTx(w)
  <2>1. Pending' \subseteq Pending
    BY <1>3, PendingFollowsInsert DEF Pending
  <2>2. Inserting' \subseteq Inserting
    BY <1>3, InsertFollowsCount DEF Inserting
  <2>3. /\ IsFiniteSet(Pending) /\ IsFiniteSet(Inserting)
        /\ Cardinality(Pending) \in Nat /\ Cardinality(Pending') \in Nat
        /\ Cardinality(Inserting) \in Nat /\ Cardinality(Inserting') \in Nat
    BY Sizes DEF Pending, Inserting
  <2>4. Cardinality(Pending') =< Cardinality(Pending)
    BY <2>1, <2>3, FS_Subset
  <2>5. Cardinality(Inserting') =< Cardinality(Inserting)
    BY <2>2, <2>3, FS_Subset
  <2> QED
    BY <2>3, <2>4, <2>5, Sizes, LimitAssumption DEF PendingBounded
<1> QED
  BY <1>1, <1>2, <1>3

\* The limit is passed by no more than the requests that count at the same time.
THEOREM PendingIsBounded == Spec => []PendingBounded
<1>1. ASSUME Init PROVE PendingBounded
  <2>1. Pending = {} /\ Inserting = {}
    BY <1>1 DEF Init, Pending, Inserting
  <2>2. Cardinality(Pending) = 0 /\ Cardinality(Inserting) = 0
    BY <2>1, FS_EmptySet
  <2> QED
    BY <2>2, Sizes, LimitAssumption DEF PendingBounded
<1>2. IInv /\ PendingBounded /\ [Next]_vars => PendingBounded'
  BY NextPending
<1> QED
  BY <1>1, <1>2, Invariance, PTL DEF Spec

-----------------------------------------------------------------------------
(* The lock of a fulfilment *)

\* What a step of a worker does to locks: it keeps its own or takes RECHARGING back, and sets
\* RECHARGING only for itself.
Releases(w) ==
    /\ \A v \in Workers \ {w} : pc'[v] = pc[v] /\ ord'[v] = ord[v]
    /\ pc[w] \in Locked =>
        \/ status'[ord[w]] # "RECHARGING"
        \/ pc'[w] \in Locked /\ ord'[w] = ord[w]
    /\ \A o \in Orders : status'[o] = "RECHARGING" =>
        \/ status[o] = "RECHARGING"
        \/ pc'[w] \in Locked /\ ord'[w] = o

\* Such a step abandons no order.
LEMMA ReleasesAbandonsNone ==
    ASSUME NEW w \in Workers, Releases(w)
    PROVE  Abandoned' \subseteq Abandoned
<1> SUFFICES ASSUME NEW o \in Orders, status'[o] = "RECHARGING",
                    \A v \in Workers : pc'[v] \in Locked => ord'[v] # o
             PROVE  status[o] = "RECHARGING" /\ \A v \in Workers : pc[v] \in Locked => ord[v] # o
  BY DEF Abandoned
<1> QED
  BY DEF Releases

\* What leaves a lock behind: a process that dies, a markFailed that fails, or an update to
\* RECHARGING that reports an error.
Loses(w) ==
    \/ Crash(w)
    \/ MarkFailed(w) /\ Fault("markFailed")
    \/ LockRecharging(w) /\ Fault("lock")

\* Every way through a fulfilment that a worker goes by itself ends with markCompleted or
\* markFailed, and one of them takes RECHARGING back unless the update of markFailed fails.
LEMMA StepReleases ==
    ASSUME IInv, NEW w \in Workers, Step(w)
    PROVE  Releases(w) \/ Loses(w)
<1> USE DEF At, Enter, Goto, Leave, ReturnOk, ReturnErr, SetStatus, IInv, WorkerType, RowType,
            Releases, rowVars
<1>1. pc[w] # "insert" /\ pc[w] # "idle" => ord[w] \in Orders
  BY DEF WorkersOK, WorkerInv
<1>2. CASE CreateOrderInTx(w) \/ InvokeProvider(w) \/ CreateFailed(w) \/ CancelUpdate(w)
  BY <1>1, <1>2 DEF CreateOrderInTx, InvokeProvider, CreateFailed, CancelUpdate, Locked
<1>3. CASE CheckPaid(w)
  BY <1>3 DEF CheckPaid, NotPaid, Locked
<1>4. CASE ToPaid(w) \/ AlreadyProcessed(w) \/ Fulfill(w) \/ RetryReset(w)
  BY <1>1, <1>4
  DEF ToPaid, AlreadyProcessed, Fulfill, ExecuteBalanceFulfillment,
      ExecuteSubscriptionFulfillment, RetryReset, Locked
<1>5. CASE LockRecharging(w)
  BY <1>1, <1>5 DEF LockRecharging, Locked, Loses
<1>6. CASE CreateCode(w) \/ IsFirstRecharge(w) \/ Redeem(w) \/ SubCheck(w) \/ SubAssign(w)
  BY <1>6 DEF CreateCode, IsFirstRecharge, Redeem, SubCheck, SubAssign, Locked
<1>7. CASE LookupCode(w)
  <2>1. code[ord[w]] \in {"absent", "unused", "used"}
    BY <1>1, <1>7 DEF LookupCode, GoodsType
  <2>2. RedeemAction(code[ord[w]]) \in Locked
    BY <2>1 DEF RedeemAction, Locked
  <2> QED
    BY <1>7, <2>2 DEF LookupCode, Locked
<1>8. CASE MarkCompleted(w)
  BY <1>1, <1>8 DEF MarkCompleted, Locked
<1>9. CASE MarkFailed(w)
  BY <1>1, <1>9 DEF MarkFailed, Locked, Loses
<1>10. CASE RewardCheck(w) \/ RewardGrant(w)
  BY <1>10 DEF RewardCheck, RewardGrant, Locked
<1> QED
  BY <1>2, <1>3, <1>4, <1>5, <1>6, <1>7, <1>8, <1>9, <1>10 DEF Step

\* A worker that leaves without giving up its lock abandons no order but its own.
LEMMA LosesAbandonsOne ==
    ASSUME IInv, NEW w \in Workers, Loses(w)
    PROVE  Abandoned' \subseteq Abandoned \cup {ord[w]}
<1>1. Leave(w)
  <2>1. CASE LockRecharging(w) /\ Fault("lock")
    <3>1. faults' # faults
      BY <2>1 DEF Fault, IInv, GoodsType
    <3> QED
      BY <2>1, <3>1 DEF LockRecharging, NoFault, ReturnErr
  <2> QED
    BY <2>1 DEF Loses, Crash, MarkFailed, ReturnErr
<1>2. \A o \in Orders \ {ord[w]} : status'[o] = status[o]
  BY DEF Loses, Crash, MarkFailed, LockRecharging, SetStatus, rowVars, IInv, RowType
<1> QED
  BY <1>1, <1>2 DEF Leave, Abandoned, IInv, WorkerType

\* Nothing else abandons an order.
LEMMA NextAbandons ==
    ASSUME IInv, [Next]_vars
    PROVE  Abandoned' \subseteq Abandoned \/ \E w \in Workers : Loses(w)
<1>1. CASE UNCHANGED vars
  BY <1>1 DEF vars, workerVars, rowVars, Abandoned
<1>2. ASSUME NEW w \in Workers, Step(w), ~Loses(w)
      PROVE  Abandoned' \subseteq Abandoned
  BY <1>2, StepReleases, ReleasesAbandonsNone
<1>3. ASSUME NEW w \in Workers, NEW o \in Orders, Call(w, o) PROVE Abandoned' \subseteq Abandoned
  <2>1. Releases(w)
    BY <1>3
    DEF Call, CancelOrder, ExpireTimedOutOrders, VerifyOrder, Webhook, RetryFulfillment, At, Enter,
        Leave, Releases, Locked, IInv, WorkerType, rowVars, workerVars
  <2> QED
    BY <2>1, ReleasesAbandonsNone
<1>4. ASSUME NEW o \in Orders, Environment(o) PROVE Abandoned' \subseteq Abandoned
  BY <1>4
  DEF Environment, UserPays, GraceEnds, Refund, SetStatus, Abandoned, IInv, RowType, rowVars,
      workerVars
<1>5. ASSUME NEW w \in Workers, CheckPendingLimit(w) \/ StatementFails(w)
      PROVE  Abandoned' \subseteq Abandoned
  <2>1. Releases(w)
    BY <1>5
    DEF CheckPendingLimit, StatementFails, At, Enter, Leave, ReturnErr, Releases, Locked, Abortable,
        IInv, WorkerType, rowVars, workerVars
  <2> QED
    BY <2>1, ReleasesAbandonsNone
<1>6. ASSUME NEW w \in Workers, Crash(w) PROVE Loses(w)
  BY <1>6 DEF Loses
<1> QED
  BY <1>1, <1>2, <1>3, <1>4, <1>5, <1>6 DEF Next

\* An order is left RECHARGING by a crash, a failing markFailed or an update to RECHARGING
\* whose answer is lost, one by each, and by nothing else that fails.
THEOREM LocksAreGivenBack == Spec => []LocksAreReleased
<1>1. \A S \in SUBSET Orders : IsFiniteSet(S) /\ Cardinality(S) \in Nat
  BY Sizes
<1>2. ASSUME Init PROVE LocksAreReleased
  <2>1. Abandoned = {} /\ losses = 0
    BY <1>2 DEF Init, Abandoned
  <2> QED
    BY <2>1, FS_EmptySet DEF LocksAreReleased
<1>3. ASSUME IInv, LocksAreReleased, [Next]_vars PROVE LocksAreReleased'
  <2>1. /\ Abandoned \in SUBSET Orders /\ Abandoned' \in SUBSET Orders
        /\ losses \in Nat /\ losses' \in {losses, losses + 1}
    BY <1>3, FaultsCounted DEF CountedOnce, Abandoned, IInv, GoodsType
  <2>2. CASE Abandoned' \subseteq Abandoned
    <3>1. Cardinality(Abandoned') =< Cardinality(Abandoned)
      BY <1>1, <2>1, <2>2, FS_Subset
    <3> QED
      BY <1>1, <1>3, <2>1, <3>1 DEF LocksAreReleased
  <2>3. ASSUME NEW w \in Workers, Loses(w) PROVE LocksAreReleased'
    <3>1. PICK o \in Orders \cup {NoOrder} : Abandoned' \subseteq Abandoned \cup {o}
      BY <1>3, <2>3, LosesAbandonsOne DEF IInv, WorkerType
    <3>2. /\ IsFiniteSet(Abandoned \cup {o}) /\ Cardinality(Abandoned \cup {o}) \in Nat
          /\ Cardinality(Abandoned \cup {o}) =< Cardinality(Abandoned) + 1
      <4>1. IsFiniteSet(Abandoned \cup {o}) /\ Cardinality(Abandoned \cup {o}) =
                IF o \in Abandoned THEN Cardinality(Abandoned) ELSE Cardinality(Abandoned) + 1
        BY <1>1, <2>1, FS_AddElement
      <4> QED
        BY <1>1, <2>1, <4>1
    <3>3. Cardinality(Abandoned') =< Cardinality(Abandoned \cup {o})
      BY <3>1, <3>2, FS_Subset
    <3>4. losses' = losses + 1
      BY <2>3 DEF Loses, Crash, Fault, LockLosses
    <3> QED
      BY <1>1, <1>3, <2>1, <3>2, <3>3, <3>4 DEF LocksAreReleased
  <2> QED
    BY <1>3, <2>2, <2>3, NextAbandons
<1> QED
  BY <1>2, <1>3, Invariance, PTL DEF Spec

-----------------------------------------------------------------------------
(* The rewards of a recharge *)

\* The handlers that found no record of the reward k for order o and have not written it.
Granting(o, k) == {w \in Workers : pc[w] = "rewardGrant" /\ ord[w] = o /\ RewardKind(w) = k}

\* Those count too.
RewardInv(o, k) == gifts[o][k] + Cardinality(Granting(o, k)) =< Cardinality(Workers) + faults

AllRewards == \A o \in Orders, k \in GiftKinds : RewardInv(o, k)

\* One statement leads to the grant: the look for a record; what a handler is about to
\* grant does not change meanwhile.
LEMMA GrantFollowsCheck ==
    ASSUME IInv, [Next]_vars, NEW u \in Workers, pc'[u] = "rewardGrant"
    PROVE  \/ pc[u] = "rewardGrant" /\ ord'[u] = ord[u] /\ first'[u] = first[u]
           \/ RewardCheck(u)
<1> DEFINE Kept == pc[u] = "rewardGrant" /\ ord'[u] = ord[u] /\ first'[u] = first[u]
<1> USE DEF At, Enter, Goto, Leave, ReturnOk, ReturnErr, IInv, WorkerType
<1>1. CASE UNCHANGED vars
  BY <1>1 DEF vars, workerVars
<1>2. ASSUME NEW w \in Workers, Step(w) PROVE Kept \/ RewardCheck(u)
  <2>1. CASE CreateOrderInTx(w) \/ InvokeProvider(w) \/ CreateFailed(w) \/ CancelUpdate(w)
    BY <2>1 DEF CreateOrderInTx, InvokeProvider, CreateFailed, CancelUpdate
  <2>2. CASE CheckPaid(w)
    BY <2>2 DEF CheckPaid, NotPaid
  <2>3. CASE ToPaid(w) \/ AlreadyProcessed(w) \/ Fulfill(w) \/ LockRecharging(w)
    BY <2>3
    DEF ToPaid, AlreadyProcessed, Fulfill, ExecuteBalanceFulfillment,
        ExecuteSubscriptionFulfillment, LockRecharging
  <2>4. CASE LookupCode(w)
    <3>1. code[ord[w]] \in {"absent", "unused", "used"}
      BY <2>4 DEF LookupCode, WorkersOK, WorkerInv, AfterPayment, Locked, GoodsType
    <3>2. RedeemAction(code[ord[w]]) # "rewardGrant"
      BY <3>1 DEF RedeemAction
    <3> QED
      BY <2>4, <3>2 DEF LookupCode
  <2>5. CASE CreateCode(w) \/ IsFirstRecharge(w) \/ Redeem(w)
    BY <2>5 DEF CreateCode, IsFirstRecharge, Redeem
  <2>6. CASE SubCheck(w) \/ SubAssign(w)
    BY <2>6 DEF SubCheck, SubAssign
  <2>7. CASE RewardCheck(w)
    <3>1. CASE u = w
      BY <2>7, <3>1
    <3>2. CASE u # w
      BY <2>7, <3>2 DEF RewardCheck
    <3> QED
      BY <3>1, <3>2
  <2>8. CASE MarkCompleted(w) \/ MarkFailed(w) \/ RewardGrant(w) \/ RetryReset(w)
    BY <2>8 DEF MarkCompleted, MarkFailed, RewardGrant, RetryReset
  <2> QED
    BY <1>2, <2>1, <2>2, <2>3, <2>4, <2>5, <2>6, <2>7, <2>8 DEF Step
<1>3. ASSUME NEW w \in Workers, NEW o \in Orders, Call(w, o) PROVE Kept
  BY <1>3
  DEF Call, CancelOrder, ExpireTimedOutOrders, VerifyOrder, Webhook, RetryFulfillment, workerVars
<1>4. ASSUME NEW o \in Orders, Environment(o) PROVE Kept
  BY <1>4 DEF Environment, UserPays, GraceEnds, Refund, workerVars
<1>5. ASSUME NEW w \in Workers, CheckPendingLimit(w) \/ StatementFails(w) \/ Crash(w) PROVE Kept
  BY <1>5 DEF CheckPendingLimit, StatementFails, Crash
<1> QED
  BY <1>1, <1>2, <1>3, <1>4, <1>5 DEF Next

\* Only the insert of grantGiftBalance gives a reward.
LEMMA OnlyGrantRewards ==
    ASSUME [Next]_vars, \A w \in Workers : ~RewardGrant(w)
    PROVE  gifts' = gifts
<1>1. CASE UNCHANGED vars
  BY <1>1 DEF vars
<1>2. ASSUME NEW w \in Workers, Step(w) PROVE gifts' = gifts
  BY <1>2
  DEF Step, CreateOrderInTx, InvokeProvider, CreateFailed, CheckPaid, CancelUpdate, ToPaid,
      AlreadyProcessed, Fulfill, LockRecharging, LookupCode, CreateCode, IsFirstRecharge, Redeem,
      SubCheck, SubAssign, MarkCompleted, MarkFailed, RewardCheck, RetryReset
<1>3. ASSUME NEW w \in Workers, NEW o \in Orders, Call(w, o) PROVE gifts' = gifts
  BY <1>3 DEF Call, CancelOrder, ExpireTimedOutOrders, VerifyOrder, Webhook, RetryFulfillment
<1>4. ASSUME NEW o \in Orders, Environment(o) PROVE gifts' = gifts
  BY <1>4 DEF Environment, UserPays, GraceEnds, Refund
<1>5. ASSUME NEW w \in Workers, CheckPendingLimit(w) \/ StatementFails(w) \/ Crash(w)
      PROVE  gifts' = gifts
  BY <1>5 DEF CheckPendingLimit, StatementFails, Crash
<1> QED
  BY <1>1, <1>2, <1>3, <1>4, <1>5 DEF Next

\* The look: the handler joins the granting ones where there is no record, and then
\* they are no more than all workers, or where the look failed, which is counted.
LEMMA CheckKeepsRewards ==
    ASSUME IInv, [Next]_vars, NEW o \in Orders, NEW k \in GiftKinds, RewardInv(o, k),
           NEW w \in Workers, RewardCheck(w)
    PROVE  RewardInv(o, k)'
<1>0. /\ gifts[o][k] \in Nat /\ faults \in Nat
      /\ Granting(o, k) \in SUBSET Workers /\ Granting(o, k)' \in SUBSET Workers
  BY DEF IInv, GoodsType, Granting
<1>1. /\ Cardinality(Granting(o, k)) \in Nat /\ IsFiniteSet(Granting(o, k))
      /\ Cardinality(Granting(o, k)') \in Nat
      /\ Cardinality(Granting(o, k)') =< Cardinality(Workers)
  BY <1>0, Sizes
<1>2. gifts' = gifts
  BY DEF RewardCheck
<1>3. Granting(o, k)' \subseteq Granting(o, k) \cup {w}
  BY DEF RewardCheck, Granting, RewardKind, Goto, ReturnOk, Leave, IInv, WorkerType
<1>4. /\ IsFiniteSet(Granting(o, k) \cup {w})
      /\ Cardinality(Granting(o, k) \cup {w}) =< Cardinality(Granting(o, k)) + 1
  <2>1. IsFiniteSet(Granting(o, k) \cup {w}) /\ Cardinality(Granting(o, k) \cup {w}) =
            IF w \in Granting(o, k) THEN Cardinality(Granting(o, k))
            ELSE Cardinality(Granting(o, k)) + 1
    BY <1>1, FS_AddElement
  <2> QED
    BY <1>1, <2>1
<1>5. CASE Fault("delivery")
  <2>1. Cardinality(Granting(o, k)') =< Cardinality(Granting(o, k)) + 1
    BY <1>1, <1>3, <1>4, FS_Subset, FS_CardinalityType
  <2>2. faults' = faults + 1
    BY <1>5 DEF Fault
  <2> QED
    BY <1>0, <1>1, <1>2, <2>1, <2>2, Sizes DEF RewardInv
<1>6. CASE NoFault /\ w \in Granting(o, k)'
  <2>1. gifts[o][k] = 0
    BY <1>6 DEF RewardCheck, Granting, RewardKind, Goto, ReturnOk, Leave, Fault, NoFault, IInv,
                WorkerType, GoodsType
  <2> QED
    BY <1>0, <1>1, <1>2, <1>6, <2>1, Sizes DEF RewardInv, NoFault
<1>7. CASE NoFault /\ w \notin Granting(o, k)'
  <2>1. Granting(o, k)' \subseteq Granting(o, k)
    BY <1>3, <1>7
  <2>2. Cardinality(Granting(o, k)') =< Cardinality(Granting(o, k))
    BY <1>1, <2>1, FS_Subset
  <2> QED
    BY <1>0, <1>1, <1>2, <1>7, <2>2, Sizes DEF RewardInv, NoFault
<1> QED
  BY <1>5, <1>6, <1>7 DEF RewardCheck

\* The grant: there is one record more, and one handler less about to write one.
LEMMA GrantKeepsRewards ==
    ASSUME IInv, [Next]_vars, NEW o \in Orders, NEW k \in GiftKinds, RewardInv(o, k),
           NEW w \in Workers, RewardGrant(w)
    PROVE  RewardInv(o, k)'
<1>0. /\ gifts[o][k] \in Nat /\ faults \in Nat /\ faults' \in Nat /\ faults =< faults'
      /\ Granting(o, k) \in SUBSET Workers
  BY DEF IInv, GoodsType, Granting, RewardGrant, NoFault, Fault
<1>1. IsFiniteSet(Granting(o, k)) /\ Cardinality(Granting(o, k)) \in Nat
  BY <1>0, Sizes
<1>2. Granting(o, k)' = Granting(o, k) \ {w}
  BY DEF RewardGrant, Granting, RewardKind, ReturnOk, Leave, IInv, WorkerType
<1>3. Cardinality(Granting(o, k)') =
          IF w \in Granting(o, k) THEN Cardinality(Granting(o, k)) - 1
          ELSE Cardinality(Granting(o, k))
  BY <1>1, <1>2, FS_RemoveElement
<1>4. \/ gifts'[o][k] = gifts[o][k]
      \/ gifts'[o][k] = gifts[o][k] + 1 /\ w \in Granting(o, k)
  <2>1. CASE UNCHANGED gifts
    BY <2>1
  <2>2. CASE gifts' = [gifts EXCEPT ![ord[w]][RewardKind(w)] = @ + 1]
    <3>1. ord[w] \in Orders /\ RewardKind(w) \in GiftKinds /\ pc[w] = "rewardGrant"
      BY DEF RewardGrant, At, RewardKind, GiftKinds, IInv, WorkersOK, WorkerInv
    <3>2. CASE ord[w] = o /\ RewardKind(w) = k
      BY <2>2, <3>1, <3>2 DEF IInv, GoodsType, Granting
    <3>3. CASE ord[w] # o \/ RewardKind(w) # k
      BY <2>2, <3>1, <3>3 DEF IInv, GoodsType
    <3> QED
      BY <3>2, <3>3
  <2> QED
    BY <2>1, <2>2 DEF RewardGrant
<1> QED
  BY <1>0, <1>1, <1>3, <1>4, Sizes DEF RewardInv

\* Every step keeps the count of rewards.
LEMMA NextRewards ==
    ASSUME IInv, AllRewards, [Next]_vars
    PROVE  AllRewards'
<1> SUFFICES ASSUME NEW o \in Orders, NEW k \in GiftKinds PROVE RewardInv(o, k)'
  BY DEF AllRewards
<1>0. RewardInv(o, k)
  BY DEF AllRewards
<1>1. CASE \E w \in Workers : RewardCheck(w)
  BY <1>0, <1>1, CheckKeepsRewards
<1>2. CASE \E w \in Workers : RewardGrant(w)
  BY <1>0, <1>2, GrantKeepsRewards
<1>3. CASE \A w \in Workers : ~RewardCheck(w) /\ ~RewardGrant(w)
  <2>1. gifts' = gifts /\ (faults' = faults \/ faults' = faults + 1)
    BY <1>3, OnlyGrantRewards, FaultsCounted DEF CountedOnce
  <2>2. Granting(o, k)' \subseteq Granting(o, k)
    BY <1>3, GrantFollowsCheck DEF Granting, RewardKind
  <2>3. gifts[o][k] \in Nat /\ faults \in Nat
    BY DEF IInv, GoodsType
  <2>4. /\ IsFiniteSet(Granting(o, k)) /\ Cardinality(Granting(o, k)) \in Nat
        /\ Cardinality(Granting(o, k)') \in Nat
    BY Sizes DEF Granting
  <2>5. Cardinality(Granting(o, k)') =< Cardinality(Granting(o, k))
    BY <2>2, <2>4, FS_Subset
  <2> QED
    BY <1>0, <2>1, <2>3, <2>4, <2>5, Sizes DEF RewardInv
<1> QED
  BY <1>1, <1>2, <1>3

\* However often a completed order is retried, a reward is given again only by handlers
\* that looked before the first record was there, or for a look that failed.
THEOREM RewardsAreBounded == Spec => []RewardsBounded
<1>1. ASSUME Init PROVE AllRewards
  <2> SUFFICES ASSUME NEW o \in Orders, NEW k \in GiftKinds PROVE RewardInv(o, k)
    BY DEF AllRewards
  <2>1. Granting(o, k) = {} /\ gifts[o][k] = 0 /\ faults = 0
    BY <1>1 DEF Init, Granting
  <2>2. Cardinality(Granting(o, k)) = 0
    BY <2>1, FS_EmptySet
  <2> QED
    BY <2>1, <2>2, Sizes DEF RewardInv
<1>2. IInv /\ AllRewards /\ [Next]_vars => AllRewards'
  BY NextRewards
<1>3. IInv /\ AllRewards => RewardsBounded
  <2> SUFFICES ASSUME IInv, AllRewards, NEW o \in Orders, NEW k \in GiftKinds
               PROVE  gifts[o][k] =< Cardinality(Workers) + faults
    BY DEF RewardsBounded
  <2>1. gifts[o][k] \in Nat /\ faults \in Nat
    BY DEF IInv, GoodsType
  <2>2. Cardinality(Granting(o, k)) \in Nat
    BY Sizes DEF Granting
  <2> QED
    BY <2>1, <2>2, Sizes DEF AllRewards, RewardInv
<1> QED
  BY <1>1, <1>2, <1>3, Invariance, PTL DEF Spec

-----------------------------------------------------------------------------
(* PaymentOrder implements OrderLedger *)

\* The three ledger variables of an order, as PaymentOrder's state gives them.
IsPaid(o) == upstream[o] = "paid"
IsComplete(o) == status[o] \in {"COMPLETED", "REFUND"}

\* A step that leaves the three alone for every balance order is a stutter.
LEMMA LedgerStutter ==
    ASSUME \A o \in BalanceOrders :
             /\ IsPaid(o)' <=> IsPaid(o)
             /\ credits'[o] = credits[o]
             /\ IsComplete(o)' <=> IsComplete(o)
    PROVE  UNCHANGED Ledger!vars
<1>1. {o \in BalanceOrders : upstream[o] = "paid"}'
        = {o \in BalanceOrders : upstream[o] = "paid"}
  BY DEF IsPaid, BalanceOrders
<1>2. [o \in BalanceOrders |-> credits[o]]' = [o \in BalanceOrders |-> credits[o]]
  BY DEF BalanceOrders
<1>3. {o \in BalanceOrders : status[o] \in {"COMPLETED", "REFUND"}}'
        = {o \in BalanceOrders : status[o] \in {"COMPLETED", "REFUND"}}
  BY DEF IsComplete, BalanceOrders
<1> QED
  BY <1>1, <1>2, <1>3 DEF Ledger!vars

\* The payer's payment of a balance order is the ledger's Pay.
LEMMA UserPaysIsPay ==
    ASSUME IInv, NEW o \in BalanceOrders, UserPays(o)
    PROVE  Ledger!Pay(o)
<1> USE DEF BalanceOrders, IInv, RowType
<1>1. ~(upstream[o] = "paid")
  BY DEF UserPays
<1>2. {p \in BalanceOrders : upstream[p] = "paid"}'
        = {p \in BalanceOrders : upstream[p] = "paid"} \cup {o}
  <2>1. \A p \in BalanceOrders : upstream'[p] = "paid" <=> (p = o \/ upstream[p] = "paid")
    BY DEF UserPays
  <2> QED
    BY <2>1
<1>3. [p \in BalanceOrders |-> credits[p]]' = [p \in BalanceOrders |-> credits[p]]
  BY DEF UserPays, goodsVars
<1>4. {p \in BalanceOrders : status[p] \in {"COMPLETED", "REFUND"}}'
        = {p \in BalanceOrders : status[p] \in {"COMPLETED", "REFUND"}}
  BY DEF UserPays, rowVars
<1> QED
  BY <1>1, <1>2, <1>3, <1>4 DEF Ledger!Pay

\* The transaction of Redeem is the ledger's Deliver.
LEMMA RedeemIsDeliver ==
    ASSUME IInv, NEW w \in Workers, Redeem(w), code' # code
    PROVE  \E o \in BalanceOrders : Ledger!Deliver(o)
<1> USE DEF IInv
<1>1. PICK o \in BalanceOrders : o = ord[w] /\ code[o] = "unused"
  BY DEF Redeem, At, WorkersOK, WorkerInv, BalanceOrders, Balance
<1>2. upstream[o] = "paid" /\ credits[o] = 0
  BY <1>1
  DEF Redeem, At, WorkersOK, WorkerInv, OrdersOK, OrderInv, AfterPayment, Locked, BalanceOrders,
      Balance
<1>3. credits' = [credits EXCEPT ![o] = 1]
  <2>1. credits' = [credits EXCEPT ![ord[w]] = credits[ord[w]] + 1]
    BY DEF Redeem
  <2>2. credits' = [credits EXCEPT ![o] = credits[o] + 1]
    BY <1>1, <2>1
  <2>3. credits[o] + 1 = 1
    BY <1>2
  <2> QED
    BY <2>2, <2>3
<1>4. [p \in BalanceOrders |-> credits[p]]'
        = [[p \in BalanceOrders |-> credits[p]] EXCEPT ![o] = 1]
  BY <1>1, <1>3 DEF GoodsType, BalanceOrders
<1>5. /\ {p \in BalanceOrders : upstream[p] = "paid"}'
           = {p \in BalanceOrders : upstream[p] = "paid"}
      /\ {p \in BalanceOrders : status[p] \in {"COMPLETED", "REFUND"}}'
           = {p \in BalanceOrders : status[p] \in {"COMPLETED", "REFUND"}}
  BY DEF Redeem, rowVars
<1> QED
  BY <1>1, <1>2, <1>4, <1>5 DEF Ledger!Deliver

\* The update of markCompleted, for a balance order, is the ledger's Complete.
LEMMA MarkCompletedIsComplete ==
    ASSUME IInv, NEW w \in Workers, MarkCompleted(w), NEW o \in BalanceOrders, o = ord[w],
           status' = [status EXCEPT ![o] = "COMPLETED"]
    PROVE  Ledger!Complete(o)
<1> USE DEF IInv, BalanceOrders
<1>1. credits[o] = 1
  BY DEF MarkCompleted, At, WorkersOK, WorkerInv, OrdersOK, OrderInv, Balance, GoodsType
<1>2. {p \in BalanceOrders : status[p] \in {"COMPLETED", "REFUND"}}'
        = {p \in BalanceOrders : status[p] \in {"COMPLETED", "REFUND"}} \cup {o}
  <2>1. \A p \in BalanceOrders :
          status'[p] \in {"COMPLETED", "REFUND"}
            <=> (p = o \/ status[p] \in {"COMPLETED", "REFUND"})
    BY DEF RowType
  <2> QED
    BY <2>1
<1>3. /\ {p \in BalanceOrders : upstream[p] = "paid"}'
           = {p \in BalanceOrders : upstream[p] = "paid"}
      /\ [p \in BalanceOrders |-> credits[p]]' = [p \in BalanceOrders |-> credits[p]]
  BY DEF MarkCompleted
<1> QED
  BY <1>1, <1>2, <1>3 DEF Ledger!Complete

\* Every other write leaves the ledger alone.
LEMMA WriteIsLedgerStep ==
    ASSUME IInv, NEW w \in Workers, Writes(w)
    PROVE  Ledger!Next \/ UNCHANGED Ledger!vars
<1>1. CASE Redeem(w) /\ code' # code
  BY <1>1, RedeemIsDeliver DEF Ledger!Next
<1>2. CASE MarkCompleted(w) /\ ord[w] \in BalanceOrders
             /\ status' = [status EXCEPT ![ord[w]] = "COMPLETED"]
  <2>1. PICK o \in BalanceOrders : o = ord[w]
    BY <1>2
  <2>2. Ledger!Complete(o)
    BY <1>2, <2>1, MarkCompletedIsComplete
  <2> QED
    BY <2>2 DEF Ledger!Next
<1>3. CASE ~(Redeem(w) /\ code' # code) /\
           ~(MarkCompleted(w) /\ ord[w] \in BalanceOrders
               /\ status' = [status EXCEPT ![ord[w]] = "COMPLETED"])
  <2> SUFFICES ASSUME NEW o \in BalanceOrders
               PROVE  /\ IsPaid(o)' <=> IsPaid(o)
                      /\ credits'[o] = credits[o]
                      /\ IsComplete(o)' <=> IsComplete(o)
    BY LedgerStutter
  <2>1. o \in Orders /\ Balance(o)
    BY DEF BalanceOrders, Balance
  <2>2. IsPaid(o)' <=> IsPaid(o)
    BY <2>1, WriteEffect DEF IsPaid
  <2>3. credits'[o] = credits[o]
    <3>1. CASE SubAssign(w)
      BY <2>1, <3>1 DEF SubAssign, At, IInv, WorkersOK, WorkerInv, GoodsType
    <3>2. CASE Redeem(w)
      BY <1>3, <2>1, <3>2 DEF Redeem, At, IInv, WorkersOK, WorkerInv, GoodsType
    <3>3. CASE ~SubAssign(w) /\ ~Redeem(w)
      BY <3>3
      DEF Writes, CreateOrderInTx, InvokeProvider, CreateFailed, CheckPaid, CancelUpdate, ToPaid,
          LockRecharging, CreateCode, MarkCompleted, MarkFailed, RetryReset, goodsVars
    <3> QED
      BY <3>1, <3>2, <3>3
  <2>4. IsComplete(o)' => IsComplete(o)
    <3> USE DEF IsComplete, IInv, RowType
    <3>1. CASE MarkCompleted(w)
      BY <1>3, <2>1, <3>1
      DEF MarkCompleted, At, SetStatus, BalanceOrders, Balance, WorkersOK, WorkerInv
    <3>2. CASE CreateOrderInTx(w) \/ CreateFailed(w) \/ MarkFailed(w) \/ RetryReset(w)
      BY <2>1, <3>2 DEF CreateOrderInTx, CreateFailed, MarkFailed, RetryReset, SetStatus
    <3>3. CASE CancelUpdate(w) \/ ToPaid(w) \/ LockRecharging(w)
      BY <2>1, <3>3 DEF CancelUpdate, ToPaid, LockRecharging, SetStatus
    <3>4. CASE InvokeProvider(w) \/ CheckPaid(w) \/ CreateCode(w) \/ Redeem(w) \/ SubAssign(w)
      BY <3>4 DEF InvokeProvider, CheckPaid, CreateCode, Redeem, SubAssign, rowVars
    <3> QED
      BY <3>1, <3>2, <3>3, <3>4 DEF Writes
  <2>5. IsComplete(o) => IsComplete(o)'
    BY <2>1, WriteEffect DEF IsComplete
  <2> QED
    BY <2>2, <2>3, <2>4, <2>5
<1> QED
  BY <1>1, <1>2, <1>3

\* Every behaviour of the handlers is one of the ledger.
THEOREM LedgerImplemented == Spec => ImplementsLedger
<1>1. Init => Ledger!Init
  <2> SUFFICES ASSUME Init PROVE Ledger!Init
    OBVIOUS
  <2>1. \A o \in BalanceOrders :
          ~(upstream[o] = "paid") /\ ~(status[o] \in {"COMPLETED", "REFUND"}) /\ credits[o] = 0
    BY DEF Init, BalanceOrders
  <2>2. {o \in BalanceOrders : upstream[o] = "paid"} = {}
    BY <2>1
  <2>3. [o \in BalanceOrders |-> credits[o]] = [o \in BalanceOrders |-> 0]
    BY <2>1
  <2>4. {o \in BalanceOrders : status[o] \in {"COMPLETED", "REFUND"}} = {}
    BY <2>1
  <2> QED
    BY <2>2, <2>3, <2>4 DEF Ledger!Init
<1>2. ASSUME IInv, [Next]_vars
      PROVE  Ledger!Next \/ UNCHANGED Ledger!vars
  <2>1. CASE UNCHANGED <<rowVars, upstream, goodsVars>>
    BY <2>1, LedgerStutter DEF rowVars, goodsVars, IsPaid, IsComplete
  <2>2. ASSUME NEW w \in Workers, Writes(w)
        PROVE  Ledger!Next \/ UNCHANGED Ledger!vars
    BY <1>2, <2>2, WriteIsLedgerStep
  <2>3. ASSUME NEW o \in Orders, Environment(o)
        PROVE  Ledger!Next \/ UNCHANGED Ledger!vars
    <3>1. CASE UserPays(o) /\ o \in BalanceOrders
      BY <1>2, <3>1, UserPaysIsPay DEF Ledger!Next
    <3>2. CASE UserPays(o) /\ o \notin BalanceOrders
      <4>1. \A p \in BalanceOrders : upstream'[p] = upstream[p]
        BY <1>2, <3>2 DEF UserPays, IInv, RowType, BalanceOrders
      <4> QED
        BY <3>2, <4>1, LedgerStutter DEF UserPays, rowVars, goodsVars, IsPaid, IsComplete
    <3>3. CASE GraceEnds(o)
      BY <3>3, LedgerStutter DEF GraceEnds, goodsVars, IsPaid, IsComplete
    <3>4. CASE Refund(o)
      <4>1. \A p \in BalanceOrders : IsComplete(p)' <=> IsComplete(p)
        BY <1>2, <3>4 DEF Refund, SetStatus, IInv, RowType, BalanceOrders, IsComplete
      <4> QED
        BY <3>4, <4>1, LedgerStutter DEF Refund, goodsVars, IsPaid
    <3> QED
      BY <2>3, <3>1, <3>2, <3>3, <3>4 DEF Environment
  <2> QED
    BY <1>2, <2>1, <2>2, <2>3, StepKinds
<1>3. IInv /\ [Next]_vars => [Ledger!Next]_(Ledger!vars)
  BY <1>2
<1> QED
  BY <1>1, <1>3, Invariance, PTL DEF Spec, ImplementsLedger, Ledger!Spec
=============================================================================

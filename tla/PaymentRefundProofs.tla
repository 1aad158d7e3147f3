------------------------- MODULE PaymentRefundProofs -------------------------
(***************************************************************************)
(* Proofs about PaymentRefund, for any orders and workers, any amount and  *)
(* any number of failures.                                                 *)
(***************************************************************************)
EXTENDS PaymentRefund, FiniteSetTheorems, TLAPS

-----------------------------------------------------------------------------
(* The inductive invariant *)

\* TypeOK in the three parts that statements change separately.
WorkerType ==
    /\ pc \in [Workers -> Labels]
    /\ ord \in [Workers -> Orders \cup {NoOrder}]
    /\ plan \in [Workers -> Plans]

OrderType ==
    /\ status \in [Orders -> Statuses]
    /\ rollbackFailed \in [Orders -> BOOLEAN]
    /\ taken \in [Orders -> Int]
    /\ accepted \in [Orders -> Nat]
    /\ paidBack \in [Orders -> Nat]
    /\ slips \in [Orders -> Nat]

GoodsType ==
    /\ balance \in Int
    /\ subLive \in BOOLEAN
    /\ expiry \in Int
    /\ now \in Nat
    /\ faults \in Nat

\* Where the goods of the plan are taken and may have to be given back.
GoodsTaken == {"gateway", "rollback", "rollbackRead", "rollbackWrite"}

\* What the place a worker is at says of its order and its plan: it has an order, the row says
\* REFUNDING while it executes, what it takes is of the order's kind, and what it
\* may give back it has taken.
WorkerInv(w) ==
    /\ pc[w] # "idle" => ord[w] \in Orders
    /\ pc[w] \in Executing => status[ord[w]] = "REFUNDING"
    /\ pc[w] # "idle" /\ plan[w].kind = "balance" => Balance(ord[w])
    /\ pc[w] # "idle" /\ plan[w].kind = "subscription" => ~Balance(ord[w])
    /\ plan[w].kind = "none" => plan[w].take = 0
    /\ pc[w] \in {"idle", "request", "prepDeduct"} => plan[w].kind = "none"
    /\ pc[w] \in GoodsTaken => taken[ord[w]] >= plan[w].take

\* No two workers execute the refund of one order.
Apart(u, v) == pc[u] \in Executing /\ pc[v] \in Executing => ord[u] # ord[v]

WorkersOK == \A w \in Workers : WorkerInv(w)

AllApart == \A u, v \in Workers : u # v => Apart(u, v)

TakenNat == \A o \in Orders : taken[o] >= 0

IInv == WorkerType /\ OrderType /\ GoodsType /\ WorkersOK /\ AllApart /\ TakenNat

-----------------------------------------------------------------------------
(* Types *)

\* Goto, a step within ExecuteRefund, keeps the worker well typed.
LEMMA GotoType ==
    ASSUME WorkerType, NEW w \in Workers, NEW l \in Labels, Goto(w, l)
    PROVE  WorkerType'
BY DEF WorkerType, Goto

\* Return, the end of a request, keeps the worker well typed.
LEMMA ReturnType ==
    ASSUME WorkerType, NEW w \in Workers, Return(w)
    PROVE  WorkerType'
<1>1. NoPlan \in Plans
  BY NumbersAssumption DEF NoPlan, Plans
<1> QED
  BY <1>1 DEF WorkerType, Return, Labels

\* A plan stays one when what it takes is replaced.
LEMMA PlanTakeType ==
    ASSUME NEW f \in [Workers -> Plans], NEW w \in Workers,
           NEW k \in {"none", "balance", "subscription"}, NEW t \in 0..Goods
    PROVE  [f EXCEPT ![w].kind = k, ![w].take = t] \in [Workers -> Plans]
BY DEF Plans

\* So it does when the kind stays as it is.
LEMMA PlanAmountType ==
    ASSUME NEW f \in [Workers -> Plans], NEW w \in Workers, NEW t \in 0..Goods
    PROVE  [f EXCEPT ![w].take = t] \in [Workers -> Plans]
BY DEF Plans

\* A plan stays one when the expiry it is about to write is replaced.
LEMMA PlanTargetType ==
    ASSUME NEW f \in [Workers -> Plans], NEW w \in Workers, NEW e \in Int
    PROVE  [f EXCEPT ![w].target = e] \in [Workers -> Plans]
BY DEF Plans

\* The plan PrepareRefund makes.
LEMMA NewPlanType ==
    ASSUME NEW amount \in 1..Goods, NEW b \in BOOLEAN
    PROVE  [NoPlan EXCEPT !.amount = amount, !.requested = b] \in Plans
<1>1. NoPlan \in Plans
  BY NumbersAssumption DEF NoPlan, Plans
<1> QED
  BY <1>1 DEF Plans

\* A Boolean function stays one when a Boolean is assigned to one of its points.
LEMMA ExceptBoolean ==
    ASSUME NEW S, NEW f \in [S -> BOOLEAN], NEW x, NEW b \in BOOLEAN
    PROVE  [f EXCEPT ![x] = b] \in [S -> BOOLEAN]
OBVIOUS

-----------------------------------------------------------------------------
\* RollbackLabel is a statement of handleGwFail.
LEMMA RollbackLabelType ==
    ASSUME NEW w \in Workers
    PROVE  RollbackLabel(w) \in Labels
BY DEF RollbackLabel, Labels, Executing

\* The invariant has the state well formed.
LEMMA IInvTypeOK == IInv => TypeOK
BY DEF IInv, TypeOK, WorkerType, OrderType, GoodsType

\* At first no worker has an order and nothing is taken.
LEMMA InitIInv == Init => IInv
<1> SUFFICES ASSUME Init PROVE IInv
  OBVIOUS
<1>1. WorkerType /\ OrderType /\ GoodsType
  <2>1. IsFiniteSet(SubOrders) /\ IsFiniteSet(Orders \ SubOrders)
    BY OrdersAssumption, FS_Subset
  <2>2. Cardinality(SubOrders) \in Nat /\ Cardinality(Orders \ SubOrders) \in Nat
    BY <2>1, FS_CardinalityType
  <2>3. balance \in Int /\ expiry \in Int
    BY DEF Init
  <2> QED
    BY NumbersAssumption
    DEF Init, WorkerType, OrderType, GoodsType, Statuses, Refundable, Plans, NoPlan, Labels
<1>2. WorkersOK /\ AllApart /\ TakenNat
  BY DEF Init, WorkersOK, WorkerInv, AllApart, Apart, TakenNat, Executing, GoodsTaken, NoPlan
<1> QED
  BY <1>1, <1>2 DEF IInv

\* The UPDATE of RequestRefund changes a row that says COMPLETED, which nobody executes.
LEMMA RequestUpdateKeeps ==
    ASSUME IInv, NEW w \in Workers, RequestUpdate(w)
    PROVE  IInv'
<1> USE OrdersAssumption, NumbersAssumption
    DEF IInv, NoFault, Fault, Slip, OneMore, moneyVars
<1>1. WorkerType'
  BY ReturnType DEF RequestUpdate
<1>2. OrderType'
  BY ExceptBoolean DEF RequestUpdate, OrderType, WorkersOK, WorkerInv, At, GoodsTaken
<1>3. GoodsType'
  BY DEF RequestUpdate, GoodsType, goodsVars
<1>4. WorkersOK'
  BY DEF RequestUpdate, WorkerType, OrderType, WorkersOK, WorkerInv, Return, goodsVars,
         SetStatus, NoPlan, Executing, GoodsTaken
<1>5. AllApart'
  BY DEF RequestUpdate, WorkerType, AllApart, Apart, Return, Executing
<1>6. TakenNat'
  BY DEF RequestUpdate, TakenNat, goodsVars
<1> QED
  BY <1>1, <1>2, <1>3, <1>4, <1>5, <1>6

\* prepDeduct plans what to take, within what the user has.
LEMMA PrepDeductKeeps ==
    ASSUME IInv, NEW w \in Workers, PrepDeduct(w)
    PROVE  IInv'
<1> USE OrdersAssumption, NumbersAssumption
    DEF IInv, NoFault, Fault, Slip, OneMore, moneyVars
<1>1. WorkerType'
  BY GotoType, ReturnType, RollbackLabelType
  DEF PrepDeduct, WorkerType, WorkersOK, WorkerInv, Plans, Labels, Refundable
<1>2. OrderType'
  BY ExceptBoolean DEF PrepDeduct, OrderType, WorkersOK, WorkerInv, At
<1>3. GoodsType'
  BY DEF PrepDeduct, GoodsType, goodsVars
<1>4. WorkersOK'
  BY DEF PrepDeduct, WorkerType, WorkersOK, WorkerInv, At, Goto, Return, goodsVars, Plans,
         NoPlan, Executing, GoodsTaken
<1>5. AllApart'
  BY DEF PrepDeduct, WorkerType, AllApart, Apart, Goto, Return, Executing, Refundable
<1>6. TakenNat'
  BY DEF PrepDeduct, TakenNat, goodsVars
<1> QED
  BY <1>1, <1>2, <1>3, <1>4, <1>5, <1>6

\* The UPDATE that sets REFUNDING lets one worker in: the row said otherwise before.
LEMMA LockRefundKeeps ==
    ASSUME IInv, NEW w \in Workers, LockRefund(w)
    PROVE  IInv'
<1> USE OrdersAssumption, NumbersAssumption
    DEF IInv, NoFault, Fault, Slip, OneMore, moneyVars
<1>1. WorkerType'
  BY GotoType, ReturnType DEF LockRefund, Labels, Executing
<1>2. OrderType'
  BY ExceptBoolean DEF LockRefund, OrderType, WorkersOK, WorkerInv, At, Labels
<1>3. GoodsType'
  BY DEF LockRefund, GoodsType, goodsVars
<1>4. WorkersOK'
  BY DEF LockRefund, WorkerType, OrderType, WorkersOK, TakenNat, WorkerInv, At, Goto, Return,
         goodsVars, SetStatus, Plans, NoPlan, Executing, GoodsTaken
<1>5. AllApart'
  BY DEF LockRefund, WorkerType, WorkersOK, WorkerInv, AllApart, Apart, Goto, Return, Executing,
         Refundable
<1>6. TakenNat'
  BY DEF LockRefund, TakenNat, goodsVars
<1> QED
  BY <1>1, <1>2, <1>3, <1>4, <1>5, <1>6

\* The audit log may say that an earlier attempt kept the goods: nothing is planned then.
LEMMA AuditCheckKeeps ==
    ASSUME IInv, NEW w \in Workers, AuditCheck(w)
    PROVE  IInv'
<1> USE OrdersAssumption, NumbersAssumption
    DEF IInv, NoFault, Fault, Slip, OneMore, moneyVars
<1>1. WorkerType'
  <2>1. CASE plan' = [plan EXCEPT ![w].take = 0] /\ pc' = [pc EXCEPT ![w] = "gateway"]
                /\ UNCHANGED ord
    <3>1. 0 \in 0..Goods
      OBVIOUS
    <3>2. plan' \in [Workers -> Plans]
      BY <2>1, PlanAmountType DEF WorkerType
    <3> QED
      BY <2>1, <3>2 DEF WorkerType, Labels, Executing
  <2>2. CASE Goto(w, "deduct") \/ Goto(w, "subRead")
    BY <2>2, GotoType DEF Labels, Executing
  <2> QED
    BY <2>1, <2>2 DEF AuditCheck
<1>2. OrderType'
  BY ExceptBoolean DEF AuditCheck, OrderType, WorkersOK, WorkerInv, At
<1>3. GoodsType'
  BY DEF AuditCheck, GoodsType, goodsVars
<1>4. WorkersOK'
  BY DEF AuditCheck, WorkerType, WorkersOK, TakenNat, WorkerInv, At, Goto, goodsVars, Plans,
         Labels, GoodsTaken
<1>5. AllApart'
  BY DEF AuditCheck, WorkerType, AllApart, Apart, At, Goto, Labels
<1>6. TakenNat'
  BY DEF AuditCheck, TakenNat, goodsVars
<1> QED
  BY <1>1, <1>2, <1>3, <1>4, <1>5, <1>6

\* The balance is taken, and the order's goods are recorded as taken.
LEMMA DeductKeeps ==
    ASSUME IInv, NEW w \in Workers, Deduct(w)
    PROVE  IInv'
<1> USE OrdersAssumption, NumbersAssumption
    DEF IInv, NoFault, Fault, Slip, OneMore, moneyVars
<1>1. WorkerType'
  BY GotoType DEF Deduct, Labels, Executing
<1>2. OrderType'
  BY ExceptBoolean DEF Deduct, OrderType
<1>3. GoodsType'
  BY DEF Deduct, WorkerType, GoodsType, Plans
<1>4. WorkersOK'
  <2>1. ASSUME NEW v \in Workers, v # w PROVE WorkerInv(v)'
    <3>1. pc'[v] = pc[v] /\ ord'[v] = ord[v] /\ plan'[v] = plan[v] /\ UNCHANGED status
      BY <2>1 DEF Deduct, Goto, WorkerType
    <3>2. \A o \in Orders : taken'[o] >= taken[o]
      BY DEF Deduct, OrderType, WorkerType, Plans
    <3>3. plan[v].take \in Nat
      BY DEF WorkerType, Plans
    <3>4. WorkerInv(v)
      BY DEF WorkersOK
    <3>5. pc[v] \in GoodsTaken => taken'[ord[v]] >= plan[v].take
      <4>1. CASE pc[v] \in GoodsTaken
        <5>1. ord[v] \in Orders /\ taken[ord[v]] >= plan[v].take
          BY <3>4, <4>1 DEF WorkerInv, GoodsTaken
        <5>2. taken[ord[v]] \in Int /\ taken'[ord[v]] \in Int
          BY <5>1, <1>2 DEF OrderType
        <5> QED
          BY <3>2, <3>3, <5>1, <5>2
      <4> QED
        BY <4>1
    <3> QED
      BY <3>1, <3>4, <3>5 DEF WorkerInv, Balance
  <2>2. WorkerInv(w)'
    BY DEF Deduct, WorkerType, OrderType, WorkersOK, TakenNat, WorkerInv, At, Goto, Plans,
           Executing, GoodsTaken
  <2> QED
    BY <2>1, <2>2 DEF WorkersOK
<1>5. AllApart'
  BY DEF Deduct, WorkerType, AllApart, Apart, At, Goto, Labels
<1>6. TakenNat'
  BY DEF Deduct, WorkerType, OrderType, TakenNat, Plans
<1> QED
  BY <1>1, <1>2, <1>3, <1>4, <1>5, <1>6

\* The expiry is read, and what to write computed from it.
LEMMA SubReadKeeps ==
    ASSUME IInv, NEW w \in Workers, SubRead(w)
    PROVE  IInv'
<1> USE OrdersAssumption, NumbersAssumption
    DEF IInv, NoFault, Fault, Slip, OneMore, moneyVars
<1>1. WorkerType'
  <2>1. CASE plan' = [plan EXCEPT ![w].target = expiry - plan[w].take]
                /\ pc' = [pc EXCEPT ![w] = "subWrite"] /\ UNCHANGED ord
    <3>1. expiry - plan[w].take \in Int
      BY DEF WorkerType, GoodsType, Plans
    <3>2. plan' \in [Workers -> Plans]
      BY <2>1, <3>1, PlanTargetType DEF WorkerType
    <3> QED
      BY <2>1, <3>2 DEF WorkerType, Labels, Executing
  <2>2. CASE Goto(w, "revoke") \/ Goto(w, "restore")
    BY <2>2, GotoType DEF Labels, Executing
  <2> QED
    BY <2>1, <2>2 DEF SubRead
<1>2. OrderType'
  BY ExceptBoolean DEF SubRead, OrderType, WorkersOK, WorkerInv, At
<1>3. GoodsType'
  BY DEF SubRead, GoodsType, goodsVars
<1>4. WorkersOK'
  BY DEF SubRead, WorkerType, WorkersOK, WorkerInv, At, Goto, goodsVars, Plans, Labels,
         GoodsTaken
<1>5. AllApart'
  BY DEF SubRead, WorkerType, AllApart, Apart, At, Goto, Labels
<1>6. TakenNat'
  BY DEF SubRead, TakenNat, goodsVars
<1> QED
  BY <1>1, <1>2, <1>3, <1>4, <1>5, <1>6

\* The computed expiry is written.
LEMMA SubWriteKeeps ==
    ASSUME IInv, NEW w \in Workers, SubWrite(w)
    PROVE  IInv'
<1> USE OrdersAssumption, NumbersAssumption
    DEF IInv, NoFault, Fault, Slip, OneMore, moneyVars
<1>1. WorkerType'
  BY GotoType DEF SubWrite, Labels, Executing
<1>2. OrderType'
  BY ExceptBoolean DEF SubWrite, OrderType
<1>3. GoodsType'
  BY DEF SubWrite, WorkerType, GoodsType, Plans
<1>4. WorkersOK'
  BY DEF SubWrite, WorkerType, OrderType, WorkersOK, AllApart, Apart, TakenNat, WorkerInv, At,
         Goto, Plans, Labels, GoodsTaken
<1>5. AllApart'
  BY DEF SubWrite, WorkerType, AllApart, Apart, At, Goto, Labels
<1>6. TakenNat'
  BY DEF SubWrite, WorkerType, OrderType, TakenNat, Plans
<1> QED
  BY <1>1, <1>2, <1>3, <1>4, <1>5, <1>6

\* A subscription that would not go on is revoked.
LEMMA RevokeKeeps ==
    ASSUME IInv, NEW w \in Workers, Revoke(w)
    PROVE  IInv'
<1> USE OrdersAssumption, NumbersAssumption
    DEF IInv, NoFault, Fault, Slip, OneMore, moneyVars
<1>1. WorkerType'
  BY GotoType DEF Revoke, Labels, Executing
<1>2. OrderType'
  BY ExceptBoolean DEF Revoke, OrderType
<1>3. GoodsType'
  <2>1. subLive' \in BOOLEAN /\ UNCHANGED <<balance, expiry, now>>
    BY DEF Revoke, GoodsType
  <2>2. faults' \in Nat
    BY DEF Revoke, GoodsType
  <2> QED
    BY <2>1, <2>2 DEF GoodsType
<1>4. WorkersOK'
  BY DEF Revoke, WorkerType, OrderType, WorkersOK, Apart, TakenNat, WorkerInv, At, Goto, Plans,
         Labels, GoodsTaken
<1>5. AllApart'
  BY DEF Revoke, WorkerType, AllApart, Apart, At, Goto, Labels
<1>6. TakenNat'
  BY DEF Revoke, WorkerType, OrderType, TakenNat, Plans
<1> QED
  BY <1>1, <1>2, <1>3, <1>4, <1>5, <1>6

\* The provider is asked; its answer decides between the end and the rollback.
LEMMA GatewayRefundKeeps ==
    ASSUME IInv, NEW w \in Workers, GatewayRefund(w)
    PROVE  IInv'
<1> USE OrdersAssumption, NumbersAssumption
    DEF IInv, NoFault, Fault, Slip, OneMore, moneyVars
<1>1. WorkerType'
  BY GotoType, RollbackLabelType DEF GatewayRefund, Labels, Executing
<1>2. OrderType'
  BY ExceptBoolean DEF GatewayRefund, OrderType, WorkersOK, WorkerInv, At
<1>3. GoodsType'
  BY DEF GatewayRefund, GoodsType, goodsVars
<1>4. WorkersOK'
  BY DEF GatewayRefund, WorkerType, WorkersOK, WorkerInv, At, Goto, goodsVars, RollbackLabel,
         Labels, GoodsTaken
<1>5. AllApart'
  BY DEF GatewayRefund, WorkerType, AllApart, Apart, At, Goto, Labels
<1>6. TakenNat'
  BY DEF GatewayRefund, TakenNat, goodsVars
<1> QED
  BY <1>1, <1>2, <1>3, <1>4, <1>5, <1>6

\* The order is refunded and its worker done.
LEMMA MarkRefundOkKeeps ==
    ASSUME IInv, NEW w \in Workers, MarkRefundOk(w)
    PROVE  IInv'
<1> USE OrdersAssumption, NumbersAssumption
    DEF IInv, NoFault, Fault, Slip, OneMore, moneyVars
<1>1. WorkerType'
  BY ReturnType DEF MarkRefundOk
<1>2. OrderType'
  BY ExceptBoolean DEF MarkRefundOk, OrderType, WorkersOK, WorkerInv, At
<1>3. GoodsType'
  BY DEF MarkRefundOk, GoodsType, goodsVars
<1>4. WorkersOK'
  BY DEF MarkRefundOk, WorkerType, OrderType, WorkersOK, AllApart, Apart, WorkerInv, At, Return,
         goodsVars, SetStatus, NoPlan, Executing, GoodsTaken
<1>5. AllApart'
  BY DEF MarkRefundOk, WorkerType, AllApart, Apart, Return, Executing
<1>6. TakenNat'
  BY DEF MarkRefundOk, TakenNat, goodsVars
<1> QED
  BY <1>1, <1>2, <1>3, <1>4, <1>5, <1>6

\* The balance is given back, no more than was taken.
LEMMA RollbackKeeps ==
    ASSUME IInv, NEW w \in Workers, Rollback(w)
    PROVE  IInv'
<1> USE OrdersAssumption, NumbersAssumption
    DEF IInv, NoFault, Fault, Slip, OneMore, moneyVars
<1>1. WorkerType'
  BY GotoType DEF Rollback, Labels, Executing
<1>2. OrderType'
  BY ExceptBoolean DEF Rollback, OrderType
<1>3. GoodsType'
  BY DEF Rollback, WorkerType, GoodsType, Plans
<1>4. WorkersOK'
  BY DEF Rollback, WorkerType, OrderType, WorkersOK, AllApart, Apart, WorkerInv, At, Goto,
         Labels, GoodsTaken
<1>5. AllApart'
  BY DEF Rollback, WorkerType, AllApart, Apart, At, Goto, Labels
<1>6. TakenNat'
  BY DEF Rollback, WorkerType, OrderType, WorkersOK, WorkerInv, TakenNat, At, Plans, GoodsTaken
<1> QED
  BY <1>1, <1>2, <1>3, <1>4, <1>5, <1>6

\* The expiry is read again to give back what was taken from it.
LEMMA RollbackReadKeeps ==
    ASSUME IInv, NEW w \in Workers, RollbackRead(w)
    PROVE  IInv'
<1> USE OrdersAssumption, NumbersAssumption
    DEF IInv, NoFault, Fault, Slip, OneMore, moneyVars
<1>1. WorkerType'
  <2>1. ASSUME NEW e \in Int, plan' = [plan EXCEPT ![w].target = e],
               pc' = [pc EXCEPT ![w] = "rollbackWrite"], UNCHANGED ord
        PROVE  WorkerType'
    <3>1. plan' \in [Workers -> Plans]
      BY <2>1, PlanTargetType DEF WorkerType
    <3> QED
      BY <2>1, <3>1 DEF WorkerType, Labels, Executing
  <2>2. CASE Goto(w, "rollbackAudit")
    BY <2>2, GotoType DEF Labels, Executing
  <2>3. (IF expiry > now THEN expiry ELSE now) + plan[w].take \in Int
    BY DEF WorkerType, GoodsType, Plans
  <2> QED
    BY <2>1, <2>2, <2>3 DEF RollbackRead
<1>2. OrderType'
  BY ExceptBoolean DEF RollbackRead, OrderType, WorkersOK, WorkerInv, At
<1>3. GoodsType'
  BY DEF RollbackRead, GoodsType, goodsVars
<1>4. WorkersOK'
  BY DEF RollbackRead, WorkerType, WorkersOK, WorkerInv, At, Goto, goodsVars, Plans, Labels,
         GoodsTaken, Statuses, Refundable, Balance
<1>5. AllApart'
  BY DEF RollbackRead, WorkerType, AllApart, Apart, At, Goto, Labels
<1>6. TakenNat'
  BY DEF RollbackRead, TakenNat, goodsVars
<1> QED
  BY <1>1, <1>2, <1>3, <1>4, <1>5, <1>6

\* The computed expiry is written back.
LEMMA RollbackWriteKeeps ==
    ASSUME IInv, NEW w \in Workers, RollbackWrite(w)
    PROVE  IInv'
<1> USE OrdersAssumption, NumbersAssumption
    DEF IInv, NoFault, Fault, Slip, OneMore, moneyVars
<1>1. WorkerType'
  BY GotoType DEF RollbackWrite, Labels, Executing
<1>2. OrderType'
  BY ExceptBoolean DEF RollbackWrite, OrderType
<1>3. GoodsType'
  BY DEF RollbackWrite, WorkerType, GoodsType, Plans
<1>4. WorkersOK'
  BY DEF RollbackWrite, WorkerType, OrderType, WorkersOK, AllApart, Apart, WorkerInv, At, Goto,
         Labels, GoodsTaken
<1>5. AllApart'
  BY DEF RollbackWrite, WorkerType, AllApart, Apart, At, Goto, Labels
<1>6. TakenNat'
  BY DEF RollbackWrite, WorkerType, OrderType, WorkersOK, WorkerInv, TakenNat, At, Plans,
         GoodsTaken
<1> QED
  BY <1>1, <1>2, <1>3, <1>4, <1>5, <1>6

\* A rollback that failed is put into the audit log.
LEMMA RollbackAuditKeeps ==
    ASSUME IInv, NEW w \in Workers, RollbackAudit(w)
    PROVE  IInv'
<1> USE OrdersAssumption, NumbersAssumption
    DEF IInv, NoFault, Fault, Slip, OneMore, moneyVars
<1>1. WorkerType'
  BY GotoType DEF RollbackAudit, Labels, Executing
<1>2. OrderType'
  BY ExceptBoolean DEF RollbackAudit, OrderType, WorkersOK, WorkerInv, At
<1>3. GoodsType'
  BY DEF RollbackAudit, GoodsType, goodsVars
<1>4. WorkersOK'
  BY DEF RollbackAudit, WorkerType, WorkersOK, WorkerInv, At, Goto, goodsVars, Labels,
         GoodsTaken
<1>5. AllApart'
  BY DEF RollbackAudit, WorkerType, AllApart, Apart, At, Goto, Labels
<1>6. TakenNat'
  BY DEF RollbackAudit, TakenNat, goodsVars
<1> QED
  BY <1>1, <1>2, <1>3, <1>4, <1>5, <1>6

\* The order is marked as failed, and nobody executes it any more.
LEMMA MarkRefundFailedKeeps ==
    ASSUME IInv, NEW w \in Workers, MarkRefundFailed(w)
    PROVE  IInv'
<1> USE OrdersAssumption, NumbersAssumption
    DEF IInv, NoFault, Fault, Slip, OneMore, moneyVars
<1>1. WorkerType'
  BY ReturnType DEF MarkRefundFailed
<1>2. OrderType'
  BY ExceptBoolean DEF MarkRefundFailed, OrderType, WorkersOK, WorkerInv, At
<1>3. GoodsType'
  BY DEF MarkRefundFailed, GoodsType, goodsVars
<1>4. WorkersOK'
  BY DEF MarkRefundFailed, WorkerType, OrderType, WorkersOK, AllApart, Apart, WorkerInv, At,
         Return, goodsVars, SetStatus, NoPlan, Executing, GoodsTaken
<1>5. AllApart'
  BY DEF MarkRefundFailed, WorkerType, AllApart, Apart, Return, Executing
<1>6. TakenNat'
  BY DEF MarkRefundFailed, TakenNat, goodsVars
<1> QED
  BY <1>1, <1>2, <1>3, <1>4, <1>5, <1>6

\* The order gets the status back that it had.
LEMMA RestoreStatusKeeps ==
    ASSUME IInv, NEW w \in Workers, RestoreStatus(w)
    PROVE  IInv'
<1> USE OrdersAssumption, NumbersAssumption
    DEF IInv, NoFault, Fault, Slip, OneMore, moneyVars
<1>1. WorkerType'
  BY ReturnType DEF RestoreStatus
<1>2. OrderType'
  BY ExceptBoolean DEF RestoreStatus, OrderType, WorkersOK, WorkerInv, At
<1>3. GoodsType'
  BY DEF RestoreStatus, GoodsType, goodsVars
<1>4. WorkersOK'
  BY DEF RestoreStatus, WorkerType, OrderType, WorkersOK, AllApart, Apart, WorkerInv, At,
         Return, goodsVars, SetStatus, NoPlan, Executing, GoodsTaken
<1>5. AllApart'
  BY DEF RestoreStatus, WorkerType, AllApart, Apart, Return, Executing
<1>6. TakenNat'
  BY DEF RestoreStatus, TakenNat, goodsVars
<1> QED
  BY <1>1, <1>2, <1>3, <1>4, <1>5, <1>6

\* The process dies and the row stays in REFUNDING.
LEMMA CrashKeeps ==
    ASSUME IInv, NEW w \in Workers, Crash(w)
    PROVE  IInv'
<1> USE OrdersAssumption, NumbersAssumption
    DEF IInv, NoFault, Fault, Slip, OneMore, moneyVars
<1>1. WorkerType'
  BY ReturnType DEF Crash
<1>2. OrderType'
  BY ExceptBoolean DEF Crash, OrderType, WorkersOK, WorkerInv
<1>3. GoodsType'
  BY DEF Crash, GoodsType, goodsVars
<1>4. WorkersOK'
  BY DEF Crash, WorkerType, WorkersOK, WorkerInv, Return, goodsVars, NoPlan, Executing,
         GoodsTaken
<1>5. AllApart'
  BY DEF Crash, WorkerType, AllApart, Apart, Return, Executing
<1>6. TakenNat'
  BY DEF Crash, TakenNat, goodsVars
<1> QED
  BY <1>1, <1>2, <1>3, <1>4, <1>5, <1>6

\* A user's request begins.
LEMMA RequestRefundKeeps ==
    ASSUME IInv, NEW w \in Workers, NEW o \in Orders, RequestRefund(w, o)
    PROVE  IInv'
<1> USE OrdersAssumption, NumbersAssumption
    DEF IInv, NoFault, Fault, Slip, OneMore, moneyVars
<1>1. WorkerType'
  BY DEF RequestRefund, WorkerType, Labels
<1>2. OrderType'
  BY ExceptBoolean DEF OrderType
<1>3. GoodsType'
  BY DEF RequestRefund, GoodsType, goodsVars
<1>4. WorkersOK'
  BY DEF RequestRefund, WorkerType, WorkersOK, TakenNat, WorkerInv, At, goodsVars, Executing
<1>5. AllApart'
  BY DEF RequestRefund, WorkerType, WorkersOK, WorkerInv, AllApart, Apart
<1>6. TakenNat'
  BY DEF RequestRefund, TakenNat, goodsVars
<1> QED
  BY <1>1, <1>2, <1>3, <1>4, <1>5, <1>6

\* An administrator's request begins, with a plan that takes nothing yet.
LEMMA PrepareRefundKeeps ==
    ASSUME IInv, NEW w \in Workers, NEW o \in Orders, NEW amount \in 1..Goods,
           NEW deduct \in BOOLEAN, PrepareRefund(w, o, amount, deduct)
    PROVE  IInv'
<1> USE OrdersAssumption, NumbersAssumption
    DEF IInv, NoFault, Fault, Slip, OneMore, moneyVars
<1>1. WorkerType'
  BY NewPlanType DEF PrepareRefund, WorkerType, Labels
<1>2. OrderType'
  BY ExceptBoolean DEF OrderType
<1>3. GoodsType'
  BY DEF PrepareRefund, GoodsType, goodsVars
<1>4. WorkersOK'
  BY DEF PrepareRefund, WorkerType, WorkersOK, TakenNat, WorkerInv, goodsVars, NoPlan, Executing
<1>5. AllApart'
  BY DEF PrepareRefund, WorkerType, AllApart, Apart, Executing
<1>6. TakenNat'
  BY DEF PrepareRefund, TakenNat, goodsVars
<1> QED
  BY <1>1, <1>2, <1>3, <1>4, <1>5, <1>6

\* The user spends from the balance.
LEMMA SpendKeeps ==
    ASSUME IInv, Spend
    PROVE  IInv'
<1> USE OrdersAssumption, NumbersAssumption
    DEF IInv, NoFault, Fault, Slip, OneMore, moneyVars
<1>1. WorkerType'
  BY DEF Spend, WorkerType, workerVars
<1>2. OrderType'
  BY DEF Spend, OrderType
<1>3. GoodsType'
  BY DEF Spend, GoodsType
<1>4. WorkersOK'
  BY DEF Spend, WorkersOK, WorkerInv, workerVars
<1>5. AllApart'
  BY DEF Spend, AllApart, Apart, workerVars
<1>6. TakenNat'
  BY DEF Spend, TakenNat
<1> QED
  BY <1>1, <1>2, <1>3, <1>4, <1>5, <1>6

\* The provider pays what it accepted.
LEMMA ProviderPaysKeeps ==
    ASSUME IInv, NEW o \in Orders, ProviderPays(o)
    PROVE  IInv'
<1> USE OrdersAssumption, NumbersAssumption
    DEF IInv, NoFault, Fault, Slip, OneMore, moneyVars
<1>1. WorkerType'
  BY DEF ProviderPays, WorkerType, workerVars
<1>2. OrderType'
  BY DEF ProviderPays, OrderType, goodsVars
<1>3. GoodsType'
  BY DEF ProviderPays, GoodsType, goodsVars
<1>4. WorkersOK'
  BY DEF ProviderPays, WorkersOK, WorkerInv, goodsVars, workerVars
<1>5. AllApart'
  BY DEF ProviderPays, AllApart, Apart, workerVars
<1>6. TakenNat'
  BY DEF ProviderPays, TakenNat, goodsVars
<1> QED
  BY <1>1, <1>2, <1>3, <1>4, <1>5, <1>6

\* Time passes.
LEMMA DayPassesKeeps ==
    ASSUME IInv, DayPasses
    PROVE  IInv'
<1> USE OrdersAssumption, NumbersAssumption
    DEF IInv, NoFault, Fault, Slip, OneMore, moneyVars
<1>1. WorkerType'
  BY DEF DayPasses, WorkerType, workerVars
<1>2. OrderType'
  BY DEF DayPasses, OrderType, goodsVars
<1>3. GoodsType'
  BY DEF DayPasses, GoodsType, goodsVars
<1>4. WorkersOK'
  BY DEF DayPasses, WorkersOK, WorkerInv, goodsVars, workerVars
<1>5. AllApart'
  BY DEF DayPasses, AllApart, Apart, workerVars
<1>6. TakenNat'
  BY DEF DayPasses, TakenNat, goodsVars
<1> QED
  BY <1>1, <1>2, <1>3, <1>4, <1>5, <1>6

\* No step changes the invariant.
LEMMA NextKeeps == IInv /\ [Next]_vars => IInv'
<1> SUFFICES ASSUME IInv, [Next]_vars PROVE IInv'
  OBVIOUS
<1>1. ASSUME NEW w \in Workers, Step(w) PROVE IInv'
  BY <1>1, RequestUpdateKeeps, PrepDeductKeeps, LockRefundKeeps, AuditCheckKeeps, DeductKeeps,
     SubReadKeeps, SubWriteKeeps, RevokeKeeps, GatewayRefundKeeps, MarkRefundOkKeeps,
     RollbackKeeps, RollbackReadKeeps, RollbackWriteKeeps, RollbackAuditKeeps,
     MarkRefundFailedKeeps, RestoreStatusKeeps
  DEF Step
<1>2. ASSUME NEW w \in Workers, NEW o \in Orders, Call(w, o) PROVE IInv'
  BY <1>2, RequestRefundKeeps, PrepareRefundKeeps DEF Call
<1>3. CASE UNCHANGED vars
  BY <1>3
  DEF vars, goodsVars, workerVars, moneyVars, IInv, WorkerType, OrderType, GoodsType,
      WorkersOK, WorkerInv, AllApart, Apart, TakenNat
<1> QED
  BY <1>1, <1>2, <1>3, CrashKeeps, ProviderPaysKeeps, SpendKeeps, DayPassesKeeps DEF Next

\* The inductive invariant, of which the rest follows.
THEOREM Invariance == Spec => []IInv
BY InitIInv, NextKeeps, PTL DEF Spec

\* The status REFUNDING admits one worker at a time: no two execute one order's refund.
LEMMA LockExcludes == IInv => RefundExclusive
BY DEF IInv, WorkersOK, WorkerInv, AllApart, Apart, RefundExclusive

\* Where a row says that it was refunded no worker executes, so nobody writes to it.
THEOREM RefundedStays == Spec => RefundFinal
<1>1. ASSUME IInv, [Next]_vars, NEW o \in Orders, status[o] \in Refunded
      PROVE  status'[o] = status[o]
  <2> USE DEF IInv, WorkersOK, WorkerInv, OrderType, Refunded, SetStatus, At
  <2>1. ASSUME NEW w \in Workers, Step(w) PROVE status'[o] = status[o]
    <3>1. CASE RequestUpdate(w)
      BY <1>1, <3>1 DEF RequestUpdate
    <3>2. CASE LockRefund(w)
      BY <1>1, <3>2 DEF LockRefund, Refundable
    <3>3. CASE MarkRefundOk(w) \/ MarkRefundFailed(w) \/ RestoreStatus(w)
      BY <1>1, <3>3 DEF MarkRefundOk, MarkRefundFailed, RestoreStatus, Executing
    <3>4. CASE UNCHANGED status
      BY <3>4
    <3> QED
      BY <2>1, <3>1, <3>2, <3>3
      DEF Step, PrepDeduct, AuditCheck, Deduct, SubRead, SubWrite, Revoke, GatewayRefund,
          Rollback, RollbackRead, RollbackWrite, RollbackAudit
  <2>2. CASE UNCHANGED status
    BY <2>2
  <2> QED
    BY <1>1, <2>1
    DEF Next, Call, RequestRefund, PrepareRefund, Crash, ProviderPays, Spend, DayPasses, vars
<1>2. IInv /\ [Next]_vars
        => [\A o \in Orders : status[o] \in Refunded => status'[o] = status[o]]_vars
  BY <1>1
<1> QED
  BY <1>2, Invariance, PTL DEF Spec, RefundFinal

-----------------------------------------------------------------------------
(* An order is paid back once, unless an answer of the provider is lost *)

\* The provider pays nothing it did not accept.
PaidLater == \A o \in Orders : paidBack[o] =< accepted[o]

\* PaidLater is kept: accepting only adds to what it may pay, and it pays within that.
LEMMA NextPaidLater == IInv /\ PaidLater /\ [Next]_vars => PaidLater'
<1> SUFFICES ASSUME IInv, PaidLater, [Next]_vars PROVE PaidLater'
  OBVIOUS
<1> USE DEF IInv, OrderType, PaidLater, moneyVars
<1>1. ASSUME NEW w \in Workers, Step(w) PROVE PaidLater'
  <2>1. CASE GatewayRefund(w)
    BY <2>1, NumbersAssumption
    DEF GatewayRefund, At, WorkersOK, WorkerInv, WorkerType, Plans
  <2>2. CASE ~GatewayRefund(w)
    BY <1>1, <2>2
    DEF Step, RequestUpdate, PrepDeduct, LockRefund, AuditCheck, Deduct, SubRead, SubWrite,
        Revoke, MarkRefundOk, Rollback, RollbackRead, RollbackWrite, RollbackAudit,
        MarkRefundFailed, RestoreStatus
  <2> QED
    BY <2>1, <2>2
<1>2. ASSUME NEW o \in Orders, ProviderPays(o) PROVE PaidLater'
  <2>1. PICK n \in 1..(accepted[o] - paidBack[o]) : paidBack' = [paidBack EXCEPT ![o] = @ + n]
    BY <1>2 DEF ProviderPays
  <2>2. UNCHANGED accepted
    BY <1>2 DEF ProviderPays
  <2> QED
    BY <2>1, <2>2
<1>3. CASE UNCHANGED moneyVars
  BY <1>3
<1> QED
  BY <1>1, <1>2, <1>3
  DEF Next, Call, RequestRefund, PrepareRefund, Crash, Spend, DayPasses, vars

\* Before the provider accepts, and after it has refused, no refund of the order is
\* accepted; of one that may be refunded again none is either.
Unpaid(w) == pc[w] \in Executing \ {"refundOk"} => accepted[ord[w]] = 0

PaidInv ==
    /\ \A w \in Workers : Unpaid(w)
    /\ \A o \in Orders :
        /\ accepted[o] =< Goods
        /\ status[o] \in Refundable => accepted[o] = 0

\* At first no refund is accepted.
LEMMA InitPaid == Init => PaidInv /\ PaidLater
BY NumbersAssumption DEF Init, PaidInv, PaidLater, Unpaid, Executing

\* The provider accepts once when its answer always arrives.
LEMMA GatewayPaid ==
    ASSUME IInv, PaidInv, "lost" \notin Faults, NEW w \in Workers, GatewayRefund(w)
    PROVE  PaidInv'
<1> USE NumbersAssumption DEF IInv
<1>1. \A v \in Workers : Unpaid(v)'
  BY DEF GatewayRefund, Fault, OneMore, At, Goto, PaidInv, Unpaid, WorkerType, OrderType, WorkersOK,
         WorkerInv, AllApart, Apart, Executing
<1>2. ASSUME NEW o \in Orders
      PROVE  accepted'[o] =< Goods /\ (status'[o] \in Refundable => accepted'[o] = 0)
  BY DEF GatewayRefund, At, PaidInv, Unpaid, WorkerType, OrderType, WorkersOK, WorkerInv,
         Executing, Plans, Refundable
<1> QED
  BY <1>1, <1>2 DEF PaidInv

\* Every other step leaves what was accepted alone.
LEMMA OthersPaid ==
    ASSUME IInv, PaidInv, NEW w \in Workers, Step(w), UNCHANGED accepted
    PROVE  PaidInv'
<1> USE DEF IInv
<1>1. CASE RequestUpdate(w) \/ PrepDeduct(w)
  BY <1>1
  DEF RequestUpdate, PrepDeduct, Goto, Return, SetStatus, PaidInv, Unpaid, WorkerType,
      OrderType, Executing, Refundable
<1>2. CASE LockRefund(w)
  BY <1>2
  DEF LockRefund, At, Goto, Return, SetStatus, PaidInv, Unpaid, WorkerType, OrderType,
      WorkersOK, WorkerInv, Executing
<1>3. CASE AuditCheck(w) \/ Deduct(w) \/ SubRead(w) \/ SubWrite(w) \/ Revoke(w)
  BY <1>3
  DEF AuditCheck, Deduct, SubRead, SubWrite, Revoke, At, Goto, PaidInv, Unpaid, WorkerType,
      Executing
<1>4. CASE GatewayRefund(w)
  BY <1>4 DEF GatewayRefund, At, Goto, PaidInv, Unpaid, WorkerType, Executing
<1>5. CASE Rollback(w) \/ RollbackRead(w) \/ RollbackWrite(w) \/ RollbackAudit(w)
  BY <1>5
  DEF Rollback, RollbackRead, RollbackWrite, RollbackAudit, At, Goto, PaidInv, Unpaid,
      WorkerType, Executing
<1>6. CASE MarkRefundOk(w)
  BY <1>6
  DEF MarkRefundOk, At, Return, SetStatus, RefundedStatus, PaidInv, Unpaid, OrderType,
      Executing, Refundable
<1>7. CASE MarkRefundFailed(w) \/ RestoreStatus(w)
  BY <1>7
  DEF MarkRefundFailed, RestoreStatus, At, Return, SetStatus, PaidInv, Unpaid, WorkerType,
      OrderType, Executing
<1> QED
  BY <1>1, <1>2, <1>3, <1>4, <1>5, <1>6, <1>7 DEF Step

\* PaidInv is kept by every step when no answer is lost.
LEMMA NextPaid == "lost" \notin Faults /\ IInv /\ PaidInv /\ [Next]_vars => PaidInv'
<1> SUFFICES ASSUME "lost" \notin Faults, IInv, PaidInv, [Next]_vars PROVE PaidInv'
  OBVIOUS
<1>1. ASSUME NEW w \in Workers, Step(w) PROVE PaidInv'
  <2>1. GatewayRefund(w) \/ UNCHANGED accepted
    BY <1>1
    DEF Step, RequestUpdate, PrepDeduct, LockRefund, AuditCheck, Deduct, SubRead, SubWrite,
        Revoke, MarkRefundOk, Rollback, RollbackRead, RollbackWrite, RollbackAudit,
        MarkRefundFailed, RestoreStatus, moneyVars
  <2> QED
    BY <1>1, <2>1, GatewayPaid, OthersPaid
<1>2. ASSUME NEW w \in Workers, NEW o \in Orders, Call(w, o) PROVE PaidInv'
  BY <1>2
  DEF Call, RequestRefund, PrepareRefund, At, IInv, WorkerType, PaidInv, Unpaid, Executing,
      moneyVars
<1>3. ASSUME NEW w \in Workers, Crash(w) PROVE PaidInv'
  BY <1>3 DEF Crash, Return, IInv, WorkerType, PaidInv, Unpaid, Executing, moneyVars
<1>4. CASE UNCHANGED <<status, accepted, pc, ord>>
  BY <1>4 DEF PaidInv, Unpaid
<1> QED
  BY <1>1, <1>2, <1>3, <1>4
  DEF Next, ProviderPays, Spend, DayPasses, vars, workerVars, moneyVars

\* No two administrators refund an order at once, and the provider is made to accept no second
\* refund of one, nor more than it cost, unless an answer of it is lost and the refund is
\* asked for again.
THEOREM PaidOnce ==
    "lost" \notin Faults => (Spec => []Inv)
<1> SUFFICES ASSUME "lost" \notin Faults PROVE Spec => []Inv
  OBVIOUS
<1>1. IInv /\ PaidInv /\ PaidLater => Inv
  <2>1. IInv /\ PaidInv /\ PaidLater => PaidBackOnce
    BY DEF IInv, OrderType, Statuses, PaidInv, PaidLater, PaidBackOnce
  <2> QED
    BY <2>1, IInvTypeOK, LockExcludes DEF Inv
<1>2. IInv /\ PaidInv /\ [Next]_vars => PaidInv'
  BY NextPaid
<1> QED
  BY <1>1, <1>2, InitPaid, NextPaidLater, Invariance, PTL DEF Spec

-----------------------------------------------------------------------------
(* Whatever fails, every payment after the first one needs a failure *)

\* What the provider may have been made to accept for an order in vain, for all failures.
Wasted == Goods * faults

\* Of an order that may be refunded once more, refunds were accepted by failures only.
Repayable(w) == pc[w] \in Executing \ {"refundOk"} => accepted[ord[w]] =< Wasted

RepaidInv ==
    /\ \A w \in Workers : Repayable(w)
    /\ \A o \in Orders :
        /\ accepted[o] =< Wasted + Goods
        /\ status[o] \in Refundable => accepted[o] =< Wasted

\* A failure adds the price of one order, another step nothing.
LEMMA WastedGrows ==
    ASSUME IInv, [Next]_vars
    PROVE  /\ Wasted \in Int /\ Wasted' \in Int /\ Wasted' >= Wasted
           /\ faults' = faults + 1 => Wasted' = Wasted + Goods
<1>1. faults \in Nat
  BY DEF IInv, GoodsType
<1>2. faults' = faults \/ faults' = faults + 1
  <2>1. ASSUME NEW w \in Workers, Step(w) PROVE faults' = faults \/ faults' = faults + 1
    BY <2>1
    DEF Step, RequestUpdate, PrepDeduct, LockRefund, AuditCheck, Deduct, SubRead, SubWrite,
        Revoke, GatewayRefund, MarkRefundOk, Rollback, RollbackRead, RollbackWrite,
        RollbackAudit, MarkRefundFailed, RestoreStatus, NoFault, Fault, Slip, OneMore
  <2> QED
    BY <2>1
    DEF Next, Call, RequestRefund, PrepareRefund, Crash, ProviderPays, Spend, DayPasses, vars,
        NoFault, Fault, OneMore
<1>3. Goods * (faults + 1) = Goods * faults + Goods
  BY <1>1, NumbersAssumption
<1> QED
  BY <1>1, <1>2, <1>3, NumbersAssumption DEF Wasted

\* At first no refund is accepted.
LEMMA InitRepaid == Init => RepaidInv
BY NumbersAssumption DEF Init, RepaidInv, Repayable, Executing, Wasted

\* The provider accepts: its answer arrives and the refund is over, or a failure is counted.
LEMMA GatewayRepaid ==
    ASSUME IInv, RepaidInv, NEW w \in Workers, GatewayRefund(w)
    PROVE  RepaidInv'
<1> USE NumbersAssumption DEF IInv
<1>1. [Next]_vars
  BY DEF Next, Step
<1>2. /\ Wasted \in Int /\ Wasted' \in Int /\ Wasted' >= Wasted
      /\ faults' = faults + 1 => Wasted' = Wasted + Goods
  BY <1>1, WastedGrows
<1>3. plan[w].amount \in 1..Goods /\ ord[w] \in Orders /\ status[ord[w]] = "REFUNDING"
      /\ accepted[ord[w]] =< Wasted
  BY DEF GatewayRefund, At, WorkerType, WorkersOK, WorkerInv, RepaidInv, Repayable, Executing,
         Plans
<1>4. \A v \in Workers : Repayable(v)'
  BY <1>2, <1>3
  DEF GatewayRefund, Fault, OneMore, At, Goto, RepaidInv, Repayable, WorkerType, OrderType,
      WorkersOK, WorkerInv, AllApart, Apart, Executing
<1>5. ASSUME NEW o \in Orders
      PROVE  /\ accepted'[o] =< Wasted' + Goods
             /\ status'[o] \in Refundable => accepted'[o] =< Wasted'
  BY <1>2, <1>3 DEF GatewayRefund, RepaidInv, OrderType, Refundable
<1> QED
  BY <1>4, <1>5 DEF RepaidInv

\* Every other step of a worker leaves what was accepted alone.
LEMMA OthersRepaid ==
    ASSUME IInv, RepaidInv, NEW w \in Workers, Step(w), UNCHANGED accepted
    PROVE  RepaidInv'
<1> USE DEF IInv
<1>1. [Next]_vars
  BY DEF Next
<1>2. Wasted \in Int /\ Wasted' \in Int /\ Wasted' >= Wasted
  BY <1>1, WastedGrows
<1>3. \A o \in Orders : accepted'[o] =< Wasted' + Goods
  BY <1>2, NumbersAssumption DEF RepaidInv, OrderType
<1>4. \A v \in Workers : v # w => Repayable(v)'
  <2>1. \A v \in Workers : v # w => pc'[v] = pc[v] /\ ord'[v] = ord[v]
    BY DEF Step, RequestUpdate, PrepDeduct, LockRefund, AuditCheck, Deduct, SubRead, SubWrite,
           Revoke, GatewayRefund, MarkRefundOk, Rollback, RollbackRead, RollbackWrite,
           RollbackAudit, MarkRefundFailed, RestoreStatus, Goto, Return, WorkerType
  <2>2. ASSUME NEW v \in Workers, v # w, pc[v] \in Executing PROVE ord[v] \in Orders
    BY <2>2 DEF WorkersOK, WorkerInv, Executing
  <2> QED
    BY <1>2, <2>1, <2>2 DEF RepaidInv, Repayable, OrderType
<1>5. Repayable(w)'
  <2>1. pc'[w] \in Executing \ {"refundOk"} =>
          ord'[w] \in Orders /\ ord'[w] = ord[w] /\ accepted[ord[w]] =< Wasted
    BY DEF Step, RequestUpdate, PrepDeduct, LockRefund, AuditCheck, Deduct, SubRead, SubWrite,
           Revoke, GatewayRefund, MarkRefundOk, Rollback, RollbackRead, RollbackWrite,
           RollbackAudit, MarkRefundFailed, RestoreStatus, At, Goto, Return, WorkerType,
           WorkersOK, WorkerInv, RepaidInv, Repayable, Executing
  <2> QED
    BY <1>2, <2>1 DEF Repayable, OrderType
<1>6. ASSUME NEW o \in Orders, status'[o] \in Refundable PROVE accepted'[o] =< Wasted'
  <2>1. accepted[o] =< Wasted
    <3>1. CASE status'[o] = status[o]
      BY <1>6, <3>1 DEF RepaidInv
    <3>2. CASE status'[o] # status[o]
      BY <1>6, <3>2
      DEF Step, RequestUpdate, PrepDeduct, LockRefund, AuditCheck, Deduct, SubRead, SubWrite,
          Revoke, GatewayRefund, MarkRefundOk, Rollback, RollbackRead, RollbackWrite,
          RollbackAudit, MarkRefundFailed, RestoreStatus, SetStatus, RefundedStatus, At,
          WorkersOK, WorkerInv, RepaidInv, Repayable, OrderType, Refundable, Executing
    <3> QED
      BY <3>1, <3>2
  <2> QED
    BY <1>2, <2>1 DEF OrderType
<1> QED
  BY <1>3, <1>4, <1>5, <1>6 DEF RepaidInv

\* RepaidInv is kept by every step.
LEMMA NextRepaid == IInv /\ RepaidInv /\ [Next]_vars => RepaidInv'
<1> SUFFICES ASSUME IInv, RepaidInv, [Next]_vars PROVE RepaidInv'
  OBVIOUS
<1>1. ASSUME NEW w \in Workers, Step(w) PROVE RepaidInv'
  <2>1. GatewayRefund(w) \/ UNCHANGED accepted
    BY <1>1
    DEF Step, RequestUpdate, PrepDeduct, LockRefund, AuditCheck, Deduct, SubRead, SubWrite,
        Revoke, MarkRefundOk, Rollback, RollbackRead, RollbackWrite, RollbackAudit,
        MarkRefundFailed, RestoreStatus, moneyVars
  <2> QED
    BY <1>1, <2>1, GatewayRepaid, OthersRepaid
<1>2. CASE UNCHANGED <<accepted, status>>
           /\ \A w \in Workers : pc'[w] \in Executing => pc'[w] = pc[w] /\ ord'[w] = ord[w]
  <2>1. Wasted \in Int /\ Wasted' \in Int /\ Wasted' >= Wasted
    BY WastedGrows
  <2>2. \A w \in Workers : pc[w] \in Executing => ord[w] \in Orders
    BY DEF IInv, WorkersOK, WorkerInv, Executing
  <2>3. \A w \in Workers : Repayable(w)'
    BY <1>2, <2>1, <2>2 DEF RepaidInv, Repayable, IInv, OrderType
  <2> QED
    BY <1>2, <2>1, <2>3, NumbersAssumption DEF RepaidInv, IInv, OrderType
<1>3. ASSUME NEW w \in Workers, NEW o \in Orders, Call(w, o) PROVE RepaidInv'
  BY <1>2, <1>3
  DEF Call, RequestRefund, PrepareRefund, At, IInv, WorkerType, Executing, moneyVars
<1>4. ASSUME NEW w \in Workers, Crash(w) PROVE RepaidInv'
  BY <1>2, <1>4 DEF Crash, Return, IInv, WorkerType, Executing, moneyVars
<1>5. CASE UNCHANGED <<accepted, status, workerVars>>
  BY <1>2, <1>5 DEF workerVars
<1> QED
  BY <1>1, <1>3, <1>4, <1>5 DEF Next, ProviderPays, Spend, DayPasses, vars, moneyVars

\* Whatever fails, the provider is not made to accept, and does not pay, the price of an order
\* more often than once and once for each failure.
THEOREM RepaymentsAreBounded == Spec => []RepaymentsNeedFailures
<1>1. IInv /\ RepaidInv /\ PaidLater => RepaymentsNeedFailures
  <2> SUFFICES ASSUME IInv, RepaidInv, PaidLater, NEW o \in Orders
               PROVE  accepted[o] =< Goods * (faults + 1)
    BY DEF RepaymentsNeedFailures, PaidLater
  <2>1. Goods * (faults + 1) = Goods * faults + Goods
    BY NumbersAssumption DEF IInv, GoodsType
  <2> QED
    BY <2>1 DEF RepaidInv, Wasted
<1> QED
  BY <1>1, InitPaid, InitRepaid, NextRepaid, NextPaidLater, Invariance, PTL DEF Spec

-----------------------------------------------------------------------------
(* A balance order's goods are taken once, and once more for each failure   *)
(* that leaves no trace of what was taken                                    *)

\* What such failures may have taken for each order.
slack == [o \in Orders |-> Goods * slips[o]]

\* A slip adds the goods of its order.
LEMMA SlackGrows ==
    ASSUME IInv, NEW o \in Orders
    PROVE  /\ slack \in [Orders -> Nat]
           /\ UNCHANGED slips => slack' = slack
           /\ slips' = [slips EXCEPT ![o] = @ + 1] => slack' = [slack EXCEPT ![o] = @ + Goods]
<1> USE NumbersAssumption DEF IInv, OrderType, slack
<1>1. slack \in [Orders -> Nat]
  <2>1. \A p \in Orders : Goods * slips[p] \in Nat
    OBVIOUS
  <2> QED
    BY <2>1
<1>2. ASSUME slips' = [slips EXCEPT ![o] = @ + 1]
      PROVE  slack' = [slack EXCEPT ![o] = @ + Goods]
  <2>1. Goods * (slips[o] + 1) = Goods * slips[o] + Goods
    OBVIOUS
  <2>2. \A p \in Orders : slips'[p] = IF p = o THEN slips[o] + 1 ELSE slips[p]
    BY <1>2
  <2> QED
    BY <2>1, <2>2
<1> QED
  BY <1>1, <1>2

\* What is gone from the user the audit log knows of, or it is due to slips.
Covered(o) ==
    /\ taken[o] =< slack[o] + Goods
    /\ ~rollbackFailed[o] => taken[o] =< slack[o]

SubStatements == {"subRead", "subWrite", "revoke", "rollbackRead", "rollbackWrite"}

\* What was taken for a balance order at each statement of ExecuteRefund: between the
\* deduction and its rollback what the plan says, before and after it only what an earlier
\* attempt could not give back.
TakenAt(w) ==
    /\ pc[w] = "auditCheck" => plan[w].take > 0
    /\ pc[w] \in SubStatements => plan[w].kind = "subscription"
    /\ pc[w] \in Executing /\ Balance(ord[w]) =>
        /\ pc[w] \in {"auditCheck", "refundFailed", "restore"} => Covered(ord[w])
        /\ pc[w] = "deduct" => taken[ord[w]] =< slack[ord[w]]
        /\ pc[w] \in {"gateway", "rollback", "rollbackAudit"} =>
              IF plan[w].take > 0 THEN taken[ord[w]] =< slack[ord[w]] + plan[w].take
              ELSE Covered(ord[w])

\* No more is gone than the order gave, and while it may be refunded that is recorded.
OrdersTaken ==
    \A o \in Orders : Balance(o) =>
        /\ taken[o] =< slack[o] + Goods
        /\ status[o] \in Refundable => Covered(o)

TakenInv == OrdersTaken /\ \A w \in Workers : TakenAt(w)

\* At first nothing is taken.
LEMMA InitTaken == Init => TakenInv
<1> SUFFICES ASSUME Init PROVE TakenInv
  OBVIOUS
<1>1. slack = [o \in Orders |-> 0]
  BY NumbersAssumption DEF Init, slack
<1> QED
  BY <1>1, NumbersAssumption
  DEF Init, TakenInv, TakenAt, OrdersTaken, Covered, SubStatements, Executing

\* Each statement keeps TakenInv.
LEMMA StepTaken ==
    ASSUME IInv, TakenInv, NEW w \in Workers, Step(w)
    PROVE  TakenInv'
<1> USE NumbersAssumption
    DEF IInv, TakenInv, TakenAt, OrdersTaken, Covered, WorkerType, OrderType, WorkersOK,
        WorkerInv, AllApart, Apart, NoFault, Fault, Slip, OneMore
<1>0. /\ ord[w] \in Orders
      /\ slack \in [Orders -> Nat]
      /\ UNCHANGED slips => slack' = slack
      /\ slips' = [slips EXCEPT ![ord[w]] = @ + 1]
            => slack' = [slack EXCEPT ![ord[w]] = @ + Goods]
  <2>1. ord[w] \in Orders
    BY DEF Step, RequestUpdate, PrepDeduct, LockRefund, AuditCheck, Deduct, SubRead, SubWrite,
           Revoke, GatewayRefund, MarkRefundOk, Rollback, RollbackRead, RollbackWrite,
           RollbackAudit, MarkRefundFailed, RestoreStatus, At
  <2> QED
    BY <2>1, SlackGrows
<1>1. CASE RequestUpdate(w)
  <2>1. \A v \in Workers : TakenAt(v)'
    BY <1>0, <1>1 DEF RequestUpdate, Return, goodsVars, SubStatements
  <2>2. OrdersTaken'
    BY <1>0, <1>1 DEF RequestUpdate, goodsVars, SetStatus, Refundable
  <2> QED
    BY <2>1, <2>2
<1>2. CASE PrepDeduct(w)
  <2>1. \A v \in Workers : TakenAt(v)'
    BY <1>0, <1>2 DEF PrepDeduct, Goto, Return, goodsVars, SubStatements
  <2>2. OrdersTaken'
    BY <1>0, <1>2 DEF PrepDeduct, goodsVars
  <2> QED
    BY <2>1, <2>2
<1>3. CASE LockRefund(w)
  <2>1. \A v \in Workers : TakenAt(v)'
    BY <1>0, <1>3 DEF LockRefund, At, Goto, Return, goodsVars, SubStatements
  <2>2. OrdersTaken'
    BY <1>0, <1>3 DEF LockRefund, goodsVars, SetStatus
  <2> QED
    BY <2>1, <2>2
<1>4. CASE AuditCheck(w)
  <2>1. \A v \in Workers : TakenAt(v)'
    <3>1. ASSUME NEW v \in Workers, v # w PROVE TakenAt(v)'
      BY <1>0, <1>4, <3>1 DEF AuditCheck, At, Goto, goodsVars, Executing
    <3>2. /\ plan[w].kind # "none"
          /\ Balance(ord[w]) => Covered(ord[w])
      BY <1>0, <1>4 DEF AuditCheck, At, Executing
    <3>3. TakenAt(w)'
      BY <1>0, <1>4, <3>2 DEF AuditCheck, Goto, goodsVars, Plans, SubStatements
    <3> QED
      BY <3>1, <3>3
  <2>2. OrdersTaken'
    BY <1>0, <1>4 DEF AuditCheck, goodsVars
  <2> QED
    BY <2>1, <2>2
<1>5. CASE Deduct(w)
  <2>1. \A v \in Workers : TakenAt(v)'
    <3>1. ASSUME NEW v \in Workers, v # w PROVE TakenAt(v)'
      BY <1>0, <1>5, <3>1 DEF Deduct, At, Goto, Executing
    <3>2. TakenAt(w)'
      BY <1>0, <1>5 DEF Deduct, At, Goto, Plans, Executing, SubStatements
    <3> QED
      BY <3>1, <3>2
  <2>2. OrdersTaken'
    BY <1>0, <1>5 DEF Deduct, At, Plans, Executing, Refundable
  <2> QED
    BY <2>1, <2>2
<1>6. CASE SubRead(w)
  <2>1. \A v \in Workers : TakenAt(v)'
    BY <1>0, <1>6 DEF SubRead, At, Goto, goodsVars, Plans, SubStatements
  <2>2. OrdersTaken'
    BY <1>0, <1>6 DEF SubRead, goodsVars
  <2> QED
    BY <2>1, <2>2
<1>7. CASE SubWrite(w)
  <2>1. \A v \in Workers : TakenAt(v)'
    BY <1>0, <1>7 DEF SubWrite, At, Goto, SubStatements
  <2>2. OrdersTaken'
    BY <1>0, <1>7 DEF SubWrite, At, SubStatements
  <2> QED
    BY <2>1, <2>2
<1>8. CASE Revoke(w)
  <2>1. \A v \in Workers : TakenAt(v)'
    BY <1>0, <1>8 DEF Revoke, At, Goto, SubStatements
  <2>2. OrdersTaken'
    BY <1>0, <1>8 DEF Revoke, At, SubStatements
  <2> QED
    BY <2>1, <2>2
<1>9. CASE GatewayRefund(w)
  <2>1. \A v \in Workers : TakenAt(v)'
    BY <1>0, <1>9
    DEF GatewayRefund, At, Goto, goodsVars, RollbackLabel, Plans, Executing, SubStatements
  <2>2. OrdersTaken'
    BY <1>0, <1>9 DEF GatewayRefund, goodsVars
  <2> QED
    BY <2>1, <2>2
<1>10. CASE MarkRefundOk(w)
  <2>1. \A v \in Workers : TakenAt(v)'
    BY <1>0, <1>10 DEF MarkRefundOk, Return, goodsVars, SubStatements
  <2>2. OrdersTaken'
    BY <1>0, <1>10 DEF MarkRefundOk, goodsVars, SetStatus, RefundedStatus, Refundable
  <2> QED
    BY <2>1, <2>2
<1>11. CASE Rollback(w)
  <2>1. \A v \in Workers : TakenAt(v)'
    BY <1>0, <1>11 DEF Rollback, At, Goto, Plans, Executing, SubStatements
  <2>2. OrdersTaken'
    BY <1>0, <1>11 DEF Rollback, Plans
  <2> QED
    BY <2>1, <2>2
<1>12. CASE RollbackRead(w)
  <2>1. \A v \in Workers : TakenAt(v)'
    BY <1>0, <1>12 DEF RollbackRead, At, Goto, goodsVars, Plans, SubStatements
  <2>2. OrdersTaken'
    BY <1>0, <1>12 DEF RollbackRead, goodsVars
  <2> QED
    BY <2>1, <2>2
<1>13. CASE RollbackWrite(w)
  <2>1. \A v \in Workers : TakenAt(v)'
    BY <1>0, <1>13 DEF RollbackWrite, At, Goto, SubStatements
  <2>2. OrdersTaken'
    BY <1>0, <1>13 DEF RollbackWrite, Plans
  <2> QED
    BY <2>1, <2>2
<1>14. CASE RollbackAudit(w)
  <2>1. \A v \in Workers : TakenAt(v)'
    BY <1>0, <1>14
    DEF RollbackAudit, At, Goto, goodsVars, Plans, Executing, SubStatements
  <2>2. OrdersTaken'
    BY <1>0, <1>14 DEF RollbackAudit, goodsVars
  <2> QED
    BY <2>1, <2>2
<1>15. CASE MarkRefundFailed(w)
  <2>1. \A v \in Workers : TakenAt(v)'
    BY <1>0, <1>15 DEF MarkRefundFailed, Return, goodsVars, SubStatements
  <2>2. OrdersTaken'
    BY <1>0, <1>15 DEF MarkRefundFailed, At, goodsVars, SetStatus, Executing
  <2> QED
    BY <2>1, <2>2
<1>16. CASE RestoreStatus(w)
  <2>1. \A v \in Workers : TakenAt(v)'
    BY <1>0, <1>16 DEF RestoreStatus, Return, goodsVars, SubStatements
  <2>2. OrdersTaken'
    BY <1>0, <1>16 DEF RestoreStatus, At, goodsVars, SetStatus, Executing
  <2> QED
    BY <2>1, <2>2
<1> QED
  BY <1>1, <1>2, <1>3, <1>4, <1>5, <1>6, <1>7, <1>8, <1>9, <1>10, <1>11, <1>12, <1>13, <1>14,
     <1>15, <1>16
  DEF Step

\* TakenInv is kept by every step.
LEMMA NextTaken == IInv /\ TakenInv /\ [Next]_vars => TakenInv'
<1> SUFFICES ASSUME IInv, TakenInv, [Next]_vars PROVE TakenInv'
  OBVIOUS
<1> USE DEF TakenInv, TakenAt, OrdersTaken, Covered, Balance
<1>1. ASSUME NEW w \in Workers, NEW o \in Orders, Call(w, o) PROVE TakenInv'
  <2>1. pc'[w] \in {"request", "prepDeduct", "lock"}
    BY <1>1 DEF Call, RequestRefund, PrepareRefund, IInv, WorkerType
  <2>2. \A v \in Workers \ {w} : pc'[v] = pc[v] /\ ord'[v] = ord[v] /\ plan'[v] = plan[v]
    BY <1>1 DEF Call, RequestRefund, PrepareRefund, IInv, WorkerType
  <2>3. UNCHANGED <<status, taken, rollbackFailed>>
    BY <1>1 DEF Call, RequestRefund, PrepareRefund, goodsVars
  <2>4. UNCHANGED slack
    BY <1>1 DEF Call, RequestRefund, PrepareRefund, NoFault, slack
  <2> QED
    BY <2>1, <2>2, <2>3, <2>4 DEF SubStatements, Executing
<1>2. ASSUME NEW w \in Workers, Crash(w) PROVE TakenInv'
  <2>1. UNCHANGED slack
    BY <1>2 DEF Crash, Fault, slack
  <2> QED
    BY <1>2, <2>1 DEF Crash, Return, goodsVars, IInv, WorkerType, SubStatements, Executing
<1>3. CASE UNCHANGED <<status, taken, rollbackFailed, slips, workerVars>>
  <2>1. UNCHANGED slack
    BY <1>3 DEF slack
  <2> QED
    BY <1>3, <2>1 DEF workerVars
<1> QED
  BY <1>1, <1>2, <1>3, StepTaken
  DEF Next, ProviderPays, Spend, DayPasses, vars, goodsVars, NoFault

\* What TakenInv says of the goods, in the terms of the properties.
LEMMA TakenInvSuffices == IInv /\ TakenInv => LossIsKnown
<1> SUFFICES ASSUME IInv, TakenInv, NEW o \in Orders
             PROVE  /\ taken[o] >= 0
                    /\ Balance(o) => taken[o] =< Goods * (1 + slips[o])
                    /\ Balance(o) /\ taken[o] > 0 =>
                          \/ status[o] \in Refunded \cup {"REFUNDING"}
                          \/ rollbackFailed[o]
                          \/ slips[o] > 0
  BY DEF LossIsKnown, TakenOnce, TakenIsRecorded
<1> USE NumbersAssumption DEF IInv, OrderType
<1>1. slack[o] = Goods * slips[o] /\ Goods * (1 + slips[o]) = slack[o] + Goods
  BY DEF slack
<1>2. slips[o] = 0 => slack[o] = 0
  BY <1>1
<1>3. taken[o] >= 0
  BY DEF TakenNat
<1>4. Balance(o) => taken[o] =< Goods * (1 + slips[o])
  BY <1>1 DEF TakenInv, OrdersTaken
<1>5. ASSUME Balance(o), taken[o] > 0, status[o] \in Refundable, ~rollbackFailed[o]
      PROVE  slips[o] > 0
  BY <1>2, <1>5 DEF TakenInv, OrdersTaken, Covered
<1> QED
  BY <1>3, <1>4, <1>5 DEF Statuses

\* However statements fail, what the user has lost for a balance order is within what it
\* bought, and known of: the order was refunded, is being refunded, or the audit log tells the
\* next attempt, which will not take it again, but for the lost answers of deductions and the
\* failures of the audit log themselves, each of which costs the user one more deduction at
\* most.
THEOREM LossIsOnRecord == Spec => []LossIsKnown
BY NextTaken, TakenInvSuffices, InitTaken, Invariance, PTL DEF Spec

-----------------------------------------------------------------------------
(* PaymentRefund implements RefundLedger, while no answer is lost and the  *)
(* audit log works                                                         *)

\* No failure leaves what was taken unknown.
NoSlips == slips = [o \in Orders |-> 0]

\* NoSlips is kept when no failure of that kind happens.
LEMMA NextNoSlips ==
    Faults \cap {"goodsLost", "audit"} = {} /\ NoSlips /\ [Next]_vars => NoSlips'
<1> SUFFICES ASSUME Faults \cap {"goodsLost", "audit"} = {}, [Next]_vars
             PROVE  UNCHANGED slips
  BY DEF NoSlips
<1>1. ASSUME NEW w \in Workers, Step(w) PROVE UNCHANGED slips
  BY <1>1
  DEF Step, RequestUpdate, PrepDeduct, LockRefund, AuditCheck, Deduct, SubRead, SubWrite,
      Revoke, GatewayRefund, MarkRefundOk, Rollback, RollbackRead, RollbackWrite,
      RollbackAudit, MarkRefundFailed, RestoreStatus, NoFault, Fault, Slip, OneMore
<1> QED
  BY <1>1
  DEF Next, Call, RequestRefund, PrepareRefund, Crash, ProviderPays, Spend, DayPasses, vars,
      NoFault, Fault

\* Nothing is excused then.
LEMMA NoSlack == NoSlips => \A o \in Orders : slack[o] = 0
BY NumbersAssumption DEF NoSlips, slack

\* The worker about to report success has had the provider accept.
AcceptedFirst ==
    \A w \in Workers : pc[w] = "refundOk" => ord[w] \in NoTradeNo \/ accepted[ord[w]] > 0

\* What the ledger sees of an order's goods, and of its end.
Gone(o) == IF Balance(o) THEN taken[o] ELSE 0
IsClosed(o) == status[o] \in Refunded

\* The invariants the steps of the ledger follow from.
LedgerInv == IInv /\ PaidInv /\ PaidLater /\ TakenInv /\ NoSlips /\ AcceptedFirst

\* AcceptedFirst is kept: only the provider's answer leads to the report.
LEMMA NextAcceptedFirst == IInv /\ AcceptedFirst /\ [Next]_vars => AcceptedFirst'
<1> SUFFICES ASSUME IInv, AcceptedFirst, [Next]_vars PROVE AcceptedFirst'
  OBVIOUS
<1> USE DEF IInv, AcceptedFirst, WorkerType, moneyVars
<1>1. ASSUME NEW w \in Workers, Step(w) PROVE AcceptedFirst'
  <2>1. CASE GatewayRefund(w)
    BY <1>1, <2>1, NumbersAssumption
    DEF GatewayRefund, At, Goto, RollbackLabel, OrderType, WorkersOK, WorkerInv, Plans
  <2>2. CASE ~GatewayRefund(w)
    <3>1. UNCHANGED accepted /\ pc'[w] # "refundOk"
      BY <1>1, <2>2
      DEF Step, RequestUpdate, PrepDeduct, LockRefund, AuditCheck, Deduct, SubRead, SubWrite,
          Revoke, MarkRefundOk, Rollback, RollbackRead, RollbackWrite, RollbackAudit,
          MarkRefundFailed, RestoreStatus, Goto, Return
    <3>2. \A v \in Workers \ {w} : pc'[v] = pc[v] /\ ord'[v] = ord[v]
      BY <1>1, <2>2
      DEF Step, RequestUpdate, PrepDeduct, LockRefund, AuditCheck, Deduct, SubRead, SubWrite,
          Revoke, MarkRefundOk, Rollback, RollbackRead, RollbackWrite, RollbackAudit,
          MarkRefundFailed, RestoreStatus, Goto, Return
    <3> QED
      BY <3>1, <3>2
  <2> QED
    BY <2>1, <2>2
<1>2. ASSUME NEW w \in Workers, NEW o \in Orders, Call(w, o) PROVE AcceptedFirst'
  BY <1>2 DEF Call, RequestRefund, PrepareRefund
<1>3. ASSUME NEW w \in Workers, Crash(w) PROVE AcceptedFirst'
  BY <1>3 DEF Crash, Return
<1>4. CASE UNCHANGED <<accepted, workerVars>>
  BY <1>4 DEF workerVars
<1> QED
  BY <1>1, <1>2, <1>3, <1>4 DEF Next, ProviderPays, Spend, DayPasses, vars

\* A step that leaves goods, payment and end of every order alone is a stutter.
LEMMA LedgerStutter ==
    ASSUME UNCHANGED moneyVars,
           \A o \in Orders : Gone(o)' = Gone(o) /\ (IsClosed(o)' <=> IsClosed(o))
    PROVE  UNCHANGED Ledger!vars
<1>1. [o \in Orders |-> IF Balance(o) THEN taken[o] ELSE 0]'
        = [o \in Orders |-> IF Balance(o) THEN taken[o] ELSE 0]
  BY DEF Gone, Balance
<1>2. {o \in Orders : status[o] \in Refunded}' = {o \in Orders : status[o] \in Refunded}
  BY DEF IsClosed, Refunded
<1> QED
  BY <1>1, <1>2 DEF Ledger!vars, moneyVars

\* The deduction takes the goods.
LEMMA DeductIsTake ==
    ASSUME LedgerInv, NEW w \in Workers, Deduct(w)
    PROVE  Ledger!Next \/ UNCHANGED Ledger!vars
<1> USE NumbersAssumption DEF LedgerInv, IInv, WorkerType, OrderType
<1>1. PICK o \in Orders : o = ord[w] /\ status[o] = "REFUNDING" /\ accepted[o] = 0
  BY DEF Deduct, At, WorkersOK, WorkerInv, PaidInv, Unpaid, Executing
<1>2. plan[w].take \in 0..Goods
  BY DEF Plans
<1>3. CASE taken' # taken /\ Balance(o)
  <2>1. taken' = [taken EXCEPT ![o] = taken[o] + plan[w].take]
    BY <1>1, <1>3 DEF Deduct
  <2>2. taken[o] = 0
    <3>1. taken[o] =< slack[o]
      BY <1>1, <1>3 DEF Deduct, At, TakenInv, TakenAt, Executing
    <3> QED
      BY <3>1, NoSlack DEF TakenNat
  <2>3. plan[w].take \in 1..Goods /\ taken' = [taken EXCEPT ![o] = plan[w].take]
    <3>1. taken[o] + plan[w].take = plan[w].take
      BY <1>2, <2>2
    <3>2. taken' = [taken EXCEPT ![o] = plan[w].take]
      BY <2>1, <3>1
    <3>3. plan[w].take # 0
      BY <1>3, <2>2, <3>2
    <3> QED
      BY <1>2, <3>2, <3>3
  <2>4. [p \in Orders |-> IF Balance(p) THEN taken[p] ELSE 0]'
          = [[p \in Orders |-> IF Balance(p) THEN taken[p] ELSE 0] EXCEPT ![o] = plan[w].take]
    BY <1>3, <2>3 DEF Balance
  <2>5. UNCHANGED <<accepted, paidBack, status>>
    BY DEF Deduct, moneyVars
  <2>6. {p \in Orders : status[p] \in Refunded}' = {p \in Orders : status[p] \in Refunded}
    BY <2>5 DEF Refunded
  <2>7. Ledger!Take(o)
    BY <1>1, <1>3, <2>2, <2>3, <2>4, <2>5, <2>6 DEF Ledger!Take, Ledger!Open, Refunded
  <2> QED
    BY <2>7 DEF Ledger!Next
<1>4. CASE taken' = taken \/ ~Balance(o)
  BY <1>1, <1>4, LedgerStutter DEF Deduct, Gone, IsClosed, Balance, Refunded
<1> QED
  BY <1>3, <1>4

\* The rollback gives back just what was taken.
LEMMA RollbackIsGiveBack ==
    ASSUME LedgerInv, NEW w \in Workers, Rollback(w)
    PROVE  Ledger!Next \/ UNCHANGED Ledger!vars
<1> USE NumbersAssumption DEF LedgerInv, IInv, WorkerType, OrderType
<1>1. PICK o \in Orders : o = ord[w] /\ status[o] = "REFUNDING" /\ accepted[o] = 0
  BY DEF Rollback, At, WorkersOK, WorkerInv, PaidInv, Unpaid, Executing
<1>2. plan[w].take \in 0..Goods
  BY DEF Plans
<1>3. CASE taken' # taken /\ Balance(o)
  <2>1. taken' = [taken EXCEPT ![o] = taken[o] - plan[w].take]
    BY <1>1, <1>3 DEF Rollback
  <2>2. plan[w].take > 0
    BY <1>2, <1>3, <2>1
  <2>3. taken[o] = plan[w].take
    <3>1. taken[o] =< slack[o] + plan[w].take
      BY <1>1, <1>3, <2>2 DEF Rollback, At, TakenInv, TakenAt, Executing
    <3>2. taken[o] >= plan[w].take
      BY <1>1 DEF Rollback, At, WorkersOK, WorkerInv, GoodsTaken
    <3> QED
      BY <1>2, <3>1, <3>2, NoSlack
  <2>4. taken' = [taken EXCEPT ![o] = 0]
    <3>1. taken[o] - plan[w].take = 0
      BY <1>2, <2>3
    <3> QED
      BY <2>1, <3>1
  <2>5. [p \in Orders |-> IF Balance(p) THEN taken[p] ELSE 0]'
          = [[p \in Orders |-> IF Balance(p) THEN taken[p] ELSE 0] EXCEPT ![o] = 0]
    BY <1>3, <2>4 DEF Balance
  <2>6. UNCHANGED <<accepted, paidBack, status>>
    BY DEF Rollback, moneyVars
  <2>7. {p \in Orders : status[p] \in Refunded}' = {p \in Orders : status[p] \in Refunded}
    BY <2>6 DEF Refunded
  <2>8. Ledger!GiveBack(o)
    BY <1>1, <2>5, <2>6, <2>7 DEF Ledger!GiveBack, Ledger!Open, Refunded
  <2> QED
    BY <2>8 DEF Ledger!Next
<1>4. CASE taken' = taken \/ ~Balance(o)
  BY <1>1, <1>4, LedgerStutter DEF Rollback, Gone, IsClosed, Balance, Refunded
<1> QED
  BY <1>3, <1>4

\* The provider accepts the refund.
LEMMA GatewayRefundIsAccept ==
    ASSUME LedgerInv, NEW w \in Workers, GatewayRefund(w)
    PROVE  Ledger!Next \/ UNCHANGED Ledger!vars
<1> USE NumbersAssumption DEF LedgerInv, IInv, WorkerType, OrderType
<1>1. PICK o \in Orders : o = ord[w] /\ status[o] = "REFUNDING" /\ accepted[o] = 0
  BY DEF GatewayRefund, At, WorkersOK, WorkerInv, PaidInv, Unpaid, Executing
<1>2. UNCHANGED <<taken, status, paidBack>>
  BY DEF GatewayRefund, goodsVars
<1>3. CASE o \notin NoTradeNo /\ accepted' = [accepted EXCEPT ![o] = accepted[o] + plan[w].amount]
  <2>1. plan[w].amount \in 1..Goods
    BY DEF Plans
  <2>2. accepted' = [accepted EXCEPT ![o] = plan[w].amount]
    <3>1. accepted[o] + plan[w].amount = plan[w].amount
      BY <1>1, <2>1
    <3> QED
      BY <1>3, <3>1
  <2>3. [p \in Orders |-> IF Balance(p) THEN taken[p] ELSE 0]'
          = [p \in Orders |-> IF Balance(p) THEN taken[p] ELSE 0]
    BY <1>2 DEF Balance
  <2>4. {p \in Orders : status[p] \in Refunded}' = {p \in Orders : status[p] \in Refunded}
    BY <1>2 DEF Refunded
  <2>5. Ledger!Accept(o)
    <3>1. Ledger!Open(o) /\ o \notin NoTradeNo
      BY <1>1, <1>3 DEF Ledger!Open, Refunded
    <3>2. \E n \in 1..Goods : accepted' = [accepted EXCEPT ![o] = n]
      BY <2>1, <2>2
    <3> QED
      BY <1>2, <2>3, <2>4, <3>1, <3>2 DEF Ledger!Accept
  <2> QED
    BY <2>5 DEF Ledger!Next
<1>4. CASE UNCHANGED accepted
  BY <1>2, <1>4, LedgerStutter DEF moneyVars, Gone, IsClosed, Balance, Refunded
<1> QED
  BY <1>1, <1>3, <1>4 DEF GatewayRefund

\* What the provider pays is a payment of the ledger.
LEMMA ProviderPaysIsPay ==
    ASSUME NEW o \in Orders, ProviderPays(o)
    PROVE  Ledger!Next
<1>1. UNCHANGED <<taken, status, accepted>>
  BY DEF ProviderPays, goodsVars
<1>2. [p \in Orders |-> IF Balance(p) THEN taken[p] ELSE 0]'
        = [p \in Orders |-> IF Balance(p) THEN taken[p] ELSE 0]
  BY <1>1 DEF Balance
<1>3. {p \in Orders : status[p] \in Refunded}' = {p \in Orders : status[p] \in Refunded}
  BY <1>1 DEF Refunded
<1>4. Ledger!Pay(o)
  BY <1>1, <1>2, <1>3 DEF ProviderPays, Ledger!Pay
<1> QED
  BY <1>4 DEF Ledger!Next

\* The order is reported refunded after that.
LEMMA MarkRefundOkIsClose ==
    ASSUME LedgerInv, NEW w \in Workers, MarkRefundOk(w)
    PROVE  Ledger!Next \/ UNCHANGED Ledger!vars
<1> USE DEF LedgerInv, IInv, WorkerType, OrderType
<1>1. PICK o \in Orders : o = ord[w]
  BY DEF MarkRefundOk, At, WorkersOK, WorkerInv
<1>2. UNCHANGED <<taken, accepted, paidBack>>
  BY DEF MarkRefundOk, goodsVars, moneyVars
<1>3. [p \in Orders |-> IF Balance(p) THEN taken[p] ELSE 0]'
        = [p \in Orders |-> IF Balance(p) THEN taken[p] ELSE 0]
  BY <1>2 DEF Balance
<1>4. CASE status' = [status EXCEPT ![o] = RefundedStatus(w)]
  <2>1. RefundedStatus(w) \in Refunded
    BY DEF RefundedStatus, Refunded
  <2>2. {p \in Orders : status[p] \in Refunded}'
          = {p \in Orders : status[p] \in Refunded} \cup {o}
    <3>1. \A p \in Orders : status'[p] \in Refunded <=> (p = o \/ status[p] \in Refunded)
      BY <1>4, <2>1
    <3> QED
      BY <3>1 DEF Refunded
  <2>3. accepted[o] > 0 \/ o \in NoTradeNo
    BY <1>1 DEF MarkRefundOk, At, AcceptedFirst
  <2>4. Ledger!Close(o)
    BY <1>2, <1>3, <2>2, <2>3 DEF Ledger!Close
  <2> QED
    BY <2>4 DEF Ledger!Next
<1>5. CASE UNCHANGED status
  BY <1>2, <1>5, LedgerStutter DEF moneyVars, Gone, IsClosed, Balance, Refunded
<1> QED
  BY <1>1, <1>4, <1>5 DEF MarkRefundOk, SetStatus

\* The statements on the status of an order that is not refunded, and those on the
\* subscription, are stutters, and so is everything the ledger does not see.
LEMMA OthersStutter ==
    ASSUME LedgerInv, NEW w \in Workers, Step(w),
           ~Deduct(w), ~Rollback(w), ~GatewayRefund(w), ~MarkRefundOk(w)
    PROVE  UNCHANGED Ledger!vars
<1> USE DEF LedgerInv, IInv, WorkerType, OrderType
<1>1. UNCHANGED moneyVars
  BY DEF Step, RequestUpdate, PrepDeduct, LockRefund, AuditCheck, SubRead, SubWrite, Revoke,
         RollbackRead, RollbackWrite, RollbackAudit, MarkRefundFailed, RestoreStatus
<1>2. \A o \in Orders : Gone(o)' = Gone(o)
  <2>1. CASE SubWrite(w) \/ Revoke(w) \/ RollbackWrite(w)
    <3>1. ~Balance(ord[w])
      BY <2>1
      DEF SubWrite, Revoke, RollbackWrite, At, WorkersOK, WorkerInv, TakenInv, TakenAt,
          SubStatements
    <3>2. taken' = taken \/ \E n : taken' = [taken EXCEPT ![ord[w]] = n]
      BY <2>1 DEF SubWrite, Revoke, RollbackWrite
    <3> QED
      BY <3>1, <3>2 DEF Gone, Balance
  <2>2. CASE UNCHANGED taken
    BY <2>2 DEF Gone, Balance
  <2> QED
    BY <2>1, <2>2
    DEF Step, RequestUpdate, PrepDeduct, LockRefund, AuditCheck, SubRead, RollbackRead,
        RollbackAudit, MarkRefundFailed, RestoreStatus, goodsVars
<1>3. \A o \in Orders : IsClosed(o)' <=> IsClosed(o)
  <2> USE DEF IsClosed, Refunded, SetStatus, At
  <2>1. CASE RequestUpdate(w)
    BY <2>1 DEF RequestUpdate, WorkersOK, WorkerInv
  <2>2. CASE LockRefund(w)
    BY <2>2 DEF LockRefund, Refundable, WorkersOK, WorkerInv
  <2>3. CASE MarkRefundFailed(w) \/ RestoreStatus(w)
    BY <2>3 DEF MarkRefundFailed, RestoreStatus, WorkersOK, WorkerInv, Executing
  <2>4. CASE UNCHANGED status
    BY <2>4
  <2> QED
    BY <2>1, <2>2, <2>3, <2>4
    DEF Step, PrepDeduct, AuditCheck, SubRead, SubWrite, Revoke, RollbackRead, RollbackWrite,
        RollbackAudit
<1> QED
  BY <1>1, <1>2, <1>3, LedgerStutter

\* Every behaviour of the refund is one of the ledger, when the answers of the provider and of
\* the statements on the balance arrive and the audit log works.
THEOREM RefundLedgerImplemented ==
    Faults \cap {"lost", "goodsLost", "audit"} = {} => (Spec => ImplementsLedger)
<1> SUFFICES ASSUME Faults \cap {"lost", "goodsLost", "audit"} = {}
             PROVE  Spec => ImplementsLedger
  OBVIOUS
<1>1. Init => Ledger!Init
  <2> SUFFICES ASSUME Init PROVE Ledger!Init
    OBVIOUS
  <2>1. {o \in Orders : status[o] \in Refunded} = {}
    BY DEF Init, Refunded
  <2>2. [o \in Orders |-> IF Balance(o) THEN taken[o] ELSE 0] = [o \in Orders |-> 0]
    BY DEF Init
  <2> QED
    BY <2>1, <2>2 DEF Init, Ledger!Init
<1>2. Init => AcceptedFirst /\ NoSlips
  BY DEF Init, AcceptedFirst, NoSlips
<1>3. LedgerInv /\ [Next]_vars => [Ledger!Next]_(Ledger!vars)
  <2> SUFFICES ASSUME LedgerInv, [Next]_vars PROVE Ledger!Next \/ UNCHANGED Ledger!vars
    OBVIOUS
  <2>1. ASSUME NEW w \in Workers, Step(w) PROVE Ledger!Next \/ UNCHANGED Ledger!vars
    BY <2>1, DeductIsTake, RollbackIsGiveBack, GatewayRefundIsAccept, MarkRefundOkIsClose,
       OthersStutter
  <2>2. CASE UNCHANGED <<moneyVars, taken, status>>
    BY <2>2, LedgerStutter DEF Gone, IsClosed, Balance, Refunded
  <2> QED
    BY <2>1, <2>2, ProviderPaysIsPay
    DEF Next, Call, RequestRefund, PrepareRefund, Crash, Spend, DayPasses, vars, goodsVars
<1>4. LedgerInv /\ IInv' /\ [Next]_vars => LedgerInv'
  BY NextPaid, NextPaidLater, NextTaken, NextNoSlips, NextAcceptedFirst DEF LedgerInv
<1>5. Init => LedgerInv
  BY <1>2, InitIInv, InitPaid, InitTaken DEF LedgerInv
<1> QED
  BY <1>1, <1>3, <1>4, <1>5, Invariance, PTL
  DEF Spec, ImplementsLedger, Ledger!Spec
=============================================================================

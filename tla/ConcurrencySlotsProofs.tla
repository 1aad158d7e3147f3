------------------------ MODULE ConcurrencySlotsProofs ------------------------
(***************************************************************************)
(* Proofs about ConcurrencySlots, for any number of requests, processes    *)
(* and slots, any time to live, and with failures of Redis or without.     *)
(***************************************************************************)
EXTENDS ConcurrencySlots, FiniteSetTheorems, TLAPS

-----------------------------------------------------------------------------
(* The inductive invariant *)

\* Where a handler is in the queue.
InQueue == {"acquire", "leave", "abandon"}

\* TypeOK in the parts about Redis and about the handlers.
RedisType ==
    /\ slots \in [Ids -> Ages]
    /\ wait \in Nat /\ waitLeft \in 0..WaitTTL

HandlerType ==
    /\ process \in [Processes -> {"down", "sweep", "clear", "up"}]
    /\ pc \in [Requests -> Labels]
    /\ at \in [Requests -> Processes \cup {NoProcess}]
    /\ counted \in [Requests -> BOOLEAN]
    /\ holds \in [Requests -> Ids \cup {NoId}]
    /\ revoked \subseteq Requests
    /\ drift \in BOOLEAN

\* The scripts keep the number of members, leaked and expired ones included.
FewMembers == Cardinality(Members(slots)) =< MaxConcurrency

\* A holder that was not revoked has a member that has not even expired.
HoldersLive == \A r \in Holders \ revoked : ~Expired(slots[holds[r]])

\* No two handlers hold the same id.
HoldersApart == \A r, s \in Holders : r # s => holds[r] # holds[s]

SlotInv == FewMembers /\ HoldersLive /\ HoldersApart

\* The requests counted are those in the queue, the counter lives while it counts
\* somebody, and it is exact unless something went wrong.
QueueInv ==
    /\ \A r \in Requests : counted[r] <=> pc[r] \in InQueue
    /\ wait > 0 => waitLeft > 0
    /\ CountIsExact

IInv == RedisType /\ HandlerType /\ SlotInv /\ QueueInv

-----------------------------------------------------------------------------
(* The scripts *)

\* The sorted set is finite, as all ids are.
LEMMA FiniteMembers ==
    ASSUME NEW s
    PROVE  IsFiniteSet(Members(s)) /\ Cardinality(Members(s)) \in Nat
<1>1. IsFiniteSet(1..MaxIds)
  BY FS_Interval, SlotsAssumption
<1>2. IsFiniteSet(Ids)
  BY <1>1, FS_Product, SlotsAssumption DEF Ids
<1>3. IsFiniteSet(Members(s))
  BY <1>2, FS_Subset DEF Members
<1> QED
  BY <1>3, FS_CardinalityType

\* ZREMRANGEBYSCORE removes the expired members and leaves the others as they are.
LEMMA UnexpiredEffect ==
    ASSUME NEW s \in [Ids -> Ages]
    PROVE  /\ Unexpired(s) \in [Ids -> Ages]
           /\ Members(Unexpired(s)) \subseteq Members(s)
           /\ \A i \in Ids : ~Expired(s[i]) => Unexpired(s)[i] = s[i]
BY SlotsAssumption DEF Unexpired, Members, Expired, Gone, Ages

\* A script that only removes members keeps their number small.
LEMMA FewerMembers ==
    ASSUME FewMembers, Members(slots') \subseteq Members(slots)
    PROVE  FewMembers'
<1>1. Cardinality(Members(slots')) =< Cardinality(Members(slots))
  BY FiniteMembers, FS_Subset
<1> QED
  BY <1>1, FiniteMembers, SlotsAssumption DEF FewMembers

\* acquireScript gives out an id that is nobody's, as the youngest member, within the limit.
LEMMA TakeSlotEffect ==
    ASSUME RedisType, NEW p, TakeSlot(p)
    PROVE  /\ FreshId(p) \in Ids
           /\ \A r \in Requests : holds[r] # FreshId(p)
           /\ slots' \in [Ids -> Ages]
           /\ ~Expired(slots'[FreshId(p)])
           /\ \A i \in Ids \ {FreshId(p)} : ~Expired(slots[i]) => slots'[i] = slots[i]
           /\ FewMembers'
<1> DEFINE i == FreshId(p)
           s == Unexpired(slots)
<1>1. i \in FreshIds(p)
  BY DEF TakeSlot, FreshId
<1>2. i \in Ids /\ i \notin Members(slots) /\ \A r \in Requests : holds[r] # i
  BY <1>1 DEF FreshIds
<1>3. /\ s \in [Ids -> Ages] /\ Members(s) \subseteq Members(slots)
      /\ \A j \in Ids : ~Expired(slots[j]) => s[j] = slots[j]
  BY UnexpiredEffect DEF RedisType
<1>4. slots' = [s EXCEPT ![i] = 0]
  BY DEF TakeSlot
<1> HIDE DEF i, s
<1>5. slots' \in [Ids -> Ages] /\ slots'[i] = 0 /\ \A j \in Ids \ {i} : slots'[j] = s[j]
  BY <1>2, <1>3, <1>4, SlotsAssumption DEF Ages, Gone
<1>6. ~Expired(slots'[i])
  BY <1>5, SlotsAssumption DEF Expired
<1>7. Members(slots') = Members(s) \cup {i}
  BY <1>2, <1>5, SlotsAssumption DEF Members, Gone
<1>8. Cardinality(Members(slots')) =< Cardinality(Members(s)) + 1
  BY <1>7, FiniteMembers, FS_AddElement
<1>9. Cardinality(Members(s)) < MaxConcurrency
  BY DEF TakeSlot, HasRoom, s
<1>10. FewMembers'
  BY <1>8, <1>9, FiniteMembers, SlotsAssumption DEF FewMembers
<1> QED
  BY <1>2, <1>3, <1>5, <1>6, <1>10 DEF i

-----------------------------------------------------------------------------
(* The holders *)

\* A step that keeps the slots that have not expired, and does not add to the members, keeps
\* what the holders have; one may give up its id.
LEMMA SlotsKept ==
    ASSUME SlotInv, HandlerType, Members(slots') \subseteq Members(slots),
           \A r \in Holders \ revoked : slots'[holds[r]] = slots[holds[r]],
           UNCHANGED <<holds, revoked>>
    PROVE  SlotInv'
<1>1. FewMembers'
  BY FewerMembers DEF SlotInv
<1>2. HoldersLive' /\ HoldersApart'
  BY DEF SlotInv, HoldersLive, HoldersApart, Holders, Expired
<1> QED
  BY <1>1, <1>2 DEF SlotInv

\* Cleaning up keeps what the holders have.
LEMMA CleaningKeeps ==
    ASSUME RedisType, HandlerType, SlotInv, slots' \in {slots, Unexpired(slots)},
           UNCHANGED <<holds, revoked>>
    PROVE  slots' \in [Ids -> Ages] /\ SlotInv'
<1>1. slots' \in [Ids -> Ages] /\ Members(slots') \subseteq Members(slots)
  BY UnexpiredEffect DEF RedisType
<1>2. \A r \in Holders \ revoked : slots'[holds[r]] = slots[holds[r]]
  BY UnexpiredEffect DEF RedisType, HandlerType, SlotInv, HoldersLive, Holders
<1> QED
  BY <1>1, <1>2, SlotsKept

\* A slot may be taken with nobody to give it back.
LEMMA LeakKeeps ==
    ASSUME RedisType, HandlerType, SlotInv, NEW p, TakeSlot(p), UNCHANGED <<holds, revoked>>
    PROVE  slots' \in [Ids -> Ages] /\ SlotInv'
<1>1. HoldersLive'
  BY TakeSlotEffect DEF HandlerType, SlotInv, HoldersLive, Holders, Expired
<1>2. HoldersApart'
  BY DEF SlotInv, HoldersApart, Holders
<1> QED
  BY <1>1, <1>2, TakeSlotEffect DEF SlotInv

\* A handler that gets a slot is alone with it.
LEMMA AcquiredKeeps ==
    ASSUME RedisType, HandlerType, SlotInv, NEW r \in Requests, NEW l \in Labels, Acquired(r, l),
           UNCHANGED revoked
    PROVE  slots' \in [Ids -> Ages] /\ holds' \in [Requests -> Ids \cup {NoId}] /\ SlotInv'
<1> DEFINE i == FreshId(at[r])
<1>1. /\ i \in Ids /\ \A s \in Requests : holds[s] # i
      /\ slots' \in [Ids -> Ages] /\ FewMembers'
      /\ ~Expired(slots'[i])
      /\ \A j \in Ids \ {i} : ~Expired(slots[j]) => slots'[j] = slots[j]
  BY TakeSlotEffect DEF Acquired
<1>2. holds' = [holds EXCEPT ![r] = i]
  BY DEF Acquired
<1> HIDE DEF i
<1>3. HoldersLive'
  BY <1>1, <1>2 DEF HandlerType, SlotInv, HoldersLive, Holders
<1>4. HoldersApart'
  BY <1>1, <1>2 DEF HandlerType, SlotInv, HoldersApart, Holders
<1> QED
  BY <1>1, <1>2, <1>3, <1>4 DEF HandlerType, SlotInv

\* The release removes the slot of its own request only.
LEMMA GiveBackKeeps ==
    ASSUME RedisType, HandlerType, SlotInv, NEW r \in Requests, GiveBack(r)
    PROVE  slots' \in [Ids -> Ages] /\ SlotInv'
<1>1. slots' \in [Ids -> Ages]
  BY SlotsAssumption DEF GiveBack, RedisType, Ages, Gone
<1>2. FewMembers'
  <2>1. Members(slots') \subseteq Members(slots)
    BY DEF GiveBack, RedisType, Members
  <2> QED
    BY <2>1, FewerMembers DEF SlotInv
<1>3. HoldersLive'
  BY DEF GiveBack, RedisType, HandlerType, SlotInv, HoldersLive, HoldersApart, Holders
<1>4. HoldersApart'
  BY DEF GiveBack, HandlerType, SlotInv, HoldersApart, Holders
<1> QED
  BY <1>1, <1>2, <1>3, <1>4 DEF SlotInv

\* Whoever holds a slot when it expires is revoked.
LEMMA TickSlots ==
    ASSUME RedisType, HandlerType, SlotInv, Tick
    PROVE  slots' \in [Ids -> Ages] /\ SlotInv'
<1> USE SlotsAssumption
<1>1. slots' \in [Ids -> Ages]
  BY DEF Tick, RedisType, Ages, Gone
<1>2. Members(slots') \subseteq Members(slots)
  BY DEF Tick, RedisType, Members, Ages, Gone
<1>3. FewMembers'
  BY <1>2, FewerMembers DEF SlotInv
<1>4. HoldersLive'
  BY DEF Tick, requestVars, HoldersLive, Holders
<1>5. HoldersApart'
  BY DEF Tick, requestVars, SlotInv, HoldersApart, Holders
<1> QED
  BY <1>1, <1>3, <1>4, <1>5 DEF SlotInv

\* So is whoever holds a slot that a starting process sweeps.
LEMMA SweepSlots ==
    ASSUME RedisType, HandlerType, SlotInv, NEW p \in Processes, Sweep(p)
    PROVE  slots' \in [Ids -> Ages] /\ SlotInv'
<1> USE SlotsAssumption
<1>1. slots' \in [Ids -> Ages]
  BY DEF Sweep, RedisType, Ages, Gone
<1>2. Members(slots') \subseteq Members(slots)
  BY DEF Sweep, RedisType, Members, Ages, Gone
<1>3. FewMembers'
  BY <1>2, FewerMembers DEF SlotInv
<1>4. HoldersLive'
  BY DEF Sweep, requestVars, SlotInv, HandlerType, HoldersLive, Holders
<1>5. HoldersApart'
  BY DEF Sweep, requestVars, SlotInv, HoldersApart, Holders
<1> QED
  BY <1>1, <1>3, <1>4, <1>5 DEF SlotInv

\* The handlers of a process that dies hold nothing; the others keep what they have.
LEMMA CrashSlots ==
    ASSUME RedisType, HandlerType, SlotInv, NEW p \in Processes, Crash(p)
    PROVE  SlotInv'
<1>1. UNCHANGED slots
  BY DEF Crash, redisVars
<1>2. \A r \in Requests : r \in Holders' => r \in Holders /\ holds'[r] = holds[r] /\ at[r] # p
  BY DEF Crash, HandlerType, Holders
<1>3. revoked' = revoked \ {r \in Requests : at[r] = p}
  BY DEF Crash
<1>4. FewMembers'
  BY <1>1 DEF SlotInv, FewMembers
<1>5. HoldersLive' /\ HoldersApart'
  BY <1>1, <1>2, <1>3 DEF SlotInv, HoldersLive, HoldersApart, Holders
<1> QED
  BY <1>4, <1>5 DEF SlotInv

-----------------------------------------------------------------------------
(* The handlers *)

\* The updates of one handler keep the types.
LEMMA GotoType ==
    ASSUME pc \in [Requests -> Labels], NEW r \in Requests, NEW l \in Labels, Goto(r, l)
    PROVE  pc' \in [Requests -> Labels] /\ pc'[r] = l
           /\ \A s \in Requests \ {r} : pc'[s] = pc[s]
BY DEF Goto

\* A request begins.
LEMMA BeginType ==
    ASSUME HandlerType, NEW r \in Requests, NEW p \in Processes, Begin(r, p)
    PROVE  HandlerType'
BY DEF Begin, Goto, HandlerType, Labels

\* The script that takes a slot or finds none free.
LEMMA TryAcquireType ==
    ASSUME RedisType, HandlerType, NEW r \in Requests, TryAcquire(r)
    PROVE  HandlerType'
<1>1. holds' \in [Requests -> Ids \cup {NoId}]
  BY TakeSlotEffect DEF TryAcquire, Acquired, AcquireFails, HandlerType
<1>2. pc' \in [Requests -> Labels]
  BY DEF TryAcquire, Acquired, AcquireFails, HandlerType, Goto, Labels
<1> QED
  BY <1>1, <1>2 DEF TryAcquire, HandlerType

\* A slot is taken and its request served, or a slot comes too late for its request.
LEMMA AcquireType ==
    ASSUME RedisType, HandlerType, NEW r \in Requests, Acquire(r)
    PROVE  HandlerType'
<1>1. holds' \in [Requests -> Ids \cup {NoId}]
  BY TakeSlotEffect DEF Acquire, Acquired, AcquireFails, HandlerType
<1>2. pc' \in [Requests -> Labels]
  BY DEF Acquire, Acquired, AcquireFails, HandlerType, Goto, Labels
<1> QED
  BY <1>1, <1>2 DEF Acquire, HandlerType

\* A request joins the wait queue.
LEMMA EnqueueType ==
    ASSUME HandlerType, NEW r \in Requests, Enqueue(r)
    PROVE  HandlerType'
BY DEF Enqueue, Goto, HandlerType, Labels

\* A request leaves the wait queue.
LEMMA LeaveQueueType ==
    ASSUME HandlerType, NEW r \in Requests, LeaveQueue(r)
    PROVE  HandlerType'
BY DEF LeaveQueue, Goto, HandlerType, Labels

\* A slot is given back.
LEMMA GiveBackType ==
    ASSUME HandlerType, NEW r \in Requests, GiveBack(r)
    PROVE  HandlerType'
BY DEF GiveBack, HandlerType

\* A process dies with all its requests.
LEMMA CrashType ==
    ASSUME HandlerType, NEW p \in Processes, Crash(p)
    PROVE  HandlerType'
BY DEF Crash, HandlerType, Labels

\* Time passes.
LEMMA TickType ==
    ASSUME RedisType, HandlerType, Tick
    PROVE  HandlerType' /\ wait' \in Nat /\ waitLeft' \in 0..WaitTTL
<1>1. HandlerType'
  BY DEF Tick, requestVars, HandlerType, Holders
<1>2. wait' \in Nat /\ waitLeft' \in 0..WaitTTL
  BY SlotsAssumption DEF Tick, RedisType
<1> QED
  BY <1>1, <1>2

-----------------------------------------------------------------------------
(* The queue *)

\* The requests that are counted are finitely many.
LEMMA FiniteWaiting ==
    ASSUME HandlerType
    PROVE  /\ IsFiniteSet(Waiting) /\ Cardinality(Waiting) \in Nat
           /\ IsFiniteSet(Waiting') /\ Cardinality(Waiting)' \in Nat
<1>1. IsFiniteSet(Waiting) /\ IsFiniteSet(Waiting')
  BY FS_Subset, SlotsAssumption DEF Waiting
<1> QED
  BY <1>1, FS_CardinalityType

\* A step that touches neither the counter nor who is counted keeps it exact.
LEMMA QueueKept ==
    ASSUME QueueInv, UNCHANGED <<wait, waitLeft, counted, drift>>,
           \A r \in Requests : pc'[r] \in InQueue <=> pc[r] \in InQueue
    PROVE  QueueInv'
BY DEF QueueInv, CountIsExact, Waiting

\* Whoever joins the queue is counted, unless the script failed.
LEMMA EnqueueQueue ==
    ASSUME RedisType, HandlerType, QueueInv, NEW r \in Requests, Enqueue(r)
    PROVE  QueueInv'
<1>1. (\A s \in Requests : counted[s] <=> pc[s] \in InQueue)'
  BY DEF Enqueue, Goto, HandlerType, QueueInv, InQueue
<1>2. (wait > 0 => waitLeft > 0)'
  BY SlotsAssumption DEF Enqueue, CountWaiter, RefuseWaiter, QueueInv
<1>3. CountIsExact'
  <2>1. CASE CountWaiter /\ counted' = [counted EXCEPT ![r] = TRUE] /\ UNCHANGED drift
    <3>1. ~counted[r]
      BY DEF Enqueue, QueueInv, InQueue
    <3>2. Waiting' = Waiting \cup {r} /\ r \notin Waiting
      BY <2>1, <3>1 DEF HandlerType, Waiting
    <3>3. Cardinality(Waiting') = Cardinality(Waiting) + 1
      BY <3>2, FiniteWaiting, FS_AddElement
    <3> QED
      BY <2>1, <3>3 DEF QueueInv, CountIsExact, CountWaiter
  <2>2. CASE RefuseWaiter /\ UNCHANGED <<counted, drift>>
    BY <2>2 DEF RefuseWaiter, QueueInv, CountIsExact, Waiting
  <2>3. CASE drift'
    BY <2>3 DEF CountIsExact
  <2> QED
    BY <2>1, <2>2, <2>3 DEF Enqueue
<1> QED
  BY <1>1, <1>2, <1>3 DEF QueueInv

\* Whoever leaves the queue is uncounted, with its slot or without.
LEMMA LeaveQueueQueue ==
    ASSUME RedisType, HandlerType, QueueInv, NEW r \in Requests, LeaveQueue(r)
    PROVE  QueueInv'
<1>1. (\A s \in Requests : counted[s] <=> pc[s] \in InQueue)'
  BY DEF LeaveQueue, Goto, HandlerType, QueueInv, InQueue
<1>2. (wait > 0 => waitLeft > 0)'
  BY DEF LeaveQueue, UncountWaiter, QueueInv, RedisType
<1>3. CountIsExact'
  <2>1. CASE UncountWaiter /\ UNCHANGED drift
    <3>1. counted[r]
      BY DEF LeaveQueue, QueueInv, InQueue
    <3>2. Waiting' = Waiting \ {r} /\ r \in Waiting
      BY <3>1 DEF LeaveQueue, HandlerType, Waiting
    <3>3. Cardinality(Waiting') = Cardinality(Waiting) - 1
      BY <3>2, FiniteWaiting, FS_RemoveElement
    <3> QED
      BY <2>1, <3>3, FiniteWaiting DEF QueueInv, CountIsExact, UncountWaiter, RedisType
  <2>2. CASE drift'
    BY <2>2 DEF CountIsExact
  <2> QED
    BY <2>1, <2>2 DEF LeaveQueue
<1> QED
  BY <1>1, <1>2, <1>3 DEF QueueInv

\* The counter expires only when it has not counted anybody for long.
LEMMA TickQueue ==
    ASSUME RedisType, HandlerType, QueueInv, Tick
    PROVE  QueueInv'
<1>1. UNCHANGED <<counted, pc>>
  BY DEF Tick, requestVars
<1>2. (wait > 0 => waitLeft > 0)'
  BY DEF Tick, RedisType, QueueInv
<1>3. CASE drift \/ (waitLeft = 1 /\ wait > 0)
  <2>1. drift'
    BY <1>3 DEF Tick
  <2> QED
    BY <1>1, <1>2, <2>1 DEF QueueInv, CountIsExact
<1>4. CASE ~drift /\ ~(waitLeft = 1 /\ wait > 0)
  <2>1. wait = Cardinality(Waiting) /\ wait' = wait
    BY <1>4 DEF Tick, RedisType, QueueInv, CountIsExact
  <2> QED
    BY <1>1, <1>2, <2>1 DEF QueueInv, CountIsExact, Waiting
<1> QED
  BY <1>3, <1>4

\* A starting process that deletes a counter in use puts it out of step.
LEMMA ClearCounterQueue ==
    ASSUME RedisType, HandlerType, QueueInv, NEW p \in Processes, ClearCounter(p)
    PROVE  QueueInv'
<1>1. UNCHANGED <<counted, pc>>
  BY DEF ClearCounter, requestVars
<1>2. (wait > 0 => waitLeft > 0)'
  BY DEF ClearCounter, QueueInv
<1>3. CASE drift \/ wait > 0
  <2>1. drift' \/ UNCHANGED <<wait, drift>>
    BY <1>3 DEF ClearCounter
  <2> QED
    BY <1>1, <1>2, <2>1 DEF QueueInv, CountIsExact, Waiting
<1>4. CASE ~drift /\ ~(wait > 0)
  <2>1. wait = Cardinality(Waiting) /\ wait' = wait
    BY <1>4 DEF ClearCounter, RedisType, QueueInv, CountIsExact
  <2> QED
    BY <1>1, <1>2, <2>1 DEF QueueInv, CountIsExact, Waiting
<1> QED
  BY <1>3, <1>4

\* So does the death of a process with waiting requests.
LEMMA CrashQueue ==
    ASSUME RedisType, HandlerType, QueueInv, NEW p \in Processes, Crash(p)
    PROVE  QueueInv'
<1>1. (\A s \in Requests : counted[s] <=> pc[s] \in InQueue)'
  BY DEF Crash, HandlerType, QueueInv, InQueue
<1>2. (wait > 0 => waitLeft > 0)'
  BY DEF Crash, redisVars, QueueInv
<1>3. drift' \/ (UNCHANGED <<wait, drift>> /\ Waiting' = Waiting)
  BY DEF Crash, redisVars, HandlerType, Waiting
<1> QED
  BY <1>1, <1>2, <1>3 DEF QueueInv, CountIsExact

-----------------------------------------------------------------------------
(* The steps *)

\* At first nobody holds or waits for anything.
LEMMA InitIInv == Init => IInv
<1> SUFFICES ASSUME Init PROVE IInv
  OBVIOUS
<1> USE SlotsAssumption
<1>1. RedisType /\ HandlerType
  <2>1. Gone \in Ages /\ 0 \in 0..WaitTTL
    BY DEF Ages, Gone
  <2> QED
    BY <2>1 DEF Init, RedisType, HandlerType, Labels
<1>2. SlotInv
  <2>1. Members(slots) = {} /\ Holders = {}
    BY DEF Init, Members, Holders, Gone
  <2> QED
    BY <2>1, FS_EmptySet DEF SlotInv, FewMembers, HoldersLive, HoldersApart
<1>3. QueueInv
  <2>1. Waiting = {}
    BY DEF Init, Waiting
  <2> QED
    BY <2>1, FS_EmptySet DEF Init, QueueInv, InQueue, CountIsExact
<1> QED
  BY <1>1, <1>2, <1>3 DEF IInv

\* A step that leaves Redis and what the handlers hold alone keeps the slots.
LEMMA SlotsUntouched ==
    ASSUME SlotInv, UNCHANGED <<slots, holds, revoked>>
    PROVE  SlotInv'
BY DEF SlotInv, FewMembers, Members, HoldersLive, HoldersApart, Holders, Expired

\* A handler's attempt to take a slot, with or without an error.
LEMMA AttemptKeeps ==
    ASSUME IInv, NEW r \in Requests, TryAcquire(r) \/ Acquire(r)
    PROVE  IInv'
<1>1. HandlerType'
  BY TryAcquireType, AcquireType DEF IInv
<1>2. slots' \in [Ids -> Ages] /\ SlotInv'
  <2>1. PICK l \in Labels : \/ Acquired(r, l)
                            \/ RefuseSlot /\ UNCHANGED holds
                            \/ AcquireFails(r, l)
    BY DEF TryAcquire, Acquire, Labels
  <2>2. UNCHANGED revoked
    BY DEF TryAcquire, Acquire
  <2>3. CASE Acquired(r, l)
    BY <2>2, <2>3, AcquiredKeeps DEF IInv
  <2>4. CASE slots' \in {slots, Unexpired(slots)} /\ UNCHANGED holds
    BY <2>2, <2>4, CleaningKeeps DEF IInv
  <2>5. CASE TakeSlot(at[r]) /\ UNCHANGED holds
    BY <2>2, <2>5, LeakKeeps DEF IInv
  <2> QED
    BY <2>1, <2>3, <2>4, <2>5 DEF RefuseSlot, AcquireFails
<1>3. QueueInv'
  <2>1. UNCHANGED <<wait, waitLeft, counted, drift>>
    BY DEF TryAcquire, Acquire
  <2>2. \A s \in Requests : pc'[s] \in InQueue <=> pc[s] \in InQueue
    BY DEF TryAcquire, Acquire, Acquired, AcquireFails, Goto, IInv, HandlerType, InQueue
  <2> QED
    BY <2>1, <2>2, QueueKept DEF IInv
<1>4. UNCHANGED <<wait, waitLeft>>
  BY DEF TryAcquire, Acquire
<1> QED
  BY <1>1, <1>2, <1>3, <1>4 DEF IInv, RedisType

\* Handlers come, give up, are done with the upstream and return, and touch nothing shared.
LEMMA StrollKeeps ==
    ASSUME IInv, NEW r \in Requests,
           (\E p \in Processes : Begin(r, p)) \/ GiveUp(r) \/ Forwarded(r) \/ Return(r)
    PROVE  IInv'
<1>1. UNCHANGED <<redisVars, counted, holds, revoked, drift, process>>
  BY DEF Begin, GiveUp, Forwarded, Return
<1>2. HandlerType'
  BY DEF Begin, GiveUp, Forwarded, Return, Goto, IInv, HandlerType, Labels
<1>3. QueueInv'
  <2>1. \A s \in Requests : pc'[s] \in InQueue <=> pc[s] \in InQueue
    BY DEF Begin, GiveUp, Forwarded, Return, Goto, IInv, HandlerType, InQueue
  <2> QED
    BY <1>1, <2>1, QueueKept DEF IInv, redisVars
<1> QED
  BY <1>1, <1>2, <1>3, SlotsUntouched DEF IInv, RedisType, redisVars

\* The two ends of the queue.
LEMMA QueueKeeps ==
    ASSUME IInv, NEW r \in Requests, Enqueue(r) \/ LeaveQueue(r)
    PROVE  IInv'
<1>1. UNCHANGED <<slots, holds, revoked>>
  BY DEF Enqueue, LeaveQueue
<1>2. wait' \in Nat /\ waitLeft' \in 0..WaitTTL
  BY SlotsAssumption
  DEF Enqueue, LeaveQueue, CountWaiter, RefuseWaiter, UncountWaiter, IInv, RedisType
<1>3. HandlerType' /\ QueueInv'
  BY EnqueueType, LeaveQueueType, EnqueueQueue, LeaveQueueQueue DEF IInv
<1> QED
  BY <1>1, <1>2, <1>3, SlotsUntouched DEF IInv, RedisType

\* The release function, at the end of the handler or when the client left.
LEMMA ReleaseKeeps ==
    ASSUME IInv, NEW r \in Requests, Release(r) \/ Disconnect(r)
    PROVE  IInv'
<1>1. GiveBack(r)
  BY DEF Release, Disconnect
<1>2. HandlerType' /\ slots' \in [Ids -> Ages] /\ SlotInv'
  BY <1>1, GiveBackType, GiveBackKeeps DEF IInv
<1>3. UNCHANGED <<wait, waitLeft, pc, counted, drift>>
  BY <1>1 DEF GiveBack
<1>4. QueueInv'
  BY <1>3, QueueKept DEF IInv
<1> QED
  BY <1>2, <1>3, <1>4 DEF IInv, RedisType

\* Time, and who cleans up.
LEMMA TimeKeeps ==
    ASSUME IInv, Tick \/ Cleanup \/ KeyExpires
    PROVE  IInv'
<1>1. CASE Tick
  BY <1>1, TickType, TickSlots, TickQueue DEF IInv, RedisType
<1>2. CASE Cleanup \/ KeyExpires
  <2>1. slots' = Unexpired(slots)
    BY <1>2 DEF Cleanup, KeyExpires
  <2>2. UNCHANGED <<wait, waitLeft, process, requestVars, revoked, drift>>
    BY <1>2 DEF Cleanup, KeyExpires
  <2>3. slots' \in [Ids -> Ages] /\ SlotInv'
    BY <2>1, <2>2, CleaningKeeps DEF IInv, requestVars
  <2>4. QueueInv'
    BY <2>2, QueueKept DEF IInv, requestVars
  <2> QED
    BY <2>2, <2>3, <2>4 DEF IInv, RedisType, HandlerType, requestVars
<1> QED
  BY <1>1, <1>2

\* A process starts, sweeps the slots of the others, clears the counter, and dies.
LEMMA ProcessKeeps ==
    ASSUME IInv, NEW p \in Processes, Start(p) \/ Sweep(p) \/ ClearCounter(p) \/ Crash(p)
    PROVE  IInv'
<1>1. CASE Start(p)
  <2>1. UNCHANGED <<redisVars, requestVars, revoked, drift>>
    BY <1>1 DEF Start
  <2>2. HandlerType'
    BY <1>1 DEF Start, IInv, HandlerType, requestVars
  <2>3. SlotInv' /\ QueueInv'
    BY <2>1, SlotsUntouched, QueueKept DEF IInv, redisVars, requestVars
  <2> QED
    BY <2>1, <2>2, <2>3 DEF IInv, RedisType, redisVars
<1>2. CASE Sweep(p)
  <2>1. UNCHANGED <<wait, waitLeft, requestVars, drift>>
    BY <1>2 DEF Sweep
  <2>2. HandlerType'
    BY <1>2 DEF Sweep, IInv, HandlerType, requestVars, Holders
  <2>3. QueueInv'
    BY <2>1, QueueKept DEF IInv, requestVars
  <2> QED
    BY <1>2, <2>1, <2>2, <2>3, SweepSlots DEF IInv, RedisType
<1>3. CASE ClearCounter(p)
  <2>1. UNCHANGED <<slots, requestVars, revoked>>
    BY <1>3 DEF ClearCounter
  <2>2. HandlerType'
    <3>1. drift' \in BOOLEAN
      BY <1>3 DEF ClearCounter, IInv, HandlerType
    <3>2. process' \in [Processes -> {"down", "sweep", "clear", "up"}]
      BY <1>3 DEF ClearCounter, IInv, HandlerType
    <3> QED
      BY <2>1, <3>1, <3>2 DEF IInv, HandlerType, requestVars
  <2>3. wait' \in Nat /\ waitLeft' \in 0..WaitTTL
    BY <1>3, SlotsAssumption DEF ClearCounter, IInv, RedisType
  <2>4. SlotInv'
    BY <2>1, SlotsUntouched DEF IInv, requestVars
  <2> QED
    BY <1>3, <2>1, <2>2, <2>3, <2>4, ClearCounterQueue DEF IInv, RedisType
<1>4. CASE Crash(p)
  <2>1. UNCHANGED redisVars
    BY <1>4 DEF Crash
  <2> QED
    BY <1>4, <2>1, CrashType, CrashSlots, CrashQueue DEF IInv, RedisType, redisVars
<1> QED
  BY <1>1, <1>2, <1>3, <1>4

\* Every step keeps the invariant.
LEMMA NextKeeps ==
    ASSUME IInv, [Next]_vars
    PROVE  IInv'
<1>1. CASE UNCHANGED vars
  <2>1. UNCHANGED <<slots, wait, waitLeft, process, pc, at, counted, holds, revoked, drift>>
    BY <1>1 DEF vars, redisVars, requestVars
  <2>2. RedisType' /\ HandlerType'
    BY <2>1 DEF IInv, RedisType, HandlerType
  <2>3. SlotInv' /\ QueueInv'
    BY <2>1, SlotsUntouched, QueueKept DEF IInv
  <2> QED
    BY <2>2, <2>3 DEF IInv
<1>2. ASSUME NEW r \in Requests, Proceed(r) PROVE IInv'
  BY <1>2, AttemptKeeps, QueueKeeps, ReleaseKeeps, StrollKeeps DEF Proceed
<1>3. ASSUME NEW r \in Requests,
             \/ \E p \in Processes : Begin(r, p)
             \/ Acquire(r) \/ GiveUp(r) \/ Forwarded(r) \/ Disconnect(r)
      PROVE  IInv'
  BY <1>3, StrollKeeps, AttemptKeeps, ReleaseKeeps
<1>4. ASSUME NEW p \in Processes, Start(p) \/ Sweep(p) \/ ClearCounter(p) \/ Crash(p)
      PROVE  IInv'
  BY <1>4, ProcessKeeps
<1>5. CASE Tick \/ Cleanup \/ KeyExpires
  BY <1>5, TimeKeeps
<1> QED
  BY <1>1, <1>2, <1>3, <1>4, <1>5 DEF Next

-----------------------------------------------------------------------------
(* The theorems *)

\* Along every behaviour of the scripts, the handlers and the processes.
THEOREM Invariance == Spec => []IInv
<1>1. Init => IInv
  BY InitIInv
<1>2. IInv /\ [Next]_vars => IInv'
  BY NextKeeps
<1> QED
  BY <1>1, <1>2, PTL DEF Spec

\* The holders that were not revoked have members of their own, hence are few.
LEMMA IInvLimits == IInv => LimitUnlessRevoked /\ HolderHasSlot
<1> SUFFICES ASSUME IInv PROVE LimitUnlessRevoked /\ HolderHasSlot
  OBVIOUS
<1> DEFINE H == Holders \ revoked
<1>1. \A r \in H : holds[r] \in Members(slots)
  BY SlotsAssumption DEF IInv, HandlerType, SlotInv, HoldersLive, Holders, Members, Expired, Gone
<1>2. HoldersApart
  BY DEF IInv, SlotInv
<1>3. HolderHasSlot
  BY <1>1, <1>2 DEF HolderHasSlot, HoldersApart
<1>4. LimitUnlessRevoked
  <2> DEFINE f == [r \in H |-> holds[r]]
  <2>1. f \in Injection(H, Members(slots))
    BY <1>1, <1>2 DEF Injection, IsInjective, HoldersApart
  <2>2. Cardinality(H) =< Cardinality(Members(slots))
    BY <2>1, FiniteMembers, FS_Injection DEF ExistsInjection
  <2>3. IsFiniteSet(H)
    BY FS_Subset, SlotsAssumption DEF Holders
  <2>4. Cardinality(H) \in Nat
    BY <2>3, FS_CardinalityType
  <2> QED
    BY <2>2, <2>4, FiniteMembers, SlotsAssumption
    DEF IInv, SlotInv, FewMembers, LimitUnlessRevoked
<1> QED
  BY <1>3, <1>4

\* The scripts, the handlers and the processes keep the state well formed, and the counter of
\* waiting requests counts them exactly until a failure, a crash or its expiry.
THEOREM WaitCounterExact == Spec => []Inv
<1>1. IInv => Inv
  BY DEF IInv, RedisType, HandlerType, QueueInv, Inv, TypeOK
<1> QED
  BY <1>1, Invariance, PTL

\* acquireScript keeps the limit: at most maxConcurrency requests work at a time, whatever slots
\* leak, expire or are given back in whatever order, except those whose slot outlived its time
\* to live or was taken by the sweep of a starting process.
THEOREM LimitHolds == Spec => []LimitUnlessRevoked
BY Invariance, IInvLimits, PTL

\* Nobody gives back, cleans up or is given the slot of a request that works.
THEOREM SlotIsOwn == Spec => []HolderHasSlot
BY Invariance, IInvLimits, PTL

=============================================================================

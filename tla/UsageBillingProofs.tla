-------------------------- MODULE UsageBillingProofs --------------------------
(***************************************************************************)
(* Proofs about UsageBilling, for any number of connections and turns, any *)
(* sizes of the queues, any policy of the pool and any number of faults.   *)
(***************************************************************************)
EXTENDS UsageBilling, FiniteSetTheorems, TLAPS

-----------------------------------------------------------------------------
(* The inductive invariant *)

Jobs == {"none", "queued", "running", "claimed", "committed"} \cup Ended

\* TypeOK in the parts about the database, the cache and the tasks.
MoneyType ==
    /\ balance \in Int /\ gift \in 0..Gift /\ edit \in Int \cup {NoValue}
    /\ dedup \in [Requests -> Fingerprints \cup {NoFingerprint}]
    /\ charged \in [Requests -> Nat]

CacheType ==
    /\ cache \in Int \cup {NoValue} /\ sets \subseteq Int /\ deducts \in 0..CacheQueue
    /\ raced \in BOOLEAN

CountersType ==
    /\ invalidations \in 0..MaxRecharges /\ recharges \in 0..MaxRecharges
    /\ faults \in 0..MaxFaults

TaskType ==
    /\ pc \in [Requests -> {"check", "load", "open", "refused", "closed"}]
    /\ job \in [Turns -> Jobs]
    /\ print \in [Turns -> Fingerprints \cup {NoFingerprint}]
    /\ inline \subseteq Turns

\* Edits that have not been saved, which may yet invalidate the cache.
Unsaved == IF edit = NoValue THEN 0 ELSE 1

\* The queue of the cache is finite, and a recharge or an edit invalidates the cache once.
QueuesOK == IsFiniteSet(sets) /\ invalidations + Unsaved =< recharges

\* The turns of a connection are answered one after the other.
InOrder ==
    \A r \in Requests : \E k \in 0..MaxTurns[r] :
        \A i \in 1..MaxTurns[r] : job[<<r, i>>] # "none" <=> i =< k

\* A task has its fingerprint.
Printed == \A t \in Turns : job[t] # "none" => print[t] \in Fingerprints

\* One transaction at a time has claimed a request id, and nobody has been charged for it.
ClaimAlone ==
    \A t \in Turns : job[t] = "claimed" =>
        /\ dedup[t[1]] = NoFingerprint
        /\ \A u \in Turns : job[u] = "claimed" /\ u[1] = t[1] => u = t

\* The row of the dedup table and the charge are one transaction.
ChargedWithKey ==
    \A r \in Requests : charged[r] = IF dedup[r] = NoFingerprint THEN 0 ELSE 1

Committed == {t \in Turns : job[t] = "committed"}

\* A cached balance is behind by the charges that are under way, once the recharges have
\* invalidated it.
CacheFollows ==
    ~raced /\ invalidations = 0 /\ cache # NoValue => cache = balance + Undeducted

TypeInv == MoneyType /\ CacheType /\ CountersType /\ TaskType /\ QueuesOK

IInv == TypeInv /\ InOrder /\ Printed /\ ClaimAlone /\ ChargedWithKey /\ CacheFollows

-----------------------------------------------------------------------------
(* Turns, and the charges under way *)

\* A turn is the number of a turn of a connection.
LEMMA TurnParts ==
    /\ \A t \in Turns : t[1] \in Requests /\ t[2] \in 1..MaxTurns[t[1]] /\ t = <<t[1], t[2]>>
    /\ \A r \in Requests : \A i \in 1..MaxTurns[r] : <<r, i>> \in Turns
BY DEF Turns

\* There are finitely many turns.
LEMMA FiniteTurns == IsFiniteSet(Turns)
<1> DEFINE f == [r \in Requests |-> {r} \X (1..MaxTurns[r])]
           S == {{r} \X (1..MaxTurns[r]) : r \in Requests}
<1>1. f \in Surjection(Requests, S)
  BY DEF Surjection
<1>2. IsFiniteSet(S)
  BY <1>1, FS_Surjection, BillingAssumption
<1>3. ASSUME NEW r \in Requests PROVE IsFiniteSet({r} \X (1..MaxTurns[r]))
  <2>1. IsFiniteSet({r})
    BY FS_Singleton
  <2>2. IsFiniteSet(1..MaxTurns[r])
    BY FS_Interval, BillingAssumption
  <2> QED
    BY <2>1, <2>2, FS_Product
<1>4. \A T \in S : IsFiniteSet(T)
  BY <1>3
<1>5. IsFiniteSet(UNION S)
  BY <1>2, <1>4, FS_UNION
<1> QED
  BY <1>5 DEF Turns

\* The charges under way are counted.
LEMMA UndeductedType ==
    ASSUME CacheType
    PROVE  /\ IsFiniteSet(Committed) /\ Cardinality(Committed) \in Nat
           /\ Undeducted = deducts + Cardinality(Committed) /\ Undeducted \in Nat
<1>1. IsFiniteSet(Committed)
  BY FiniteTurns, FS_Subset DEF Committed
<1>2. Cardinality(Committed) \in Nat
  BY <1>1, FS_CardinalityType
<1>3. Undeducted = deducts + Cardinality(Committed)
  BY DEF Undeducted, Committed
<1> QED
  BY <1>1, <1>2, <1>3 DEF CacheType

\* The turns of a connection so far are the first ones; the next one is new.
LEMMA NextTurn ==
    ASSUME InOrder, NEW r \in Requests
    PROVE  /\ Turn(r) \in Nat \ {0}
           /\ \A i \in 1..MaxTurns[r] : job[<<r, i>>] # "none" <=> i < Turn(r)
<1>1. PICK k \in 0..MaxTurns[r] : \A i \in 1..MaxTurns[r] : job[<<r, i>>] # "none" <=> i =< k
  BY DEF InOrder
<1>2. {i \in 1..MaxTurns[r] : job[<<r, i>>] # "none"} = 1..k
  BY <1>1, BillingAssumption
<1>3. k \in Nat /\ Cardinality(1..k) = k
  BY FS_Interval, BillingAssumption
<1>4. Turn(r) = k + 1
  BY <1>2, <1>3 DEF Turn
<1> QED
  BY <1>1, <1>3, <1>4, BillingAssumption

-----------------------------------------------------------------------------
(* The tasks *)

\* What follows from the tasks alone.
TaskInv == TaskType /\ InOrder /\ Printed

\* A step that leaves the tasks alone.
LEMMA NoTask ==
    ASSUME TaskInv, UNCHANGED <<job, print, inline>>,
           pc' \in [Requests -> {"check", "load", "open", "refused", "closed"}]
    PROVE  TaskInv' /\ Committed' = Committed
BY DEF TaskInv, TaskType, InOrder, Printed, Committed

\* A step of one task, which is not new.
LEMMA OneTask ==
    ASSUME TaskInv, NEW t \in Turns, job[t] # "none", NEW s \in Jobs, s # "none", Set(t, s),
           UNCHANGED <<pc, print, inline>>
    PROVE  TaskInv'
<1>1. TaskType'
  BY DEF TaskInv, TaskType, Set
<1>2. \A u \in Turns : job'[u] # "none" <=> job[u] # "none"
  BY DEF TaskInv, TaskType, Set
<1>3. InOrder'
  BY <1>2, TurnParts DEF TaskInv, InOrder
<1>4. Printed'
  BY <1>2 DEF TaskInv, Printed
<1> QED
  BY <1>1, <1>3, <1>4 DEF TaskInv

\* A turn that is answered is the next one of its connection, and its task has a fingerprint.
LEMMA ServeTask ==
    ASSUME TaskInv, NEW r \in Requests, Serve(r)
    PROVE  /\ TaskInv' /\ Committed' = Committed
           /\ \A t \in Turns : job'[t] = "claimed" <=> job[t] = "claimed"
<1> DEFINE n == Turn(r)
           t == <<r, n>>
<1>1. /\ n \in 1..MaxTurns[r]
      /\ \A i \in 1..MaxTurns[r] : job[<<r, i>>] # "none" <=> i < n
  BY NextTurn, BillingAssumption DEF Serve, TaskInv
<1>2. t \in Turns /\ job[t] = "none"
  BY <1>1, TurnParts
<1>3. PICK s \in {"queued", "dropped", "running"}, fp \in Fingerprints :
            /\ job' = [job EXCEPT ![t] = s]
            /\ print' = [print EXCEPT ![t] = fp]
            /\ inline' \in {inline, inline \cup {t}}
            /\ UNCHANGED pc
  <2>1. Submitted \subseteq {"queued", "dropped", "running"}
    BY BillingAssumption DEF Submitted
  <2> QED
    BY <2>1 DEF Serve
<1> HIDE DEF t
<1>4. TaskType'
  BY <1>2, <1>3 DEF TaskInv, TaskType, Jobs, Ended
<1>5. \A u \in Turns : job'[u] = IF u = t THEN s ELSE job[u]
  BY <1>2, <1>3 DEF TaskInv, TaskType
<1>6. InOrder'
  <2>1. \A q \in Requests \ {r} : \A i \in 1..MaxTurns[q] : job'[<<q, i>>] = job[<<q, i>>]
    BY <1>5, TurnParts DEF t
  <2>2. \A i \in 1..MaxTurns[r] : job'[<<r, i>>] # "none" <=> i =< n
    <3> SUFFICES ASSUME NEW i \in 1..MaxTurns[r]
                 PROVE  job'[<<r, i>>] # "none" <=> i =< n
      OBVIOUS
    <3>1. CASE i = n
      BY <1>1, <1>3, <1>5, <3>1, TurnParts DEF t
    <3>2. CASE i # n
      <4>1. job'[<<r, i>>] = job[<<r, i>>]
        BY <1>5, <3>2, TurnParts DEF t
      <4> QED
        BY <1>1, <3>2, <4>1, BillingAssumption
    <3> QED
      BY <3>1, <3>2
  <2>3. \A q \in Requests \ {r} : \E k \in 0..MaxTurns[q] :
            \A i \in 1..MaxTurns[q] : job'[<<q, i>>] # "none" <=> i =< k
    BY <2>1 DEF TaskInv, InOrder
  <2>4. n \in 0..MaxTurns[r]
    BY <1>1, BillingAssumption
  <2> QED
    BY <2>2, <2>3, <2>4 DEF InOrder
<1>7. Printed'
  BY <1>2, <1>3, <1>5 DEF TaskInv, TaskType, Printed
<1>8. Committed' = Committed /\ \A u \in Turns : job'[u] = "claimed" <=> job[u] = "claimed"
  BY <1>2, <1>3, <1>5 DEF Committed
<1> QED
  BY <1>4, <1>6, <1>7, <1>8 DEF TaskInv

\* A crash ends the tasks of the process, and starts none.
LEMMA CrashTask ==
    ASSUME TaskInv, Crash
    PROVE  TaskInv' /\ Committed' = {} /\ \A t \in Turns : job'[t] # "claimed"
<1>1. \A t \in Turns : job'[t] = CASE job[t] \in {"queued", "running", "claimed"} -> "dropped"
                                   [] job[t] = "committed" -> "charged"
                                   [] OTHER -> job[t]
  BY DEF Crash
<1>2. \A t \in Turns : /\ job'[t] \in Jobs \ {"claimed", "committed"}
                       /\ job'[t] # "none" <=> job[t] # "none"
  BY <1>1 DEF TaskInv, TaskType, Jobs, Ended
<1>3. TaskType'
  BY <1>2 DEF Crash, TaskInv, TaskType
<1>4. InOrder'
  BY <1>2, TurnParts DEF TaskInv, InOrder
<1>5. Printed'
  BY <1>2 DEF Crash, TaskInv, Printed
<1> QED
  BY <1>2, <1>3, <1>4, <1>5 DEF TaskInv, Committed

-----------------------------------------------------------------------------
(* The claims *)

\* A step that charges nobody and claims nothing.
LEMMA NoClaim ==
    ASSUME ClaimAlone, ChargedWithKey, UNCHANGED <<dedup, charged>>,
           \A t \in Turns : job'[t] = "claimed" => job[t] = "claimed"
    PROVE  ClaimAlone' /\ ChargedWithKey'
BY DEF ClaimAlone, ChargedWithKey

\* claimUsageBillingKey: the insert waits for a transaction with the same key, and finds the
\* row of one that has committed.
LEMMA ClaimIsAlone ==
    ASSUME TaskInv, ClaimAlone, ChargedWithKey, NEW t \in Turns, Claim(t)
    PROVE  ClaimAlone' /\ ChargedWithKey'
<1>1. ChargedWithKey' /\ UNCHANGED <<dedup, charged>>
  BY DEF Claim, moneyVars, ChargedWithKey
<1>2. CASE dedup[t[1]] = NoFingerprint /\ Set(t, "claimed")
  <2>1. \A u \in Turns : job'[u] = "claimed" => u = t \/ job[u] = "claimed"
    BY <1>2 DEF Set, TaskInv, TaskType
  <2>2. \A u \in Turns : u[1] = t[1] => job[u] # "claimed"
    BY TurnParts DEF Claim
  <2>3. ClaimAlone'
    BY <1>1, <1>2, <2>1, <2>2 DEF ClaimAlone
  <2> QED
    BY <1>1, <2>3
<1>3. CASE \E s \in {"duplicate", "conflict", "failed"} : Set(t, s)
  <2>1. \A u \in Turns : job'[u] = "claimed" => job[u] = "claimed"
    BY <1>3 DEF Set, TaskInv, TaskType
  <2> QED
    BY <1>1, <2>1, NoClaim
<1> QED
  BY <1>2, <1>3 DEF Claim

\* The charge and its key commit together, and the claim ends.
LEMMA CommitCharges ==
    ASSUME MoneyType, TaskInv, ClaimAlone, ChargedWithKey, NEW t \in Turns, Commit(t)
    PROVE  ClaimAlone' /\ ChargedWithKey'
<1>1. \A u \in Turns : job'[u] = "claimed" => job[u] = "claimed" /\ u # t
  BY DEF Commit, Set, TaskInv, TaskType
<1>2. CASE Charge(t)
  <2>1. /\ dedup[t[1]] = NoFingerprint /\ print[t] \in Fingerprints /\ t[1] \in Requests
        /\ \A u \in Turns : job'[u] = "claimed" => u[1] # t[1]
    BY <1>1, TurnParts DEF Commit, ClaimAlone, TaskInv, Printed
  <2>2. ClaimAlone'
    BY <1>1, <1>2, <2>1, TurnParts DEF ClaimAlone, Charge, MoneyType
  <2>3. ChargedWithKey'
    <3>1. charged[t[1]] = 0
      BY <2>1 DEF ChargedWithKey
    <3>2. charged'[t[1]] = 1 /\ dedup'[t[1]] # NoFingerprint
      BY <1>2, <2>1, <3>1, BillingAssumption DEF Charge, MoneyType
    <3>3. \A r \in Requests \ {t[1]} : charged'[r] = charged[r] /\ dedup'[r] = dedup[r]
      BY <1>2 DEF Charge, MoneyType
    <3> QED
      BY <3>2, <3>3 DEF ChargedWithKey
  <2> QED
    BY <2>2, <2>3
<1>3. CASE UNCHANGED <<dedup, charged>>
  BY <1>1, <1>3, NoClaim
<1> QED
  BY <1>2, <1>3 DEF Commit

-----------------------------------------------------------------------------
(* The steps *)

\* A step that leaves the cached balance and what it lags behind alone.
LEMMA CacheUntouched ==
    ASSUME CacheFollows, UNCHANGED <<balance, cache, raced, invalidations, deducts>>,
           Committed' = Committed
    PROVE  CacheFollows'
BY DEF CacheFollows, Undeducted, Committed

\* A step has a fault or none, and the bound on the faults holds.
LEMMA FaultType ==
    ASSUME CountersType, Fault \/ UNCHANGED faults
    PROVE  faults' \in 0..MaxFaults
BY BillingAssumption DEF Fault, CountersType

\* The parts of the invariant that a step has to keep.
LEMMA Together ==
    ASSUME MoneyType', CacheType', CountersType', QueuesOK', TaskInv', ClaimAlone',
           ChargedWithKey', CacheFollows'
    PROVE  IInv'
BY DEF IInv, TypeInv, TaskInv

\* The connections come, check the balance, are refused and go, and touch no money.
LEMMA ConnectionKeeps ==
    ASSUME IInv, NEW r \in Requests, Check(r) \/ Retry(r) \/ Close(r)
    PROVE  IInv'
<1>1. UNCHANGED <<moneyVars, cacheVars, invalidations, taskVars>>
  BY DEF Check, Retry, Close
<1>2. pc' \in [Requests -> {"check", "load", "open", "refused", "closed"}]
  BY DEF Check, Retry, Close, Goto, Admit, IInv, TypeInv, TaskType
<1>3. TaskInv' /\ Committed' = Committed
  BY <1>1, <1>2, NoTask DEF IInv, TypeInv, TaskInv, taskVars
<1>4. faults' \in 0..MaxFaults
  BY FaultType DEF Check, Retry, Close, IInv, TypeInv
<1>5. MoneyType' /\ CacheType' /\ CountersType' /\ QueuesOK'
  BY <1>1, <1>4
  DEF IInv, TypeInv, MoneyType, CacheType, CountersType, QueuesOK, Unsaved, moneyVars, cacheVars
<1>6. ClaimAlone' /\ ChargedWithKey'
  BY <1>1, NoClaim DEF IInv, moneyVars, taskVars
<1>7. CacheFollows'
  BY <1>1, <1>3, CacheUntouched DEF IInv, moneyVars, cacheVars
<1> QED
  BY <1>3, <1>5, <1>6, <1>7, Together

\* A request that missed the cache reads the balance and queues a write of it.
LEMMA LoadKeeps ==
    ASSUME IInv, Load
    PROVE  IInv'
<1>1. UNCHANGED <<moneyVars, cache, deducts, invalidations, taskVars, faults>>
  BY DEF Load
<1>2. pc' \in [Requests -> {"check", "load", "open", "refused", "closed"}]
  BY DEF Load, Admit, IInv, TypeInv, TaskType
<1>3. TaskInv' /\ Committed' = Committed
  BY <1>1, <1>2, NoTask DEF IInv, TypeInv, TaskInv, taskVars
<1>4. MoneyType' /\ CountersType'
  BY <1>1 DEF IInv, TypeInv, MoneyType, CountersType, moneyVars
<1>5. sets' \subseteq Int /\ IsFiniteSet(sets')
  BY FS_AddElement DEF Load, IInv, TypeInv, CacheType, MoneyType, QueuesOK
<1>6. raced' \in BOOLEAN /\ (raced => raced')
  BY DEF Load
<1>7. CacheType' /\ QueuesOK'
  BY <1>1, <1>5, <1>6 DEF IInv, TypeInv, CacheType, QueuesOK, Unsaved, moneyVars
<1>8. ClaimAlone' /\ ChargedWithKey'
  BY <1>1, NoClaim DEF IInv, moneyVars, taskVars
<1>9. CacheFollows'
  BY <1>1, <1>3, <1>6 DEF IInv, CacheFollows, Undeducted, Committed, moneyVars
<1> QED
  BY <1>3, <1>4, <1>7, <1>8, <1>9, Together

\* An answer makes a task: one for the pool, one that runs inline, or one that is dropped.
LEMMA ServeKeeps ==
    ASSUME IInv, NEW r \in Requests, Serve(r)
    PROVE  IInv'
<1>1. UNCHANGED <<moneyVars, cacheVars, invalidations, pc, faults>>
  BY DEF Serve
<1>2. /\ TaskInv' /\ Committed' = Committed
      /\ \A t \in Turns : job'[t] = "claimed" <=> job[t] = "claimed"
  BY ServeTask DEF IInv, TypeInv, TaskInv
<1>3. MoneyType' /\ CacheType' /\ CountersType' /\ QueuesOK'
  BY <1>1
  DEF IInv, TypeInv, MoneyType, CacheType, CountersType, QueuesOK, Unsaved, moneyVars, cacheVars
<1>4. ClaimAlone' /\ ChargedWithKey'
  BY <1>1, <1>2, NoClaim DEF IInv, moneyVars
<1>5. CacheFollows'
  BY <1>1, <1>2, CacheUntouched DEF IInv, moneyVars, cacheVars
<1> QED
  BY <1>2, <1>3, <1>4, <1>5, Together

\* A worker of the pool takes a task.
LEMMA TakeKeeps ==
    ASSUME IInv, NEW t \in Turns, Take(t)
    PROVE  IInv'
<1>1. UNCHANGED <<moneyVars, cacheVars, invalidations, pc, print, inline, faults>>
  BY DEF Take
<1>2. TaskInv'
  BY OneTask DEF Take, IInv, TypeInv, TaskInv, Jobs
<1>3. /\ Committed' = Committed
      /\ \A u \in Turns : job'[u] = "claimed" => job[u] = "claimed"
  BY DEF Take, Set, IInv, TypeInv, TaskType, Committed
<1>4. MoneyType' /\ CacheType' /\ CountersType' /\ QueuesOK'
  BY <1>1
  DEF IInv, TypeInv, MoneyType, CacheType, CountersType, QueuesOK, Unsaved, moneyVars, cacheVars
<1>5. ClaimAlone' /\ ChargedWithKey'
  BY <1>1, <1>3, NoClaim DEF IInv, moneyVars
<1>6. CacheFollows'
  BY <1>1, <1>3, CacheUntouched DEF IInv, moneyVars, cacheVars
<1> QED
  BY <1>2, <1>4, <1>5, <1>6, Together

\* claimUsageBillingKey: the id is claimed, a duplicate or a conflict, or the insert fails.
LEMMA ClaimKeeps ==
    ASSUME IInv, NEW t \in Turns, Claim(t)
    PROVE  IInv'
<1>1. UNCHANGED <<moneyVars, cacheVars, invalidations, pc, print, inline>>
  BY DEF Claim
<1>2. PICK s \in {"claimed", "duplicate", "conflict", "failed"} : Set(t, s)
  BY DEF Claim
<1>3. job[t] = "running"
  BY DEF Claim
<1>4. TaskInv'
  BY <1>1, <1>2, <1>3, OneTask DEF IInv, TypeInv, TaskInv, Jobs, Ended
<1>5. Committed' = Committed
  BY <1>2, <1>3 DEF Set, IInv, TypeInv, TaskType, Committed
<1>6. faults' \in 0..MaxFaults
  BY FaultType DEF Claim, IInv, TypeInv
<1>7. MoneyType' /\ CacheType' /\ CountersType' /\ QueuesOK'
  BY <1>1, <1>6
  DEF IInv, TypeInv, MoneyType, CacheType, CountersType, QueuesOK, Unsaved, moneyVars, cacheVars
<1>8. ClaimAlone' /\ ChargedWithKey'
  BY ClaimIsAlone DEF IInv, TypeInv, TaskInv
<1>9. CacheFollows'
  BY <1>1, <1>5, CacheUntouched DEF IInv, moneyVars, cacheVars
<1> QED
  BY <1>4, <1>7, <1>8, <1>9, Together

\* The charge of the gift balance, or of the balance when there is none, but for small costs.
LEMMA ChargeType ==
    ASSUME MoneyType, NEW t \in Turns, Charge(t), UNCHANGED edit, print[t] \in Fingerprints
    PROVE  /\ MoneyType'
           /\ gift = 0 /\ print[t] \notin Small => balance' = balance - 1
<1>1. t[1] \in Requests
  BY TurnParts
<1>2. /\ balance' \in Int /\ gift' \in 0..Gift
      /\ gift = 0 /\ print[t] \notin Small => balance' = balance - 1
  BY BillingAssumption DEF Charge, MoneyType
<1>3. dedup' \in [Requests -> Fingerprints \cup {NoFingerprint}]
  BY DEF Charge, MoneyType
<1>4. charged' \in [Requests -> Nat]
  BY <1>1 DEF Charge, MoneyType
<1> QED
  BY <1>2, <1>3, <1>4 DEF MoneyType

\* A charge that the balance pays is under way to the cache; one that the gifts pay, or that
\* is too small to be paid, is told.
LEMMA CommitKeeps ==
    ASSUME IInv, NEW t \in Turns, Commit(t)
    PROVE  IInv'
<1>1. UNCHANGED <<edit, recharges, cache, sets, deducts, invalidations, pc, print, inline>>
  BY DEF Commit
<1>2. job[t] = "claimed" /\ print[t] \in Fingerprints
  BY DEF Commit, IInv, Printed
<1>3. PICK s \in {"committed", "failed"} : Set(t, s)
  BY DEF Commit
<1>4. TaskInv'
  BY <1>1, <1>2, <1>3, OneTask DEF IInv, TypeInv, TaskInv, Jobs, Ended
<1>5. MoneyType'
  <2>1. CASE Charge(t)
    BY <1>1, <1>2, <2>1, ChargeType DEF IInv, TypeInv
  <2>2. CASE UNCHANGED <<balance, gift, dedup, charged>>
    BY <1>1, <2>2 DEF IInv, TypeInv, MoneyType
  <2> QED
    BY <2>1, <2>2 DEF Commit
<1>6. raced' \in BOOLEAN /\ faults' \in 0..MaxFaults
  <2>1. raced' \in BOOLEAN
    BY DEF Commit, IInv, TypeInv, CacheType
  <2> QED
    BY <2>1, FaultType DEF Commit, IInv, TypeInv
<1>7. CacheType' /\ CountersType' /\ QueuesOK'
  BY <1>1, <1>6 DEF IInv, TypeInv, CacheType, CountersType, QueuesOK, Unsaved
<1>8. ClaimAlone' /\ ChargedWithKey'
  BY CommitCharges DEF IInv, TypeInv, TaskInv
<1>9. CacheFollows'
  <2>1. CASE raced'
    BY <2>1 DEF CacheFollows
  <2>2. CASE /\ Charge(t) /\ Set(t, "committed")
            /\ raced' = (raced \/ gift > 0 \/ print[t] \in Small) /\ ~raced'
    <3>0. ~raced /\ ~(gift > 0) /\ print[t] \notin Small
      BY <2>2
    <3>1. Committed' = Committed \cup {t} /\ t \notin Committed
      BY <1>2, <2>2 DEF Set, IInv, TypeInv, TaskType, Committed
    <3>2. Cardinality(Committed') = Cardinality(Committed) + 1
      BY <3>1, UndeductedType, FS_AddElement DEF IInv, TypeInv
    <3>3. Undeducted' = Undeducted + 1
      BY <1>1, <3>2, UndeductedType DEF IInv, TypeInv, CacheType, Undeducted, Committed
    <3>4. balance' = balance - 1
      BY <1>1, <1>2, <2>2, <3>0, ChargeType, BillingAssumption DEF IInv, TypeInv, MoneyType
    <3> QED
      BY <1>1, <3>0, <3>3, <3>4, UndeductedType DEF IInv, TypeInv, MoneyType, CacheFollows
  <2>3. CASE Set(t, "failed") /\ UNCHANGED <<balance, raced>>
    <3>1. Committed' = Committed
      BY <1>2, <2>3 DEF Set, IInv, TypeInv, TaskType, Committed
    <3> QED
      BY <1>1, <2>3, <3>1, CacheUntouched DEF IInv
  <2> QED
    BY <2>1, <2>2, <2>3 DEF Commit
<1> QED
  BY <1>4, <1>5, <1>7, <1>8, <1>9, Together

\* A step of the cache writers, the recharges or time: the tasks stay.
LEMMA TasksUntouched ==
    ASSUME IInv, UNCHANGED <<dedup, charged, pc, taskVars>>
    PROVE  TaskInv' /\ Committed' = Committed /\ ClaimAlone' /\ ChargedWithKey'
<1>1. UNCHANGED <<job, print, inline>>
  BY DEF taskVars
<1>2. TaskInv' /\ Committed' = Committed
  BY <1>1, NoTask DEF IInv, TypeInv, TaskInv, TaskType
<1>3. ClaimAlone' /\ ChargedWithKey'
  BY <1>1, NoClaim DEF IInv
<1> QED
  BY <1>2, <1>3

\* DeductUserBalance leaves a missing key missing.
LEMMA DeductedType ==
    ASSUME CacheType
    PROVE  Deducted \in Int \cup {NoValue} /\ (cache # NoValue => Deducted = cache - 1)
           /\ (cache = NoValue => Deducted = NoValue)
BY DEF CacheType, Deducted

\* A charge leaves the tasks for the queue of the cache, or for the cache itself.
LEMMA FinalizeKeeps ==
    ASSUME IInv, NEW t \in Turns, Finalize(t)
    PROVE  IInv'
<1>1. UNCHANGED <<moneyVars, sets, invalidations, pc, print, inline>> /\ Set(t, "charged")
  BY DEF Finalize
<1>2. job[t] = "committed"
  BY DEF Finalize
<1>3. TaskInv'
  BY <1>1, <1>2, OneTask DEF IInv, TypeInv, TaskInv, Jobs, Ended
<1>4. deducts' \in 0..CacheQueue
  <2>1. Cardinality(sets) \in Nat
    BY FS_CardinalityType DEF IInv, TypeInv, QueuesOK
  <2> QED
    BY <2>1, BillingAssumption DEF Finalize, CacheRoom, IInv, TypeInv, CacheType
<1>5. raced' \in BOOLEAN
  BY DEF Finalize, IInv, TypeInv, CacheType
<1>6. cache' \in Int \cup {NoValue}
  BY DeductedType DEF Finalize, IInv, TypeInv, CacheType
<1>7. faults' \in 0..MaxFaults
  BY FaultType DEF Finalize, IInv, TypeInv
<1>8. MoneyType' /\ CacheType' /\ CountersType' /\ QueuesOK'
  BY <1>1, <1>4, <1>5, <1>6, <1>7
  DEF IInv, TypeInv, MoneyType, CacheType, CountersType, QueuesOK, Unsaved, moneyVars
<1>9. ClaimAlone' /\ ChargedWithKey'
  <2>1. \A u \in Turns : job'[u] = "claimed" => job[u] = "claimed"
    BY <1>1 DEF Set, IInv, TypeInv, TaskType
  <2> QED
    BY <1>1, <2>1, NoClaim DEF IInv, moneyVars
<1>10. CacheFollows'
  <2>1. Committed' = Committed \ {t} /\ t \in Committed
    BY <1>1, <1>2 DEF Set, IInv, TypeInv, TaskType, Committed
  <2>2. Cardinality(Committed') = Cardinality(Committed) - 1
    BY <2>1, UndeductedType, FS_RemoveElement DEF IInv, TypeInv
  <2>3. Undeducted' = deducts' + Cardinality(Committed) - 1
    BY <2>2 DEF Undeducted, Committed
  <2>4. UNCHANGED <<balance, invalidations>>
    BY <1>1 DEF moneyVars
  <2>5. CASE raced'
    BY <2>5 DEF CacheFollows
  <2>6. CASE deducts' = deducts + 1 /\ UNCHANGED <<cache, raced>>
    <3>1. Undeducted' = Undeducted
      BY <2>3, <2>6, UndeductedType DEF IInv, TypeInv, CacheType
    <3> QED
      BY <2>4, <2>6, <3>1 DEF IInv, CacheFollows
  <2>7. CASE cache' = Deducted /\ raced' = (raced \/ sets # {}) /\ UNCHANGED deducts /\ ~raced'
    <3>1. ~raced
      BY <2>7
    <3>2. Undeducted' = Undeducted - 1
      BY <2>3, <2>7, UndeductedType DEF IInv, TypeInv, CacheType
    <3>3. CASE cache = NoValue
      BY <2>7, <3>3, DeductedType DEF IInv, TypeInv, CacheFollows
    <3>4. CASE cache # NoValue
      <4>1. cache' = cache - 1
        BY <2>7, <3>4, DeductedType DEF IInv, TypeInv
      <4> QED
        BY <2>4, <3>1, <3>2, <3>4, <4>1, UndeductedType
        DEF IInv, TypeInv, MoneyType, CacheFollows
    <3> QED
      BY <3>3, <3>4
  <2> QED
    BY <2>5, <2>6, <2>7 DEF Finalize
<1> QED
  BY <1>3, <1>8, <1>9, <1>10, Together

\* A balance read before is written, and is told to be right or raced.
LEMMA WriteSetKeeps ==
    ASSUME IInv, NEW v \in sets, WriteSet(v)
    PROVE  IInv'
<1>1. UNCHANGED <<moneyVars, deducts, invalidations, pc, taskVars>>
  BY DEF WriteSet
<1>2. TaskInv' /\ Committed' = Committed /\ ClaimAlone' /\ ChargedWithKey'
  BY <1>1, TasksUntouched DEF moneyVars
<1>3. sets' \subseteq Int /\ IsFiniteSet(sets')
  BY FS_Subset DEF WriteSet, IInv, TypeInv, CacheType, QueuesOK
<1>4. cache' \in Int \cup {NoValue} /\ faults' \in 0..MaxFaults
  BY FaultType DEF WriteSet, IInv, TypeInv, CacheType
<1>5. raced' \in BOOLEAN
  BY DEF WriteSet
<1>6. MoneyType' /\ CacheType' /\ CountersType' /\ QueuesOK'
  BY <1>1, <1>3, <1>4, <1>5
  DEF IInv, TypeInv, MoneyType, CacheType, CountersType, QueuesOK, Unsaved, moneyVars
<1>7. CacheFollows'
  <2>1. Undeducted' = Undeducted /\ UNCHANGED <<balance, invalidations>>
    BY <1>1, <1>2 DEF Undeducted, Committed, moneyVars
  <2>2. raced' \/ (~raced /\ v = balance + Undeducted)
    BY DEF WriteSet
  <2>3. cache' \in {v, cache}
    BY DEF WriteSet
  <2> QED
    BY <2>1, <2>2, <2>3 DEF IInv, CacheFollows
<1> QED
  BY <1>2, <1>6, <1>7, Together

\* A charge is deducted from the cache, if there is one.
LEMMA WriteDeductKeeps ==
    ASSUME IInv, WriteDeduct
    PROVE  IInv'
<1>1. UNCHANGED <<moneyVars, sets, invalidations, pc, taskVars>>
  BY DEF WriteDeduct
<1>2. TaskInv' /\ Committed' = Committed /\ ClaimAlone' /\ ChargedWithKey'
  BY <1>1, TasksUntouched DEF moneyVars
<1>3. cache' \in Int \cup {NoValue} /\ faults' \in 0..MaxFaults
  BY FaultType, DeductedType DEF WriteDeduct, IInv, TypeInv, CacheType
<1>4. raced' \in BOOLEAN
  BY DEF WriteDeduct
<1>5. deducts' = deducts - 1 /\ deducts' \in 0..CacheQueue
  BY BillingAssumption DEF WriteDeduct, IInv, TypeInv, CacheType
<1>6. MoneyType' /\ CacheType' /\ CountersType' /\ QueuesOK'
  BY <1>1, <1>3, <1>4, <1>5
  DEF IInv, TypeInv, MoneyType, CacheType, CountersType, QueuesOK, Unsaved, moneyVars
<1>7. CacheFollows'
  <2>1. Undeducted' = Undeducted - 1 /\ UNCHANGED <<balance, invalidations>>
    <3>1. Undeducted' = deducts' + Cardinality(Committed)
      BY <1>2 DEF Undeducted, Committed
    <3> QED
      BY <1>1, <1>5, <3>1, UndeductedType DEF IInv, TypeInv, CacheType, moneyVars
  <2>2. CASE raced'
    BY <2>2 DEF CacheFollows
  <2>3. CASE cache' = Deducted /\ raced' = (raced \/ sets # {}) /\ ~raced'
    <3>1. ~raced
      BY <2>3
    <3>2. CASE cache = NoValue
      BY <2>3, <3>2, DeductedType DEF IInv, TypeInv, CacheFollows
    <3>3. CASE cache # NoValue
      <4>1. cache' = cache - 1
        BY <2>3, <3>3, DeductedType DEF IInv, TypeInv
      <4> QED
        BY <2>1, <3>1, <3>3, <4>1, UndeductedType DEF IInv, TypeInv, MoneyType, CacheFollows
    <3> QED
      BY <3>2, <3>3
  <2> QED
    BY <2>2, <2>3 DEF WriteDeduct
<1> QED
  BY <1>2, <1>6, <1>7, Together

\* Without a cached balance there is nothing to follow.
LEMMA ExpiryKeeps ==
    ASSUME IInv, CacheExpires
    PROVE  IInv'
<1>1. UNCHANGED <<moneyVars, sets, deducts, invalidations, pc, taskVars, faults>>
  BY DEF CacheExpires
<1>2. TaskInv' /\ Committed' = Committed /\ ClaimAlone' /\ ChargedWithKey'
  BY <1>1, TasksUntouched DEF moneyVars
<1>3. cache' = NoValue /\ raced' \in BOOLEAN
  BY DEF CacheExpires
<1>4. MoneyType' /\ CacheType' /\ CountersType' /\ QueuesOK'
  BY <1>1, <1>3
  DEF IInv, TypeInv, MoneyType, CacheType, CountersType, QueuesOK, Unsaved, moneyVars
<1> QED
  BY <1>2, <1>3, <1>4, Together DEF CacheFollows

\* A recharge has yet to invalidate the cache.
LEMMA RechargeKeeps ==
    ASSUME IInv, Recharge
    PROVE  IInv'
<1>1. UNCHANGED <<gift, edit, dedup, charged, cacheVars, pc, taskVars, faults>>
  BY DEF Recharge
<1>2. TaskInv' /\ Committed' = Committed /\ ClaimAlone' /\ ChargedWithKey'
  BY <1>1, TasksUntouched
<1>3. /\ balance' \in Int
      /\ invalidations' \in 0..MaxRecharges /\ recharges' \in 0..MaxRecharges
      /\ invalidations' + Unsaved' =< recharges' /\ invalidations' > 0
  BY BillingAssumption DEF Recharge, IInv, TypeInv, MoneyType, CountersType, QueuesOK, Unsaved
<1>4. MoneyType' /\ CacheType' /\ CountersType' /\ QueuesOK'
  BY <1>1, <1>3
  DEF IInv, TypeInv, MoneyType, CacheType, CountersType, QueuesOK, cacheVars
<1>5. CacheFollows'
  BY <1>3 DEF CacheFollows
<1> QED
  BY <1>2, <1>4, <1>5, Together

\* Of a refund or an offline recharge the cache is not told, if there is one.
LEMMA RefundKeeps ==
    ASSUME IInv, Refund
    PROVE  IInv'
<1>1. /\ UNCHANGED <<gift, edit, dedup, charged, cache, sets, deducts, invalidations>>
      /\ UNCHANGED <<pc, taskVars, faults>>
  BY DEF Refund
<1>2. TaskInv' /\ Committed' = Committed /\ ClaimAlone' /\ ChargedWithKey'
  BY <1>1, TasksUntouched
<1>3. /\ balance' \in Int /\ recharges' \in 0..MaxRecharges
      /\ invalidations + Unsaved' =< recharges'
  BY BillingAssumption DEF Refund, IInv, TypeInv, MoneyType, CountersType, QueuesOK, Unsaved
<1>4. raced' \in BOOLEAN /\ (raced' \/ cache = NoValue)
  BY DEF Refund
<1>5. MoneyType' /\ CacheType' /\ CountersType' /\ QueuesOK'
  BY <1>1, <1>3, <1>4 DEF IInv, TypeInv, MoneyType, CacheType, CountersType, QueuesOK
<1>6. CacheFollows'
  BY <1>1, <1>4 DEF CacheFollows
<1> QED
  BY <1>2, <1>5, <1>6, Together

\* A user is read to be saved later.
LEMMA ReadUserKeeps ==
    ASSUME IInv, ReadUser
    PROVE  IInv'
<1>1. UNCHANGED <<balance, gift, dedup, charged, cacheVars, invalidations, pc, taskVars, faults>>
  BY DEF ReadUser
<1>2. TaskInv' /\ Committed' = Committed /\ ClaimAlone' /\ ChargedWithKey'
  BY <1>1, TasksUntouched
<1>3. /\ edit' \in Int /\ recharges' \in 0..MaxRecharges
      /\ invalidations + Unsaved' =< recharges'
  BY BillingAssumption
  DEF ReadUser, IInv, TypeInv, MoneyType, CountersType, QueuesOK, Unsaved
<1>4. MoneyType' /\ CacheType' /\ CountersType' /\ QueuesOK'
  BY <1>1, <1>3 DEF IInv, TypeInv, MoneyType, CacheType, CountersType, QueuesOK, cacheVars
<1>5. CacheFollows'
  BY <1>1, <1>2, CacheUntouched DEF IInv, cacheVars
<1> QED
  BY <1>2, <1>4, <1>5, Together

\* A save of the user invalidates the cache, or leaves the balance as it is, or is told, if
\* there is a cached balance.
LEMMA SaveUserKeeps ==
    ASSUME IInv, SaveUser
    PROVE  IInv'
<1>1. UNCHANGED <<gift, dedup, charged, recharges, cache, sets, deducts, pc, taskVars>>
  BY DEF SaveUser
<1>2. TaskInv' /\ Committed' = Committed /\ ClaimAlone' /\ ChargedWithKey'
  BY <1>1, TasksUntouched
<1>3. edit \in Int /\ edit' = NoValue /\ balance' \in Int /\ faults' \in 0..MaxFaults
  <2>1. edit \in Int /\ edit' = NoValue
    BY DEF SaveUser, IInv, TypeInv, MoneyType
  <2>2. balance' \in Int
    BY <2>1 DEF SaveUser, Adjusted, IInv, TypeInv, MoneyType
  <2>3. faults' \in 0..MaxFaults
    BY FaultType DEF SaveUser, IInv, TypeInv
  <2> QED
    BY <2>1, <2>2, <2>3
<1>4. invalidations' \in 0..MaxRecharges /\ invalidations' + Unsaved' =< recharges
  <2>1. invalidations' \in {invalidations, invalidations + 1} /\ edit # NoValue
    BY DEF SaveUser
  <2>2. invalidations + 1 =< recharges
    BY <1>3, <2>1 DEF IInv, TypeInv, QueuesOK, Unsaved
  <2>3. invalidations' \in 0..MaxRecharges /\ invalidations' =< recharges
    BY <2>1, <2>2, BillingAssumption DEF IInv, TypeInv, CountersType
  <2> QED
    BY <1>3, <2>3, BillingAssumption DEF Unsaved
<1>5. raced' \in BOOLEAN
  BY DEF SaveUser, IInv, TypeInv, CacheType
<1>6. MoneyType' /\ CacheType' /\ CountersType' /\ QueuesOK'
  BY <1>1, <1>3, <1>4, <1>5
  DEF IInv, TypeInv, MoneyType, CacheType, CountersType, QueuesOK
<1>7. CacheFollows'
  <2>1. CASE invalidations' = invalidations + 1
    BY <2>1 DEF IInv, TypeInv, CountersType, CacheFollows
  <2>2. CASE raced' = (raced \/ (balance' # balance /\ cache # NoValue)) /\ UNCHANGED invalidations
    <3>1. Undeducted' = Undeducted
      BY <1>1, <1>2 DEF Undeducted, Committed
    <3> QED
      BY <1>1, <2>2, <3>1 DEF IInv, CacheFollows
  <2> QED
    BY <2>1, <2>2 DEF SaveUser
<1> QED
  BY <1>2, <1>6, <1>7, Together

\* A recharge invalidates the cache, or what it missed is told.
LEMMA InvalidateKeeps ==
    ASSUME IInv, Invalidate
    PROVE  IInv'
<1>1. UNCHANGED <<moneyVars, sets, deducts, pc, taskVars>>
  BY DEF Invalidate
<1>2. TaskInv' /\ Committed' = Committed /\ ClaimAlone' /\ ChargedWithKey'
  BY <1>1, TasksUntouched DEF moneyVars
<1>3. cache' \in Int \cup {NoValue} /\ faults' \in 0..MaxFaults
  BY FaultType DEF Invalidate, IInv, TypeInv, CacheType
<1>4. raced' \in BOOLEAN /\ (raced' \/ cache' = NoValue)
  BY DEF Invalidate
<1>5. invalidations' \in 0..MaxRecharges /\ invalidations' + Unsaved =< recharges
  BY BillingAssumption DEF Invalidate, IInv, TypeInv, CountersType, QueuesOK, Unsaved
<1>6. MoneyType' /\ CacheType' /\ CountersType' /\ QueuesOK'
  BY <1>1, <1>3, <1>4, <1>5
  DEF IInv, TypeInv, MoneyType, CacheType, CountersType, QueuesOK, Unsaved, moneyVars
<1>7. CacheFollows'
  BY <1>4 DEF CacheFollows
<1> QED
  BY <1>2, <1>6, <1>7, Together

\* A crash forgets the queues; what it loses is told.
LEMMA CrashKeeps ==
    ASSUME IInv, Crash
    PROVE  IInv'
<1>1. UNCHANGED <<balance, gift, dedup, charged, recharges, cache, print, inline>>
  BY DEF Crash
<1>2. TaskInv' /\ Committed' = {} /\ \A t \in Turns : job'[t] # "claimed"
  BY CrashTask DEF IInv, TypeInv, TaskInv
<1>3. sets' = {} /\ deducts' = 0 /\ invalidations' = 0 /\ edit' = NoValue /\ Unsaved' = 0
  BY DEF Crash, Unsaved
<1>4. raced' \in BOOLEAN /\ faults' \in 0..MaxFaults
  <2>1. raced' \in BOOLEAN
    BY DEF Crash
  <2> QED
    BY <2>1, FaultType DEF Crash, IInv, TypeInv
<1>5. IsFiniteSet(sets') /\ sets' \subseteq Int
  BY <1>3, FS_EmptySet
<1>6. 0 \in 0..CacheQueue /\ 0 \in 0..MaxRecharges /\ 0 + 0 =< recharges
  BY BillingAssumption DEF IInv, TypeInv, CountersType
<1>7. MoneyType' /\ CacheType' /\ CountersType' /\ QueuesOK'
  BY <1>1, <1>3, <1>4, <1>5, <1>6
  DEF IInv, TypeInv, MoneyType, CacheType, CountersType, QueuesOK, Unsaved, moneyVars
<1>8. ClaimAlone' /\ ChargedWithKey'
  BY <1>1, <1>2, NoClaim DEF IInv, moneyVars
<1>9. CacheFollows'
  <2>1. Undeducted' = 0
    BY <1>2, <1>3, FS_EmptySet DEF Undeducted, Committed
  <2>2. raced' \/ (~raced /\ Undeducted = 0 /\ invalidations = 0)
    BY DEF Crash
  <2> QED
    BY <1>1, <2>1, <2>2 DEF IInv, CacheFollows
<1> QED
  BY <1>2, <1>7, <1>8, <1>9, Together

-----------------------------------------------------------------------------
(* The theorems *)

\* At first the queues are empty and nothing is cached or charged.
LEMMA InitIInv == Init => IInv
<1> SUFFICES ASSUME Init PROVE IInv
  OBVIOUS
<1> USE BillingAssumption
<1>1. MoneyType
  <2>1. Balance \in Int /\ 0 \in Nat
    OBVIOUS
  <2> QED
    BY <2>1 DEF Init, MoneyType
<1>2. CacheType /\ CountersType /\ QueuesOK
  <2>1. 0 \in 0..CacheQueue /\ 0 \in 0..MaxRecharges /\ 0 \in 0..MaxFaults /\ 0 + 0 =< 0
    OBVIOUS
  <2>2. IsFiniteSet({})
    BY FS_EmptySet
  <2> QED
    BY <2>1, <2>2 DEF Init, CacheType, CountersType, QueuesOK, Unsaved
<1>3. TaskType
  BY DEF Init, TaskType, Jobs
<1>4. InOrder
  <2>1. \A r \in Requests : \A i \in 1..MaxTurns[r] : job[<<r, i>>] = "none"
    BY TurnParts DEF Init
  <2>2. \A r \in Requests : 0 \in 0..MaxTurns[r] /\ \A i \in 1..MaxTurns[r] : ~(i =< 0)
    OBVIOUS
  <2> QED
    BY <2>1, <2>2 DEF InOrder
<1>5. Printed /\ ClaimAlone /\ ChargedWithKey /\ CacheFollows
  BY DEF Init, Printed, ClaimAlone, ChargedWithKey, CacheFollows
<1> QED
  BY <1>1, <1>2, <1>3, <1>4, <1>5 DEF IInv, TypeInv

\* Every step keeps the invariant.
LEMMA NextKeeps ==
    ASSUME IInv, [Next]_vars
    PROVE  IInv'
<1>1. CASE UNCHANGED vars
  <2>1. UNCHANGED <<moneyVars, cacheVars, invalidations, pc, taskVars, faults>>
    BY <1>1 DEF vars
  <2>2. TaskInv' /\ Committed' = Committed /\ ClaimAlone' /\ ChargedWithKey'
    BY <2>1, TasksUntouched DEF moneyVars
  <2>3. MoneyType' /\ CacheType' /\ CountersType' /\ QueuesOK'
    BY <2>1
    DEF IInv, TypeInv, MoneyType, CacheType, CountersType, QueuesOK, Unsaved, moneyVars, cacheVars
  <2>4. CacheFollows'
    BY <2>1, <2>2, CacheUntouched DEF IInv, moneyVars, cacheVars
  <2> QED
    BY <2>2, <2>3, <2>4, Together
<1>2. ASSUME NEW r \in Requests, Check(r) \/ Retry(r) \/ Serve(r) \/ Close(r) PROVE IInv'
  BY <1>2, ConnectionKeeps, ServeKeeps
<1>3. ASSUME NEW t \in Turns, Task(t) PROVE IInv'
  BY <1>3, TakeKeeps, ClaimKeeps, CommitKeeps, FinalizeKeeps DEF Task
<1>4. ASSUME NEW v \in sets, WriteSet(v) PROVE IInv'
  BY <1>4, WriteSetKeeps
<1>5. CASE Load \/ WriteDeduct \/ CacheExpires \/ Invalidate \/ Crash
  BY <1>5, LoadKeeps, WriteDeductKeeps, ExpiryKeeps, InvalidateKeeps, CrashKeeps
<1>6. CASE Recharge \/ Refund \/ ReadUser \/ SaveUser
  BY <1>6, RechargeKeeps, RefundKeeps, ReadUserKeeps, SaveUserKeeps
<1> QED
  BY <1>1, <1>2, <1>3, <1>4, <1>5, <1>6 DEF Next

\* The invariant holds in every state of the specification.
THEOREM Invariance == Spec => []IInv
<1>1. Init => IInv
  BY InitIInv
<1>2. IInv /\ [Next]_vars => IInv'
  BY NextKeeps
<1> QED
  BY <1>1, <1>2, PTL DEF Spec

\* claimUsageBillingKey and the charge are one transaction: the state stays well formed, and a
\* billable request is charged at most once, through concurrent tasks with its request id,
\* commits whose answer is lost, and crashes.
THEOREM ChargedAtMostOnce == Spec => []Inv
<1>1. IInv => TypeOK
  BY DEF IInv, TypeInv, MoneyType, CacheType, CountersType, TaskType, TypeOK, Jobs
<1>2. IInv => AppliedOnce
  BY DEF IInv, ChargedWithKey, AppliedOnce
<1>3. IInv => Inv
  BY <1>1, <1>2 DEF Inv
<1> QED
  BY <1>3, Invariance, PTL

\* The balance in Redis is that of the database once the queues are empty, unless since it was
\* cached a gift paid, a cost was too small, a refund, an offline recharge or a save of the
\* user changed the row, or writes of it have crossed or failed: what is queued and committed
\* accounts for the difference before.
THEOREM CacheCatchesUp == Spec => []CacheIsExact
<1>1. IInv => CacheIsExact
  <2> SUFFICES ASSUME IInv, Quiet, cache # NoValue, ~raced PROVE cache = balance
    BY DEF CacheIsExact
  <2>1. Committed = {}
    BY DEF Quiet, Committed, Ended
  <2>2. Undeducted = 0
    BY <2>1, UndeductedType, FS_EmptySet DEF Quiet, IInv, TypeInv
  <2> QED
    BY <2>2 DEF Quiet, IInv, TypeInv, MoneyType, CacheFollows
<1> QED
  BY <1>1, Invariance, PTL

-----------------------------------------------------------------------------
(* UsageBilling implements BillingLedger *)

\* What the ledger sees of the tasks.
Served == {r \in Requests : \E t \in Turns : t[1] = r /\ job[t] # "none"}

\* A step that leaves the money and the dedup table alone and starts no task.
LEMMA LedgerStutter ==
    ASSUME UNCHANGED <<balance, gift, edit, recharges, dedup>>, Served' = Served
    PROVE  UNCHANGED Ledger!vars
BY DEF Served, Ledger!vars

\* No service is forgotten and none begins while the tasks of other turns go on.
LEMMA TasksOfServed ==
    ASSUME \A t \in Turns : job'[t] # "none" <=> job[t] # "none"
    PROVE  Served' = Served
BY DEF Served, Turns

\* A turn is answered: the request is served.
LEMMA ServeIsServe ==
    ASSUME IInv, NEW r \in Requests, Serve(r)
    PROVE  Ledger!Serve(r)
<1> DEFINE n == Turn(r)
<1>1. n \in 1..MaxTurns[r] /\ <<r, n>> \in Turns
  BY NextTurn, TurnParts, BillingAssumption DEF Serve, IInv
<1>2. PICK s \in {"queued", "dropped", "running"} : job' = [job EXCEPT ![<<r, n>>] = s]
  <2>1. Submitted \subseteq {"queued", "dropped", "running"}
    BY BillingAssumption DEF Submitted
  <2> QED
    BY <2>1 DEF Serve
<1> HIDE DEF n
<1>3. Served' = Served \cup {r}
  <2>1. \A t : t \in Turns <=> t \in Turns'
    BY DEF Turns
  <2>2. \A t \in Turns : job'[t] = IF t = <<r, n>> THEN s ELSE job[t]
    BY <1>1, <1>2 DEF IInv, TypeInv, TaskType
  <2>3. r \in Served'
    BY <1>1, <2>1, <2>2 DEF Served
  <2>4. \A q \in Requests \ {r} : q \in Served' <=> q \in Served
    BY <2>1, <2>2 DEF Served
  <2>5. Served \subseteq Requests /\ Served' \subseteq Requests
    BY DEF Served
  <2> QED
    BY <2>3, <2>4, <2>5
<1>4. UNCHANGED <<balance, gift, edit, recharges, dedup>>
  BY DEF Serve, moneyVars
<1> QED
  BY <1>3, <1>4 DEF Ledger!Serve, Served

\* The transaction of a claim that commits bills the request, whose row was not there.
LEMMA CommitIsBill ==
    ASSUME IInv, NEW t \in Turns, Commit(t)
    PROVE  Ledger!Next \/ UNCHANGED Ledger!vars
<1>1. job[t] = "claimed" /\ t[1] \in Requests /\ print[t] \in Fingerprints
      /\ dedup[t[1]] = NoFingerprint
  BY TurnParts DEF Commit, IInv, Printed, ClaimAlone
<1>2. \A u \in Turns : job'[u] # "none" <=> job[u] # "none"
  BY <1>1 DEF Commit, Set, IInv, TypeInv, TaskType
<1>3. Served' = Served /\ UNCHANGED <<edit, recharges>>
  BY <1>2, TasksOfServed DEF Commit
<1>4. CASE Charge(t)
  <2>1. t[1] \in Served
    BY <1>1 DEF Served
  <2>2. Ledger!Bill(t[1], print[t])
    BY <1>1, <1>3, <1>4, <2>1 DEF Ledger!Bill, Charge, Served
  <2> QED
    BY <1>1, <2>2 DEF Ledger!Next
<1>5. CASE UNCHANGED <<balance, gift, dedup>>
  BY <1>3, <1>5, LedgerStutter
<1> QED
  BY <1>4, <1>5 DEF Commit

\* Recharges and refunds are transfers; they touch neither tasks nor claims.
LEMMA RechargeIsTransfer ==
    ASSUME IInv, Recharge \/ Refund
    PROVE  Ledger!Transfer
<1>1. UNCHANGED <<job, gift, edit, dedup>>
  BY DEF Recharge, Refund, taskVars
<1>2. balance' \in {balance - 1, balance + 1} /\ recharges' = recharges + 1
  BY DEF Recharge, Refund
<1>3. Served' = Served
  BY <1>1, TasksOfServed
<1> QED
  BY <1>1, <1>2, <1>3 DEF Ledger!Transfer, Served

\* A user is read and saved; a crash may come between, and then nothing is saved.
LEMMA EditIsEdit ==
    ASSUME IInv, ReadUser \/ SaveUser \/ Crash
    PROVE  Ledger!Next \/ UNCHANGED Ledger!vars
<1>1. CASE ReadUser
  <2>1. Served' = Served
    BY <1>1, TasksOfServed DEF ReadUser, taskVars
  <2>2. Ledger!Read
    BY <1>1, <2>1 DEF ReadUser, Ledger!Read, Served
  <2> QED
    BY <2>2 DEF Ledger!Next
<1>2. CASE SaveUser
  <2>1. Served' = Served
    BY <1>2, TasksOfServed DEF SaveUser, taskVars
  <2>2. balance' \in {balance, edit - 1, edit, edit + 1}
    BY <1>2 DEF SaveUser, Adjusted
  <2>3. Ledger!Save
    BY <1>2, <2>1, <2>2 DEF SaveUser, Ledger!Save, Served
  <2> QED
    BY <2>3 DEF Ledger!Next
<1>3. CASE Crash
  <2>1. Served' = Served
    BY <1>3, TasksOfServed DEF Crash
  <2>2. UNCHANGED <<balance, gift, recharges, dedup>> /\ edit' = NoValue
    BY <1>3 DEF Crash
  <2>3. CASE edit = NoValue
    BY <2>1, <2>2, <2>3, LedgerStutter
  <2>4. CASE edit # NoValue
    BY <2>1, <2>2, <2>4 DEF Ledger!Save, Ledger!Next, Served
  <2> QED
    BY <2>3, <2>4
<1> QED
  BY <1>1, <1>2, <1>3

\* Every behaviour of the tasks, the cache and the pool is one of the ledger: a charge of a
\* request that was served and not charged, a recharge or refund, or a save of a user.
THEOREM BillingLedgerImplemented == Spec => ImplementsLedger
<1>1. Init => Ledger!Init
  <2> SUFFICES ASSUME Init PROVE Ledger!Init
    OBVIOUS
  <2>1. Served = {}
    BY DEF Init, Served
  <2> QED
    BY <2>1 DEF Init, Ledger!Init, Served
<1>2. IInv /\ [Next]_vars => [Ledger!Next]_(Ledger!vars)
  <2> SUFFICES ASSUME IInv, [Next]_vars PROVE Ledger!Next \/ UNCHANGED Ledger!vars
    OBVIOUS
  <2>1. CASE UNCHANGED moneyVars /\ \A t \in Turns : job'[t] # "none" <=> job[t] # "none"
    BY <2>1, TasksOfServed, LedgerStutter DEF moneyVars
  <2>2. ASSUME NEW r \in Requests, Serve(r) PROVE Ledger!Next
    BY <2>2, ServeIsServe DEF Ledger!Next
  <2>3. CASE Recharge \/ Refund
    BY <2>3, RechargeIsTransfer DEF Ledger!Next
  <2>4. ASSUME NEW t \in Turns, Take(t) \/ Claim(t) \/ Finalize(t)
        PROVE  UNCHANGED moneyVars /\ \A u \in Turns : job'[u] # "none" <=> job[u] # "none"
    BY <2>4 DEF Take, Claim, Finalize, Set, IInv, TypeInv, TaskType
  <2>5. CASE ReadUser \/ SaveUser \/ Crash
    BY <2>5, EditIsEdit
  <2>6. CASE UNCHANGED <<moneyVars, taskVars>>
    BY <2>1, <2>6 DEF taskVars
  <2> QED
    BY <2>1, <2>2, <2>3, <2>4, <2>5, <2>6, CommitIsBill
    DEF Next, Check, Retry, Close, Task, WriteSet, Load, WriteDeduct, CacheExpires, Invalidate,
        vars
<1> QED
  BY <1>1, <1>2, Invariance, PTL DEF Spec, ImplementsLedger, Ledger!Spec
=============================================================================

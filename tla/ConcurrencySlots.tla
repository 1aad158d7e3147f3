-------------------------- MODULE ConcurrencySlots --------------------------
(***************************************************************************)
(* The concurrency slots of one user or one account: the Redis scripts     *)
(* (backend/internal/repository/concurrency_cache.go), ConcurrencyService  *)
(* (service/concurrency_service.go) and the way a gateway handler waits    *)
(* for a slot and gives it back (handler/gateway_helper.go,                *)
(* handler/gateway_handler.go, handler/openai_gateway_handler.go).         *)
(*                                                                         *)
(* A sorted set holds one member per slot, scored with the time it was     *)
(* taken; a counter holds the number of waiting requests.  Both live in    *)
(* Redis and outlive the processes.  A script is one step.  Scores are     *)
(* kept as ages, so that time needs no bound.                              *)
(***************************************************************************)
EXTENDS Naturals, FiniteSets

CONSTANTS
    Requests,       \* request handlers, reused when their request is over
    Processes,      \* server instances
    NoProcess,      \* the process of a handler without a request
    MaxIds,         \* bound: how many ids of a process are in use at a time
    NoId,
    MaxConcurrency,
    MaxWait,
    SlotTTL,
    WaitTTL,        \* waitQueueTTLSeconds
    RedisFails      \* scripts may fail

ASSUME SlotsAssumption ==
    /\ IsFiniteSet(Requests) /\ IsFiniteSet(Processes)
    /\ MaxConcurrency \in Nat \ {0} /\ MaxWait \in Nat
    /\ SlotTTL \in Nat \ {0} /\ WaitTTL \in Nat \ {0}
    /\ MaxIds \in Nat /\ RedisFails \in BOOLEAN
    /\ NoProcess \notin Processes
ASSUME NoIdAssumption == NoId \notin Processes \X (1..MaxIds)

VARIABLES
    slots,      \* the members: age by request id, Gone for none
    wait,       \* the wait counter, 0 for none
    waitLeft,   \* until the counter expires
    process,    \* the life of each process
    pc,         \* what each request does next
    at,         \* the process that handles it
    counted,    \* waitCounted
    holds,      \* the id its release function removes, until that has run
    revoked,    \* requests whose slot went while they held it
    drift       \* the counter went out of step with the waiting requests

redisVars == <<slots, wait, waitLeft>>
requestVars == <<pc, at, counted, holds>>
vars == <<redisVars, process, requestVars, revoked, drift>>

\* A request id is the prefix of its process and a sequence number.
Ids == Processes \X (1..MaxIds)
Prefix(i) == i[1]

Gone == SlotTTL + 1
Ages == 0..Gone

Labels == {"idle", "try", "enqueue", "acquire", "leave", "forward", "abandon", "end"}

Init ==
    /\ slots = [i \in Ids |-> Gone]
    /\ wait = 0
    /\ waitLeft = 0
    /\ process = [p \in Processes |-> "down"]
    /\ pc = [r \in Requests |-> "idle"]
    /\ at = [r \in Requests |-> NoProcess]
    /\ counted = [r \in Requests |-> FALSE]
    /\ holds = [r \in Requests |-> NoId]
    /\ revoked = {}
    /\ drift = FALSE

-----------------------------------------------------------------------------
(* The scripts *)

Expired(age) == age >= SlotTTL

\* ZREMRANGEBYSCORE key -inf (now - ttl).
Unexpired(s) == [i \in Ids |-> IF Expired(s[i]) THEN Gone ELSE s[i]]

Members(s) == {i \in Ids : s[i] # Gone}
Waiting == {r \in Requests : counted[r]}
Holders == {r \in Requests : holds[r] # NoId}

\* generateRequestID: an id that is neither a member nor somebody's.
FreshIds(p) ==
    {i \in Ids : Prefix(i) = p /\ i \notin Members(slots) /\ \A r \in Requests : holds[r] # i}
FreshId(p) == CHOOSE i \in FreshIds(p) : TRUE

\* Faulty variant: one more than maxConcurrency.
HasRoomOffByOne(s) == Cardinality(Members(s)) =< MaxConcurrency

HasRoom(s) == Cardinality(Members(s)) < MaxConcurrency

\* acquireScript takes a slot for a request of process p.
TakeSlot(p) ==
    /\ HasRoom(Unexpired(slots))
    /\ FreshIds(p) # {}
    /\ slots' = [Unexpired(slots) EXCEPT ![FreshId(p)] = 0]

\* acquireScript refuses; expired members are gone all the same.
RefuseSlot ==
    /\ ~HasRoom(Unexpired(slots))
    /\ slots' = Unexpired(slots)

\* incrementWaitScript.
CountWaiter ==
    /\ wait < MaxWait
    /\ wait' = wait + 1
    /\ waitLeft' = WaitTTL

\* Faulty variant: a refused request renews the counter.
RefuseWaiterRenews ==
    /\ wait >= MaxWait
    /\ waitLeft' = WaitTTL
    /\ UNCHANGED wait

RefuseWaiter ==
    /\ wait >= MaxWait
    /\ UNCHANGED <<wait, waitLeft>>

\* decrementWaitScript.
UncountWaiter ==
    /\ wait' = IF wait > 0 THEN wait - 1 ELSE 0
    /\ UNCHANGED waitLeft

-----------------------------------------------------------------------------
Goto(r, label) == pc' = [pc EXCEPT ![r] = label]

\* A request arrives at a running process.  Some handlers first try to get a slot,
\* the others join the queue first.
Begin(r, p) ==
    /\ pc[r] = "idle" /\ process[p] = "up"
    /\ \E label \in {"try", "enqueue"} : Goto(r, label)
    /\ at' = [at EXCEPT ![r] = p]
    /\ UNCHANGED <<redisVars, process, counted, holds, revoked, drift>>

\* The acquired slot's release function is the caller's.
Acquired(r, label) ==
    /\ TakeSlot(at[r])
    /\ holds' = [holds EXCEPT ![r] = FreshId(at[r])]
    /\ Goto(r, label)

\* The script fails, or its answer is lost: the slot may be taken with nobody to
\* give it back.
AcquireFails(r, label) ==
    /\ RedisFails
    /\ (TakeSlot(at[r]) \/ RefuseSlot \/ UNCHANGED slots)
    /\ Goto(r, label)
    /\ UNCHANGED holds

\* TryAcquireUserSlot, TryAcquireAccountSlot, tryAcquireAccountSlot.  After an error
\* the handler answers with it; the selection of an account makes a wait plan.
TryAcquire(r) ==
    /\ pc[r] = "try"
    /\ \/ Acquired(r, "forward")
       \/ RefuseSlot /\ Goto(r, "enqueue") /\ UNCHANGED holds
       \/ AcquireFails(r, "enqueue") \/ AcquireFails(r, "end")
    /\ UNCHANGED <<wait, waitLeft, process, at, counted, revoked, drift>>

\* IncrementWaitCount, IncrementAccountWaitCount.  An error counts as success,
\* whether the counter was incremented or not.
Enqueue(r) ==
    /\ pc[r] = "enqueue"
    /\ \/ /\ CountWaiter
          /\ Goto(r, "acquire") /\ counted' = [counted EXCEPT ![r] = TRUE]
          /\ UNCHANGED drift
       \/ /\ RefuseWaiter
          /\ Goto(r, "end")
          /\ UNCHANGED <<counted, drift>>
       \/ /\ RedisFails
          /\ (CountWaiter \/ UNCHANGED <<wait, waitLeft>>)
          /\ Goto(r, "acquire") /\ counted' = [counted EXCEPT ![r] = TRUE]
          /\ drift' = TRUE
    /\ UNCHANGED <<slots, process, at, holds, revoked>>

\* One attempt of waitForSlotWithPingTimeout.
Acquire(r) ==
    /\ pc[r] = "acquire"
    /\ \/ Acquired(r, "leave")
       \/ RefuseSlot /\ UNCHANGED <<pc, holds>>
       \/ AcquireFails(r, "abandon")
    /\ UNCHANGED <<wait, waitLeft, process, at, counted, revoked, drift>>

\* The wait times out, the client left or a ping cannot be written.
GiveUp(r) ==
    /\ pc[r] = "acquire"
    /\ Goto(r, "abandon")
    /\ UNCHANGED <<redisVars, process, at, counted, holds, revoked, drift>>

\* Faulty variant: only a request that got its slot is uncounted.
LeaveQueueOnSuccess(r) ==
    /\ \/ pc[r] = "leave" /\ Goto(r, "forward") /\ UncountWaiter
       \/ pc[r] = "abandon" /\ Goto(r, "end") /\ UNCHANGED <<wait, waitLeft>>
    /\ counted' = [counted EXCEPT ![r] = FALSE]
    /\ UNCHANGED <<slots, process, at, holds, revoked, drift>>

\* DecrementWaitCount, DecrementAccountWaitCount: with the slot, or without.
LeaveQueue(r) ==
    /\ \/ pc[r] = "leave" /\ Goto(r, "forward")
       \/ pc[r] = "abandon" /\ Goto(r, "end")
    /\ counted' = [counted EXCEPT ![r] = FALSE]
    /\ \/ UncountWaiter /\ UNCHANGED drift
       \/ RedisFails /\ drift' = TRUE /\ UNCHANGED <<wait, waitLeft>>
    /\ UNCHANGED <<slots, process, at, holds, revoked>>

\* The upstream request ends.
Forwarded(r) ==
    /\ pc[r] = "forward"
    /\ Goto(r, "end")
    /\ UNCHANGED <<redisVars, process, at, counted, holds, revoked, drift>>

\* The release function runs.  An error of the ZREM is logged.
GiveBack(r) ==
    /\ holds[r] # NoId
    /\ \/ slots' = [slots EXCEPT ![holds[r]] = Gone]
       \/ RedisFails /\ UNCHANGED slots
    /\ holds' = [holds EXCEPT ![r] = NoId]
    /\ revoked' = revoked \ {r}
    /\ UNCHANGED <<wait, waitLeft, process, pc, at, counted, drift>>

\* wrapReleaseOnDone: it runs once, at the end of the handler, or before that when the
\* context is cancelled because the client left.
Release(r) == pc[r] = "end" /\ GiveBack(r)
Disconnect(r) == pc[r] = "forward" /\ GiveBack(r)

\* The handler returns.
Return(r) ==
    /\ pc[r] = "end" /\ holds[r] = NoId
    /\ Goto(r, "idle")
    /\ at' = [at EXCEPT ![r] = NoProcess]
    /\ UNCHANGED <<redisVars, process, counted, holds, revoked, drift>>

-----------------------------------------------------------------------------
(* Time, and who cleans up *)

\* The counter expires WaitTTL after its last increment.
Tick ==
    /\ slots' = [i \in Ids |-> IF slots[i] >= SlotTTL THEN slots[i] ELSE slots[i] + 1]
    /\ waitLeft' = IF waitLeft > 0 THEN waitLeft - 1 ELSE 0
    /\ wait' = IF waitLeft =< 1 THEN 0 ELSE wait
    /\ revoked' = revoked \cup {r \in Holders : Expired(slots'[holds[r]])}
    /\ drift' = (drift \/ (waitLeft = 1 /\ wait > 0))
    /\ UNCHANGED <<process, requestVars>>

\* Faulty variant: a slot goes a moment before its time.
CleanupEarly ==
    /\ \E p \in Processes : process[p] = "up"
    /\ slots' = [i \in Ids |-> IF slots[i] + 1 >= SlotTTL THEN Gone ELSE slots[i]]
    /\ UNCHANGED <<wait, waitLeft, process, requestVars, revoked, drift>>

\* cleanupExpiredSlotsScript, getCountScript: expired members are removed.
Cleanup ==
    /\ \E p \in Processes : process[p] = "up"
    /\ slots' = Unexpired(slots)
    /\ UNCHANGED <<wait, waitLeft, process, requestVars, revoked, drift>>

\* Faulty variant: the key has no time to live.
KeyStays == FALSE /\ UNCHANGED vars

\* The key expires, ttl after a script last renewed it: never before its youngest
\* member has expired.
KeyExpires ==
    /\ Members(slots) # {}
    /\ \A i \in Members(slots) : Expired(slots[i])
    /\ slots' = Unexpired(slots)
    /\ UNCHANGED <<wait, waitLeft, process, requestVars, revoked, drift>>

-----------------------------------------------------------------------------
(* Processes *)

\* A process starts; its ids have a prefix that no member has.
Start(p) ==
    /\ process[p] = "down"
    /\ \A i \in Members(slots) : Prefix(i) # p
    /\ process' = [process EXCEPT ![p] = "sweep"]
    /\ UNCHANGED <<redisVars, requestVars, revoked, drift>>

Foreign(p, i) == Prefix(i) # p

\* CleanupStaleProcessSlots removes every slot with another prefix, those of the
\* processes that are alive included.  After an error the process starts as it is.
Sweep(p) ==
    /\ process[p] = "sweep"
    /\ \/ /\ slots' = [i \in Ids |-> IF Foreign(p, i) THEN Gone ELSE slots[i]]
          /\ process' = [process EXCEPT ![p] = "clear"]
          /\ revoked' = revoked \cup {r \in Holders : Foreign(p, holds[r])}
       \/ /\ RedisFails
          /\ process' = [process EXCEPT ![p] = "up"]
          /\ UNCHANGED <<slots, revoked>>
    /\ UNCHANGED <<wait, waitLeft, requestVars, drift>>

\* It then deletes every wait counter.
ClearCounter(p) ==
    /\ process[p] = "clear"
    /\ \/ wait' = 0 /\ waitLeft' = 0 /\ drift' = (drift \/ wait > 0)
       \/ RedisFails /\ UNCHANGED <<wait, waitLeft, drift>>
    /\ process' = [process EXCEPT ![p] = "up"]
    /\ UNCHANGED <<slots, requestVars, revoked>>

\* A process dies, and its requests with it; what they left in Redis stays.
Crash(p) ==
    /\ process[p] # "down"
    /\ process' = [process EXCEPT ![p] = "down"]
    /\ LET lost == {r \in Requests : at[r] = p} IN
       /\ pc' = [r \in Requests |-> IF r \in lost THEN "idle" ELSE pc[r]]
       /\ counted' = [r \in Requests |-> counted[r] /\ r \notin lost]
       /\ holds' = [r \in Requests |-> IF r \in lost THEN NoId ELSE holds[r]]
       /\ revoked' = revoked \ lost
       /\ drift' = (drift \/ \E r \in lost : counted[r])
       /\ at' = [r \in Requests |-> IF r \in lost THEN NoProcess ELSE at[r]]
    /\ UNCHANGED redisVars

-----------------------------------------------------------------------------
\* What a handler does next, whatever its client and the upstream do.
Proceed(r) ==
    TryAcquire(r) \/ Enqueue(r) \/ LeaveQueue(r) \/ Release(r) \/ Return(r)

Next ==
    \/ \E r \in Requests :
        \/ \E p \in Processes : Begin(r, p)
        \/ Proceed(r) \/ Acquire(r) \/ GiveUp(r) \/ Forwarded(r) \/ Disconnect(r)
    \/ \E p \in Processes : Start(p) \/ Sweep(p) \/ ClearCounter(p) \/ Crash(p)
    \/ Tick \/ Cleanup \/ KeyExpires

\* A running handler goes on, a wait times out (maxConcurrencyWait, the timeout of the
\* wait plan), an upstream request ends, time passes, and Redis expires its keys.
\* The background cleanup is optional (SlotCleanupInterval) and not relied on.
Fairness ==
    /\ \A r \in Requests :
        WF_vars(Proceed(r)) /\ WF_vars(GiveUp(r)) /\ WF_vars(Forwarded(r))
    /\ WF_vars(Tick) /\ WF_vars(KeyExpires)

Spec == Init /\ [][Next]_vars /\ Fairness

-----------------------------------------------------------------------------
(* Properties *)

TypeOK ==
    /\ slots \in [Ids -> Ages]
    /\ wait \in Nat /\ waitLeft \in 0..WaitTTL
    /\ process \in [Processes -> {"down", "sweep", "clear", "up"}]
    /\ pc \in [Requests -> Labels]
    /\ at \in [Requests -> Processes \cup {NoProcess}]
    /\ counted \in [Requests -> BOOLEAN]
    /\ holds \in [Requests -> Ids \cup {NoId}]
    /\ revoked \subseteq Requests
    /\ drift \in BOOLEAN

\* acquireScript keeps the limit exact: whatever slots leak, expire or are swept, at most
\* maxConcurrency requests work under slots that did not outlive the TTL and that no
\* starting process took away.
LimitUnlessRevoked == Cardinality(Holders \ revoked) =< MaxConcurrency

\* A request keeps its own slot while it works: the releases, leaks and cleanups of
\* others do not remove it before its TTL.
HolderHasSlot ==
    /\ \A r \in Holders \ revoked : holds[r] \in Members(slots)
    /\ \A r, s \in Holders : r # s => holds[r] # holds[s]

\* Every way into the queue has its way out: without failures, crashes and expiry the
\* counter is the number of waiting requests, on whatever path they left.
CountIsExact == drift \/ wait = Cardinality(Waiting)

\* The state is well formed, and the counter of waiting requests is exact.
Inv == TypeOK /\ CountIsExact

\* A slot that lost its request, by a crash, an error or a lost answer, is reclaimed,
\* without the background cleanup and without another request.
SlotReclaimed ==
    \A i \in Ids : (i \in Members(slots) /\ \A r \in Requests : holds[r] # i)
                        ~> i \notin Members(slots)

\* Counts that nobody will take back do not close the queue for good, even when new
\* requests keep coming.
QueueReopens == wait >= MaxWait ~> wait < MaxWait

=============================================================================

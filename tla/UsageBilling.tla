----------------------------- MODULE UsageBilling -----------------------------
(***************************************************************************)
(* From the check of a user's balance to the charge for what was used, in  *)
(* one process: the billing cache (backend/internal/service/               *)
(* billing_cache_service.go, repository/billing_cache.go), the usage record*)
(* pool (service/usage_record_worker_pool.go) and the billing transaction  *)
(* (repository/usage_billing_repo.go, applyUsageBilling in                 *)
(* service/gateway_service.go).                                            *)
(*                                                                         *)
(* A Request is a connection of one user with one API key: a plain request *)
(* has one turn, a WebSocket (handler/openai_gateway_handler.go) several.  *)
(* A turn costs 1; costs of at most 0.0001 count as 1 as well, since what  *)
(* matters of them, that the cache is charged and the row is not, adds up. *)
(***************************************************************************)
EXTENDS Integers, FiniteSets

CONSTANTS
    Requests,       \* connections, each with its client_request_id
    MaxTurns,       \* bound: turns of each connection
    Fingerprints,   \* of the billing commands: tokens and costs
    Small,          \* those whose cost is at most 0.0001
    NoFingerprint,
    NoValue,        \* the key of the cached balance does not exist
    Balance, Gift,  \* what the user has at first, gifts at most
    PoolWorkers,    \* the pool's concurrency
    PoolQueue,      \* the pool's queue_size
    Policy,         \* what the pool does with a task too many
    CacheQueue,     \* cacheWriteBufferSize
    MaxRecharges,   \* bound: recharges, refunds and edits of the user
    MaxFaults       \* bound: failed calls and crashes

ASSUME BillingAssumption ==
    /\ IsFiniteSet(Requests)
    /\ MaxTurns \in [Requests -> Nat] /\ Balance \in Nat /\ Gift \in Nat
    /\ PoolWorkers \in Nat \ {0} /\ PoolQueue \in Nat /\ CacheQueue \in Nat
    /\ Policy \in {"drop", "sample", "sync"}
    /\ NoFingerprint \notin Fingerprints /\ Small \subseteq Fingerprints /\ NoValue \notin Int
    /\ MaxRecharges \in Nat /\ MaxFaults \in Nat

VARIABLES
    balance, gift,  \* users.balance and what remains of gift_balance_records
    edit,           \* the balance in a user that was read to be changed and saved
    dedup,          \* usage_billing_dedup: the fingerprint of each request id
    cache,          \* billing:balance
    sets,           \* balances read and queued to be cached
    deducts,        \* charges queued to be deducted from the cache
    invalidations,  \* recharges that have yet to invalidate the cache
    pc,             \* what each request is doing
    job,            \* the usage record task of each turn
    print,          \* its fingerprint
    inline,         \* those the handler runs itself, as the queue was full
    charged,        \* how often each request was charged
    recharges,      \* recharges, refunds and edits so far
    raced,          \* the cache missed a change, or a write of it crossed another
    faults

moneyVars == <<balance, gift, edit, dedup, charged, recharges>>
cacheVars == <<cache, sets, deducts, raced>>
taskVars == <<job, print, inline>>
vars == <<moneyVars, cacheVars, invalidations, pc, taskVars, faults>>

Turns == UNION {{r} \X (1..MaxTurns[r]) : r \in Requests}
Queued == {t \in Turns : job[t] = "queued"}
Running == {t \in Turns : job[t] \in {"running", "claimed", "committed"}}
Blocked(r) == \E t \in inline \cap Running : t[1] = r
Ended == {"charged", "duplicate", "conflict", "failed", "dropped"}

Init ==
    /\ balance = Balance /\ gift \in 0..Gift /\ edit = NoValue
    /\ dedup = [r \in Requests |-> NoFingerprint]
    /\ cache = NoValue /\ sets = {} /\ deducts = 0
    /\ invalidations = 0
    /\ pc = [r \in Requests |-> "check"]
    /\ job = [t \in Turns |-> "none"]
    /\ print = [t \in Turns |-> NoFingerprint]
    /\ inline = {}
    /\ charged = [r \in Requests |-> 0]
    /\ recharges = 0 /\ raced = FALSE /\ faults = 0

Fault == faults < MaxFaults /\ faults' = faults + 1
Goto(r, label) == pc' = [pc EXCEPT ![r] = label]
Set(t, state) == job' = [job EXCEPT ![t] = state]

-----------------------------------------------------------------------------
(* The cached balance *)

CacheRoom == Cardinality(sets) + deducts < CacheQueue

\* Charges that are committed and not yet deducted from the cache.
Undeducted == deducts + Cardinality({t \in Turns : job[t] = "committed"})

\* deductBalanceScript: a key that does not exist is left alone.
Deducted == IF cache = NoValue THEN NoValue ELSE cache - 1

\* cacheWriteWorker.  Ten workers take the tasks, so their order is lost.
WriteSet(v) ==
    /\ v \in sets
    /\ sets' = sets \ {v}
    /\ \/ cache' = v /\ UNCHANGED faults
       \/ Fault /\ UNCHANGED cache
    /\ raced' = (raced \/ v # balance + Undeducted)
    /\ UNCHANGED <<moneyVars, deducts, invalidations, pc, taskVars>>

WriteDeduct ==
    /\ deducts > 0
    /\ deducts' = deducts - 1
    /\ \/ cache' = Deducted /\ raced' = (raced \/ sets # {}) /\ UNCHANGED faults
       \/ Fault /\ raced' = TRUE /\ UNCHANGED cache
    /\ UNCHANGED <<moneyVars, sets, invalidations, pc, taskVars>>

\* Faulty variant: a key without TTL.
CacheStays == FALSE /\ UNCHANGED vars

\* The key's TTL of five minutes; with nothing under way what was amiss is forgotten.
CacheExpires ==
    /\ cache # NoValue
    /\ cache' = NoValue
    /\ raced' = (raced /\ (sets # {} \/ Undeducted # 0))
    /\ UNCHANGED <<moneyVars, sets, deducts, invalidations, pc, taskVars, faults>>

\* A recharge commits; the goroutine that invalidates the cache comes later.
Recharge ==
    /\ recharges < MaxRecharges
    /\ recharges' = recharges + 1
    /\ balance' = balance + 1
    /\ invalidations' = invalidations + 1
    /\ UNCHANGED <<gift, edit, dedup, charged, cacheVars, pc, taskVars, faults>>

\* A refund takes from the balance or gives back, an offline recharge is credited
\* (CreateOfflineRechargeOrder): DeductBalance and UpdateBalance without an invalidation.
Refund ==
    /\ recharges < MaxRecharges
    /\ recharges' = recharges + 1
    /\ balance' \in {balance - 1, balance + 1}
    /\ raced' = (raced \/ cache # NoValue)
    /\ UNCHANGED <<gift, edit, dedup, charged, cache, sets, deducts, invalidations, pc, taskVars>>
    /\ UNCHANGED faults

\* Somebody changes the profile, the password, a setting or the balance of the user, who is
\* read as a whole first (UserService, AuthService, adminServiceImpl).
ReadUser ==
    /\ edit = NoValue /\ recharges < MaxRecharges
    /\ recharges' = recharges + 1 /\ edit' = balance
    /\ UNCHANGED <<balance, gift, dedup, charged, cacheVars, invalidations, pc, taskVars, faults>>

\* UpdateUserBalance, where an administrator changes the balance that was read.
Adjusted == {edit - 1, edit, edit + 1} \cap Nat

\* userRepository.Update writes every column of what was read, the balance among them, and
\* so undoes charges and recharges since; only UpdateUserBalance invalidates the cache.
SaveUser ==
    /\ edit # NoValue /\ edit' = NoValue
    /\ \/ /\ balance' \in Adjusted /\ invalidations' = invalidations + 1
          /\ UNCHANGED <<raced, faults>>
       \/ /\ \/ balance' = edit /\ UNCHANGED faults
             \/ Fault /\ balance' \in Adjusted \cup {balance, edit}
          /\ raced' = (raced \/ (balance' # balance /\ cache # NoValue))
          /\ UNCHANGED invalidations
    /\ UNCHANGED <<gift, dedup, charged, recharges, cache, sets, deducts, pc, taskVars>>

Invalidate ==
    /\ invalidations > 0
    /\ invalidations' = invalidations - 1
    /\ \/ cache' = NoValue /\ raced' = (raced \/ sets # {}) /\ UNCHANGED faults
       \/ Fault /\ raced' = TRUE /\ UNCHANGED cache
    /\ UNCHANGED <<moneyVars, sets, deducts, pc, taskVars>>

-----------------------------------------------------------------------------
(* CheckBillingEligibility, in the balance mode *)

Admit(value) == IF value > 0 THEN "open" ELSE "refused"

\* GetUserBalance: the cache, else the database.
Check(r) ==
    /\ pc[r] = "check"
    /\ \/ cache # NoValue /\ Goto(r, Admit(cache)) /\ UNCHANGED faults
       \/ cache = NoValue /\ Goto(r, "load") /\ UNCHANGED faults
       \/ Fault /\ Goto(r, "load")
    /\ UNCHANGED <<moneyVars, cacheVars, invalidations, taskVars>>

\* balanceLoadSF: those that wait for the balance share one read and one write of the
\* cache, which is dropped when the queue is full.  The gift balance does not count.
Load ==
    LET waiting == {r \in Requests : pc[r] = "load"} IN
    /\ waiting # {}
    /\ pc' = [r \in Requests |-> IF r \in waiting THEN Admit(balance) ELSE pc[r]]
    /\ sets' = IF CacheRoom THEN sets \cup {balance} ELSE sets
    /\ raced' = (raced \/ Undeducted # 0)
    /\ UNCHANGED <<moneyVars, cache, deducts, invalidations, taskVars, faults>>

\* A client that was refused comes again.
Retry(r) ==
    /\ pc[r] = "refused"
    /\ Goto(r, "check")
    /\ UNCHANGED <<moneyVars, cacheVars, invalidations, taskVars, faults>>

-----------------------------------------------------------------------------
(* The usage record pool *)

Turn(r) == Cardinality({i \in 1..MaxTurns[r] : job[<<r, i>>] # "none"}) + 1

\* Submit: into the queue or, when it is full, what the policy says: run it at once, drop it,
\* or one or the other (shouldSyncFallback).
Submitted ==
    IF Cardinality(Queued) < PoolQueue THEN {"queued"}
    ELSE [drop |-> {"dropped"}, sync |-> {"running"},
          sample |-> {"dropped", "running"}][Policy]

\* A turn is answered, and its usage is to be recorded.
Serve(r) ==
    /\ pc[r] = "open" /\ ~Blocked(r) /\ Turn(r) =< MaxTurns[r]
    /\ \E state \in Submitted, fp \in Fingerprints :
        /\ job' = [job EXCEPT ![<<r, Turn(r)>>] = state]
        /\ print' = [print EXCEPT ![<<r, Turn(r)>>] = fp]
        /\ inline' = IF state = "running" THEN inline \cup {<<r, Turn(r)>>} ELSE inline
    /\ UNCHANGED <<moneyVars, cacheVars, invalidations, pc, faults>>

Close(r) ==
    /\ pc[r] = "open" /\ ~Blocked(r)
    /\ Goto(r, "closed")
    /\ UNCHANGED <<moneyVars, cacheVars, invalidations, taskVars, faults>>

Take(t) ==
    /\ job[t] = "queued" /\ Cardinality(Running \ inline) < PoolWorkers
    /\ Set(t, "running")
    /\ UNCHANGED <<moneyVars, cacheVars, invalidations, pc, print, inline, faults>>

-----------------------------------------------------------------------------
(* applyUsageBilling *)

\* Faulty variant: the key is looked up, not claimed.
ClaimByLookup(t) ==
    /\ job[t] = "running"
    /\ Set(t, IF dedup[t[1]] = NoFingerprint THEN "claimed" ELSE "duplicate")
    /\ UNCHANGED <<moneyVars, cacheVars, invalidations, pc, print, inline, faults>>

\* claimUsageBillingKey: the request id is that of the connection.  An insert waits for
\* another transaction that has inserted the same key.
Claim(t) ==
    LET r == t[1] IN
    /\ job[t] = "running"
    /\ \A i \in 1..MaxTurns[r] : job[<<r, i>>] # "claimed"
    /\ \/ dedup[r] = NoFingerprint /\ Set(t, "claimed") /\ UNCHANGED faults
       \/ dedup[r] = print[t] /\ Set(t, "duplicate") /\ UNCHANGED faults
       \/ dedup[r] \notin {NoFingerprint, print[t]} /\ Set(t, "conflict") /\ UNCHANGED faults
       \/ Fault /\ Set(t, "failed")
    /\ UNCHANGED <<moneyVars, cacheVars, invalidations, pc, print, inline>>

\* Faulty variant: the balance pays as long as it lasts.
ChargeBalanceFirst(t) ==
    /\ dedup' = [dedup EXCEPT ![t[1]] = print[t]]
    /\ charged' = [charged EXCEPT ![t[1]] = @ + 1]
    /\ IF gift > 0 /\ balance =< 0 THEN gift' = gift - 1 /\ UNCHANGED balance
                                   ELSE balance' = balance - 1 /\ UNCHANGED gift

\* deductUsageBillingBalance: first the gifts, then, but for what is too small, the balance,
\* which may go below zero.
Charge(t) ==
    /\ dedup' = [dedup EXCEPT ![t[1]] = print[t]]
    /\ charged' = [charged EXCEPT ![t[1]] = @ + 1]
    /\ \/ gift > 0 /\ gift' = gift - 1 /\ UNCHANGED balance
       \/ gift = 0 /\ print[t] \notin Small /\ balance' = balance - 1 /\ UNCHANGED gift
       \/ gift = 0 /\ print[t] \in Small /\ UNCHANGED <<balance, gift>>

\* The transaction commits, fails, or commits although its answer is lost.
Commit(t) ==
    /\ job[t] = "claimed"
    /\ \/ /\ Charge(t) /\ Set(t, "committed")
          /\ raced' = (raced \/ gift > 0 \/ print[t] \in Small)
          /\ UNCHANGED faults
       \/ Fault /\ Charge(t) /\ Set(t, "failed") /\ raced' = TRUE
       \/ Fault /\ Set(t, "failed") /\ UNCHANGED <<balance, gift, dedup, charged, raced>>
    /\ UNCHANGED <<edit, recharges, cache, sets, deducts, invalidations, pc, print, inline>>

\* Faulty variant: the charge that does not fit into the queue is dropped.
FinalizeDrops(t) ==
    /\ job[t] = "committed"
    /\ Set(t, "charged")
    /\ deducts' = IF CacheRoom THEN deducts + 1 ELSE deducts
    /\ UNCHANGED <<moneyVars, cache, sets, raced, invalidations, pc, print, inline, faults>>

\* finalizePostUsageBilling, QueueDeductBalance: when the queue is full, at once.
Finalize(t) ==
    /\ job[t] = "committed"
    /\ Set(t, "charged")
    /\ \/ CacheRoom /\ deducts' = deducts + 1 /\ UNCHANGED <<cache, raced, faults>>
       \/ /\ ~CacheRoom /\ cache' = Deducted /\ raced' = (raced \/ sets # {})
          /\ UNCHANGED <<deducts, faults>>
       \/ ~CacheRoom /\ Fault /\ raced' = TRUE /\ UNCHANGED <<cache, deducts>>
    /\ UNCHANGED <<moneyVars, sets, invalidations, pc, print, inline>>

\* The process dies: queues, connections and open transactions are gone.
Crash ==
    /\ Fault
    /\ pc' = [r \in Requests |-> IF pc[r] = "open" THEN "closed" ELSE "check"]
    /\ job' = [t \in Turns |-> CASE job[t] \in {"queued", "running", "claimed"} -> "dropped"
                                 [] job[t] = "committed" -> "charged"
                                 [] OTHER -> job[t]]
    /\ sets' = {} /\ deducts' = 0 /\ invalidations' = 0 /\ edit' = NoValue
    /\ raced' = (raced \/ Undeducted # 0 \/ invalidations # 0)
    /\ UNCHANGED <<balance, gift, dedup, charged, recharges, cache, print, inline>>

-----------------------------------------------------------------------------
Task(t) == Take(t) \/ Claim(t) \/ Commit(t) \/ Finalize(t)

Next ==
    \/ \E r \in Requests : Check(r) \/ Retry(r) \/ Serve(r) \/ Close(r)
    \/ \E t \in Turns : Task(t)
    \/ \E v \in sets : WriteSet(v)
    \/ Load \/ WriteDeduct \/ CacheExpires \/ Invalidate \/ Crash
    \/ Recharge \/ Refund \/ ReadUser \/ SaveUser

\* The pool and the cache writers run, keys expire, clients come again.
Fairness ==
    /\ \A r \in Requests : WF_vars(Check(r)) /\ WF_vars(Retry(r))
    /\ \A t \in Turns : WF_vars(Task(t))
    /\ WF_vars(Load) /\ WF_vars(WriteDeduct) /\ WF_vars(CacheExpires)
    /\ WF_vars(\E v \in sets : WriteSet(v)) /\ WF_vars(Invalidate)

Spec == Init /\ [][Next]_vars /\ Fairness

-----------------------------------------------------------------------------
(* Properties *)

TypeOK ==
    /\ balance \in Int /\ gift \in 0..Gift /\ edit \in Int \cup {NoValue}
    /\ dedup \in [Requests -> Fingerprints \cup {NoFingerprint}]
    /\ cache \in Int \cup {NoValue} /\ sets \subseteq Int /\ deducts \in 0..CacheQueue
    /\ invalidations \in 0..MaxRecharges /\ recharges \in 0..MaxRecharges
    /\ pc \in [Requests -> {"check", "load", "open", "refused", "closed"}]
    /\ job \in [Turns -> {"none", "queued", "running", "claimed", "committed"} \cup Ended]
    /\ print \in [Turns -> Fingerprints \cup {NoFingerprint}]
    /\ charged \in [Requests -> Nat]
    /\ inline \subseteq Turns
    /\ raced \in BOOLEAN /\ faults \in 0..MaxFaults

\* UsageBillingCommand: "one billable request that must be applied at most once", through
\* concurrent tasks with its request id, commits whose answer is lost and crashes.
AppliedOnce == \A r \in Requests : charged[r] =< 1

\* The state is well formed, and a request is charged at most once.
Inv == TypeOK /\ AppliedOnce

\* The database, seen as the ledger BillingLedger specifies.
Ledger == INSTANCE BillingLedger WITH
    served <- {r \in Requests : \E t \in Turns : t[1] = r /\ job[t] # "none"},
    billed <- dedup

\* The tasks, their claims and their charges are what BillingLedger promises
\* (applyUsageBilling): every charge comes with a new row of the dedup table, for a
\* request that was served, and takes 1 from the gifts before the balance, which pays
\* nothing of a cost that is too small.  Nothing else changes the balance but recharges,
\* refunds and saves of a user read before, which put the balance back (userRepository.Update).
ImplementsLedger == Ledger!Spec

\* Nothing is queued or under way.
Quiet ==
    /\ sets = {} /\ deducts = 0 /\ invalidations = 0
    /\ \A t \in Turns : job[t] \in Ended \cup {"none"}

\* The cached balance is that of the database once the queues are empty: full queues, the
\* order of the writes and expiry keep it so.  The exceptions, until the key expires, are a
\* charge that the gifts paid or that is too small for the row, which the cache deducts all
\* the same; a refund, an offline recharge or a save of a user read before, which do not
\* invalidate it; a read of the balance between a charge and its deduction, or written after
\* it or after an invalidation; a failed write; a crash.
CacheIsExact == Quiet /\ cache # NoValue => cache = balance \/ raced

\* However wrong the cached balance is, a user with money is let in again.
MoneyIsUsable ==
    \A r \in Requests :
        pc[r] = "refused" /\ balance > 0 ~> pc[r] \in {"open", "closed"} \/ balance =< 0

\* README.md: "Token-level usage tracking and cost calculation": where no call fails and no
\* task is dropped, every turn that was answered is charged.
EveryTurnIsCharged == \A t \in Turns : job[t] \notin {"duplicate", "conflict"}
=============================================================================

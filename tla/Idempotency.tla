---------------------------- MODULE Idempotency ----------------------------
(***************************************************************************)
(* IdempotencyCoordinator.Execute (backend/internal/service/idempotency.go) *)
(* over its table (repository/idempotency_repo.go) and its cleanup service. *)
(*                                                                         *)
(* All requests carry the same key in the same scope; records of different *)
(* keys never meet.  A Worker is the handler of one request, a step is one *)
(* SQL statement or the business operation the coordinator guards.  A      *)
(* request reads the clock once, when it starts.                           *)
(***************************************************************************)
EXTENDS IdempotencyTable

CONSTANTS
    Workers,            \* goroutines
    Payloads,           \* request fingerprints
    LongPayloads,       \* those whose response exceeds MaxStoredResponseLen
    NoPayload,          \* the fingerprint of a worker that handles no request
    TTL,                \* how long a record lives
    ProcessingTimeout,
    FailedRetryBackoff,
    MaxNow,             \* bound: the last instant
    Faults,             \* the kinds of failure that may happen
    MaxFaults           \* bound: how many failures happen in one behaviour

\* "store": a statement fails.  "execute": the operation returns an error.
\* "crash": the process dies.
FaultKinds == {"store", "execute", "crash"}

ASSUME PayloadsAssumption == LongPayloads \subseteq Payloads /\ NoPayload \notin Payloads
ASSUME TimesAssumption ==
    /\ TTL \in Nat \ {0} /\ ProcessingTimeout \in Nat \ {0}
    /\ FailedRetryBackoff \in Nat /\ MaxNow \in Nat /\ MaxFaults \in Nat
ASSUME FaultsAssumption == Faults \subseteq FaultKinds

VARIABLES
    row,           \* the record of the key, or NoRow
    nextId,        \* the table's id sequence
    now,           \* the clock
    pc,            \* the statement each worker executes next
    payload,       \* the fingerprint of its request
    started,       \* when it read the clock
    seen,          \* id and status of the record it read and is about to claim
    id,            \* record.ID
    answer,        \* how its last request was answered
    effects,       \* how often the operation took effect, modulo 2
    done,          \* the payloads it took effect for
    coveredUntil,  \* the end of the TTL of the last request that made it take effect
    late,          \* a request outlived its lock before it wrote its result
    stale,         \* a record read as expired was claimed after it had been renewed
    faults         \* failures so far

workerVars == <<pc, payload, started, seen, id, answer>>
ghostVars == <<effects, done, coveredUntil, late, stale>>
vars == <<row, nextId, now, workerVars, ghostVars, faults>>

Records == RecordsOf(Payloads)

\* What a claim of the record has to match.
Claim(r) == [id |-> r.id, status |-> r.status]

\* Every error is "refused": a conflict, in progress, backoff, the store, the operation.
Answers == {"none", "done", "replayed", "refused"}

\* The statements of the request that owns the record.
Owning == {"execute", "markSucceeded", "markFailed"}

Labels == {"idle", "create", "get", "reclaimExpired", "getAgain", "reclaim"} \cup Owning

Init ==
    /\ row = NoRow
    /\ nextId = 1
    /\ now = 1
    /\ pc = [w \in Workers |-> "idle"]
    /\ payload = [w \in Workers |-> NoPayload]
    /\ started = [w \in Workers |-> 0]
    /\ seen = [w \in Workers |-> NoRow]
    /\ id = [w \in Workers |-> 0]
    /\ answer = [w \in Workers |-> "none"]
    /\ effects = 0
    /\ done = {}
    /\ coveredUntil = 0
    /\ late = FALSE
    /\ stale = FALSE
    /\ faults = 0

-----------------------------------------------------------------------------
At(w, label) == pc[w] = label

Goto(w, label) ==
    /\ pc' = [pc EXCEPT ![w] = label]
    /\ UNCHANGED <<payload, started, seen, id, answer>>

\* The request is answered.
Answer(w, a) ==
    /\ pc' = [pc EXCEPT ![w] = "idle"]
    /\ answer' = [answer EXCEPT ![w] = a]
    /\ seen' = [seen EXCEPT ![w] = NoRow]
    /\ id' = [id EXCEPT ![w] = 0]
    /\ started' = [started EXCEPT ![w] = 0]
    /\ UNCHANGED payload

\* The worker owns the record with the given id.
Own(w, i) ==
    /\ pc' = [pc EXCEPT ![w] = "execute"]
    /\ id' = [id EXCEPT ![w] = i]
    /\ seen' = [seen EXCEPT ![w] = NoRow]
    /\ UNCHANGED <<payload, started, answer>>

NoFault == UNCHANGED faults

Fault(kind) ==
    /\ kind \in Faults
    /\ faults < MaxFaults
    /\ faults' = faults + 1

Tick ==
    /\ now < MaxNow
    /\ now' = now + 1
    /\ UNCHANGED <<row, nextId, workerVars, ghostVars, faults>>

-----------------------------------------------------------------------------
(* Execute: claiming the record *)

Start(w, p) ==
    /\ At(w, "idle")
    /\ pc' = [pc EXCEPT ![w] = "create"]
    /\ payload' = [payload EXCEPT ![w] = p]
    /\ started' = [started EXCEPT ![w] = now]
    /\ answer' = [answer EXCEPT ![w] = "none"]
    /\ seen' = [seen EXCEPT ![w] = NoRow]
    /\ UNCHANGED <<row, nextId, now, id, ghostVars, faults>>

NewRecord(w) ==
    NewRow(nextId, payload[w], started[w] + ProcessingTimeout, started[w] + TTL)

\* INSERT ... ON CONFLICT DO NOTHING: one request inserts the record.
CreateProcessing(w) ==
    /\ At(w, "create")
    /\ \/ /\ row = NoRow
          /\ row' = NewRecord(w)
          /\ nextId' = nextId + 1
          /\ Own(w, nextId)
          /\ NoFault
       \/ /\ row # NoRow
          /\ Goto(w, "get")
          /\ NoFault
          /\ UNCHANGED <<row, nextId>>
       \/ /\ Fault("store")
          /\ Answer(w, "refused")
          /\ UNCHANGED <<row, nextId>>
    /\ UNCHANGED <<now, ghostVars>>

\* Faulty variant: a processing record whose lock timed out is up for grabs.
DecideStealing(w, r) ==
    \/ r.status = "succeeded" /\ Answer(w, "replayed")
    \/ r.status = "processing" /\ r.locked > started[w] /\ Answer(w, "refused")
    \/ /\ r.status # "succeeded" /\ r.locked =< started[w]
       /\ pc' = [pc EXCEPT ![w] = "reclaim"]
       /\ seen' = [seen EXCEPT ![w] = Claim(r)]
       /\ UNCHANGED <<payload, started, id, answer>>

\* marshalStoredResponse cuts off a long response, which decodeStoredResponse then
\* cannot read.
Decodable(p) == p \notin LongPayloads

\* The switch over the status of the record that was read.
Decide(w, r) ==
    \/ /\ r.status = "succeeded"
       /\ Answer(w, IF Decodable(payload[w]) THEN "replayed" ELSE "refused")
    \/ r.status = "processing" /\ Answer(w, "refused")
    \/ r.status = "failed_retryable" /\ r.locked > started[w] /\ Answer(w, "refused")
    \/ /\ r.status = "failed_retryable" /\ r.locked =< started[w]
       /\ pc' = [pc EXCEPT ![w] = "reclaim"]
       /\ seen' = [seen EXCEPT ![w] = Claim(r)]
       /\ UNCHANGED <<payload, started, id, answer>>

\* Faulty variant: the fingerprint is not compared.
GetExistingAnyPayload(w) ==
    /\ At(w, "get")
    /\ \/ row = NoRow /\ Answer(w, "refused")
       \/ row # NoRow /\ row.expires > started[w] /\ Decide(w, row)
    /\ NoFault
    /\ UNCHANGED <<row, nextId, now, ghostVars>>

GetExisting(w) ==
    /\ At(w, "get")
    /\ \/ row = NoRow /\ Answer(w, "refused") /\ NoFault
       \/ row # NoRow /\ row.fp # payload[w] /\ Answer(w, "refused") /\ NoFault
       \/ /\ row # NoRow /\ row.fp = payload[w]
          /\ IF row.expires =< started[w]
             THEN /\ pc' = [pc EXCEPT ![w] = "reclaimExpired"]
                  /\ seen' = [seen EXCEPT ![w] = Claim(row)]
                  /\ UNCHANGED <<payload, started, id, answer>>
             ELSE Decide(w, row)
          /\ NoFault
       \/ Fault("store") /\ Answer(w, "refused")
    /\ UNCHANGED <<row, nextId, now, ghostVars>>

Claimable(w) == Matches(row, seen[w].id, seen[w].status, started[w])

TryReclaim(w) ==
    /\ Claimable(w)
    /\ row' = Reclaimed(row, started[w] + ProcessingTimeout, started[w] + TTL)
    /\ Own(w, seen[w].id)

\* A record that was read as expired is claimed; failing that, it is read again.
ReclaimExpired(w) ==
    /\ At(w, "reclaimExpired")
    /\ \/ TryReclaim(w) /\ stale' = (stale \/ row.expires > started[w]) /\ NoFault
       \/ ~Claimable(w) /\ Goto(w, "getAgain") /\ NoFault /\ UNCHANGED <<row, stale>>
       \/ Fault("store") /\ Answer(w, "refused") /\ UNCHANGED <<row, stale>>
    /\ UNCHANGED <<nextId, now, effects, done, coveredUntil, late>>

GetAgain(w) ==
    /\ At(w, "getAgain")
    /\ \/ row = NoRow /\ Answer(w, "refused") /\ NoFault
       \/ row # NoRow /\ row.fp # payload[w] /\ Answer(w, "refused") /\ NoFault
       \/ row # NoRow /\ row.fp = payload[w] /\ Decide(w, row) /\ NoFault
       \/ Fault("store") /\ Answer(w, "refused")
    /\ UNCHANGED <<row, nextId, now, ghostVars>>

\* A record that was read as failed is claimed.
Reclaim(w) ==
    /\ At(w, "reclaim")
    /\ \/ TryReclaim(w) /\ NoFault
       \/ ~Claimable(w) /\ Answer(w, "refused") /\ NoFault /\ UNCHANGED row
       \/ Fault("store") /\ Answer(w, "refused") /\ UNCHANGED row
    /\ UNCHANGED <<nextId, now, ghostVars>>

-----------------------------------------------------------------------------
(* Execute: the operation and its result *)

ExecuteOperation(w) ==
    /\ At(w, "execute")
    /\ \/ /\ effects' = 1 - effects
          /\ done' = done \cup {payload[w]}
          /\ coveredUntil' = started[w] + TTL
          /\ Goto(w, "markSucceeded")
          /\ NoFault
       \/ /\ Fault("execute")
          /\ Goto(w, "markFailed")
          /\ UNCHANGED <<effects, done, coveredUntil>>
    /\ UNCHANGED <<row, nextId, now, late, stale>>

\* The processing lock of the request timed out.
Overran(w) == now >= started[w] + ProcessingTimeout

\* The results are written to the record with the worker's id.
WriteResult(w, s, locked) ==
    /\ row' = Marked(row, id[w], s, locked, started[w] + TTL)
    /\ late' = (late \/ Overran(w))

MarkSucceeded(w) ==
    /\ At(w, "markSucceeded")
    /\ \/ WriteResult(w, "succeeded", 0) /\ Answer(w, "done") /\ NoFault
       \/ Fault("store") /\ Answer(w, "refused") /\ UNCHANGED <<row, late>>
    /\ UNCHANGED <<nextId, now, effects, done, coveredUntil, stale>>

\* An error of MarkFailedRetryable is dropped.
MarkFailedRetryable(w) ==
    /\ At(w, "markFailed")
    /\ \/ WriteResult(w, "failed_retryable", now + FailedRetryBackoff) /\ NoFault
       \/ Fault("store") /\ UNCHANGED <<row, late>>
    /\ Answer(w, "refused")
    /\ UNCHANGED <<nextId, now, effects, done, coveredUntil, stale>>

-----------------------------------------------------------------------------
\* cleanupOnce deletes an expired record.
DeleteExpired ==
    /\ IsExpired(row, now)
    /\ row' = NoRow
    /\ UNCHANGED <<nextId, now, workerVars, ghostVars, faults>>

\* The process dies; what it wrote stays, and so may what the operation did.
Crash(w) ==
    /\ pc[w] # "idle"
    /\ Fault("crash")
    /\ Answer(w, "refused")
    /\ UNCHANGED <<row, nextId, now, ghostVars>>

Step(w) ==
    \/ CreateProcessing(w) \/ GetExisting(w) \/ ReclaimExpired(w) \/ GetAgain(w) \/ Reclaim(w)
    \/ ExecuteOperation(w) \/ MarkSucceeded(w) \/ MarkFailedRetryable(w)

Next ==
    \/ \E w \in Workers :
        \/ \E p \in Payloads : Start(w, p)
        \/ Step(w) \/ Crash(w)
    \/ Tick \/ DeleteExpired

Spec == Init /\ [][Next]_vars

-----------------------------------------------------------------------------
(* Properties *)

TypeOK ==
    /\ row \in Records \cup {NoRow}
    /\ nextId \in Nat
    /\ now \in Nat
    /\ pc \in [Workers -> Labels]
    /\ payload \in [Workers -> Payloads \cup {NoPayload}]
    /\ started \in [Workers -> Nat]
    /\ seen \in [Workers -> [id : Nat, status : RecordStatuses] \cup {NoRow}]
    /\ id \in [Workers -> Nat]
    /\ answer \in [Workers -> Answers]
    /\ effects \in {0, 1}
    /\ done \subseteq Payloads
    /\ coveredUntil \in Nat
    /\ late \in BOOLEAN /\ stale \in BOOLEAN
    /\ faults \in Nat

\* A second request runs the operation beside a first one only
\* after the first has outlived its lock: Get and the UPDATE of TryReclaim, each
\* with a clock of its own, never let two in at once.
AloneWithinLock ==
    late \/ \A u, v \in Workers :
        u # v /\ pc[u] \in Owning /\ pc[v] \in Owning => Overran(u) \/ Overran(v)

\* A replayed answer is that of a request with the same payload whose operation
\* took effect: never another payload's, never that of a run that failed.
ReplayIsOwn == \A w \in Workers : answer[w] = "replayed" => payload[w] \in done

\* The state is well formed, and what is replayed is the caller's own result.
Inv == TypeOK /\ ReplayIsOwn

\* The result that MarkSucceeded stored is there to be replayed until it expires: of the
\* requests that read the record before, failed, timed out or retry none writes or claims it
\* again, and the cleanup keeps it, unless a request writes its result after its lock or
\* claims what it had read as expired.
ResultStays ==
    [][row # NoRow /\ row.status = "succeeded" /\ now < row.expires
            => row' = row \/ late' \/ stale']_vars

\* w runs the operation although its record may have expired by now.
RunsExpired(w) ==
    pc[w] = "execute" /\ pc'[w] = "markSucceeded" /\ now >= started[w] + TTL

\* idempotency_test.go: "concurrent same-key requests should execute business
\* side-effect once": not again before the TTL of the last time has passed, through
\* retries, backoff, lost results, crashes, expiry and the cleanup.  There are three ways
\* out.  A request is so slow that its own record expires.  A late MarkSucceeded puts the
\* expiry of a newer owner's record back to its own.  And the UPDATE of TryReclaim looks
\* at status and lock but not at the expiry: of two requests that read the same expired
\* record, the second can claim it after the first has succeeded.
OnceUnlessStale ==
    [][effects' # effects =>
        now >= coveredUntil \/ stale \/ late \/ \E w \in Workers : RunsExpired(w)]_vars
=============================================================================

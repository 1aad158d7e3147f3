------------------------ MODULE SystemOperationLock ------------------------
(***************************************************************************)
(* SystemOperationLockService                                              *)
(* (backend/internal/service/system_operation_lock_service.go): the lock an *)
(* update, a rollback or a restart of the system holds while it runs        *)
(* (handler/admin/system_handler.go), a lease on one idempotency record that *)
(* a goroutine renews.                                                     *)
(*                                                                         *)
(* A Worker is the handler of one operation, a step is one SQL statement.  *)
(* The clock counts renewal intervals.                                     *)
(***************************************************************************)
EXTENDS IdempotencyTable

CONSTANTS
    Workers,        \* handlers of admin requests
    Operations,     \* operation ids: a retry of a request has the same
    NoOperation,    \* the operation of a worker that handles no request
    Lease,          \* in renewal intervals: three, in the code
    TTL,            \* how long the record lives
    MaxNow,         \* bound: the last instant
    Faults,         \* the kinds of failure that may happen
    MaxFaults       \* bound: how many failures happen in one behaviour

\* "store": a statement fails.  "operation": the operation fails.
\* "crash": the process dies.
FaultKinds == {"store", "operation", "crash"}

ASSUME TimesAssumption ==
    /\ Lease \in Nat \ {0} /\ TTL \in Nat \ {0}
    /\ MaxNow \in Nat /\ MaxFaults \in Nat
ASSUME OperationsAssumption == NoOperation \notin Operations /\ Faults \subseteq FaultKinds

VARIABLES
    row,         \* the record of the lock, or NoRow
    nextId,      \* the table's id sequence
    now,         \* the clock
    pc,          \* what each worker does next
    operation,   \* operationID
    started,     \* when it read the clock
    seen,        \* the record it read, while it matters
    recordID,    \* lock.recordID
    renewing,    \* its renewLoop runs
    due,         \* the ticker of its renewLoop fired
    leaseEnd,    \* the locked_until it wrote last
    foreign,     \* those that hold a record another operation created
    slow,        \* a statement took longer than a renewal interval
    late,        \* a worker wrote to the record after its lease ended
    faults       \* failures so far

workerVars == <<pc, operation, started, seen, recordID>>
loopVars == <<renewing, due, leaseEnd, foreign>>
vars == <<row, nextId, now, workerVars, loopVars, slow, late, faults>>

Records == RecordsOf(Operations)

Labels == {"idle", "create", "get", "reclaim", "held", "releaseOk", "releaseFailed"}

\* The statements of a worker that has the lock.
Holding == {"held", "releaseOk", "releaseFailed"}

Init ==
    /\ row = NoRow
    /\ nextId = 1
    /\ now = 1
    /\ pc = [w \in Workers |-> "idle"]
    /\ operation = [w \in Workers |-> NoOperation]
    /\ started = [w \in Workers |-> 0]
    /\ seen = [w \in Workers |-> NoRow]
    /\ recordID = [w \in Workers |-> 0]
    /\ renewing = [w \in Workers |-> FALSE]
    /\ due = [w \in Workers |-> FALSE]
    /\ leaseEnd = [w \in Workers |-> 0]
    /\ foreign = {}
    /\ slow = FALSE /\ late = FALSE
    /\ faults = 0

-----------------------------------------------------------------------------
At(w, label) == pc[w] = label

Goto(w, label) ==
    /\ pc' = [pc EXCEPT ![w] = label]
    /\ UNCHANGED <<operation, started, seen, recordID>>

\* The request is answered; its renewLoop, if any, has stopped.
Finish(w) ==
    /\ pc' = [pc EXCEPT ![w] = "idle"]
    /\ operation' = [operation EXCEPT ![w] = NoOperation]
    /\ started' = [started EXCEPT ![w] = 0]
    /\ seen' = [seen EXCEPT ![w] = NoRow]
    /\ recordID' = [recordID EXCEPT ![w] = 0]
    /\ renewing' = [renewing EXCEPT ![w] = FALSE]
    /\ due' = [due EXCEPT ![w] = FALSE]
    /\ leaseEnd' = [leaseEnd EXCEPT ![w] = 0]
    /\ foreign' = foreign \ {w}

NoFault == UNCHANGED faults

Fault(kind) ==
    /\ kind \in Faults
    /\ faults < MaxFaults
    /\ faults' = faults + 1

\* The statements of the last renewal interval are through.
Timely == \A w \in Workers : ~due[w] /\ pc[w] \in {"idle", "held"}

\* A renewal interval passes and the tickers fire.
Tick ==
    /\ now < MaxNow
    /\ slow' = (slow \/ ~Timely)
    /\ now' = now + 1
    /\ due' = renewing
    /\ UNCHANGED <<row, nextId, workerVars, renewing, leaseEnd, foreign, late, faults>>

-----------------------------------------------------------------------------
(* Acquire *)

Acquire(w, o) ==
    /\ At(w, "idle")
    /\ pc' = [pc EXCEPT ![w] = "create"]
    /\ operation' = [operation EXCEPT ![w] = o]
    /\ started' = [started EXCEPT ![w] = now]
    /\ UNCHANGED <<row, nextId, now, seen, recordID, loopVars, slow, late, faults>>

\* Acquire returns the lock on record i and starts its renewLoop.
Hold(w, i) ==
    /\ pc' = [pc EXCEPT ![w] = "held"]
    /\ recordID' = [recordID EXCEPT ![w] = i]
    /\ seen' = [seen EXCEPT ![w] = NoRow]
    /\ renewing' = [renewing EXCEPT ![w] = TRUE]
    /\ leaseEnd' = [leaseEnd EXCEPT ![w] = started[w] + Lease]
    /\ foreign' = IF row'.fp = operation[w] THEN foreign ELSE foreign \cup {w}
    /\ UNCHANGED <<operation, started, due>>

CreateProcessing(w) ==
    /\ At(w, "create")
    /\ \/ /\ row = NoRow
          /\ row' = NewRow(nextId, operation[w], started[w] + Lease, started[w] + TTL)
          /\ nextId' = nextId + 1
          /\ Hold(w, nextId)
          /\ NoFault
       \/ /\ row # NoRow
          /\ Goto(w, "get")
          /\ NoFault
          /\ UNCHANGED <<row, nextId, loopVars>>
       \/ Fault("store") /\ Finish(w) /\ UNCHANGED <<row, nextId>>
    /\ UNCHANGED <<now, slow, late>>

Busy(w) == row.status = "processing" /\ row.locked > started[w]

\* A record that is gone, or processing with a lock that holds, refuses the request.
GetExisting(w) ==
    /\ At(w, "get")
    /\ \/ row = NoRow /\ Finish(w) /\ NoFault
       \/ row # NoRow /\ Busy(w) /\ Finish(w) /\ NoFault
       \/ /\ row # NoRow /\ ~Busy(w)
          /\ pc' = [pc EXCEPT ![w] = "reclaim"]
          /\ seen' = [seen EXCEPT ![w] = row]
          /\ NoFault
          /\ UNCHANGED <<operation, started, recordID, loopVars>>
       \/ Fault("store") /\ Finish(w)
    /\ UNCHANGED <<row, nextId, now, slow, late>>

\* The record read after a lost race only words the refusal.
Reclaim(w) ==
    /\ At(w, "reclaim")
    /\ \/ /\ Matches(row, seen[w].id, seen[w].status, started[w])
          /\ row' = Reclaimed(row, started[w] + Lease, started[w] + TTL)
          /\ Hold(w, seen[w].id)
          /\ NoFault
       \/ /\ ~Matches(row, seen[w].id, seen[w].status, started[w])
          /\ Finish(w) /\ NoFault /\ UNCHANGED row
       \/ Fault("store") /\ Finish(w) /\ UNCHANGED row
    /\ UNCHANGED <<nextId, now, slow, late>>

-----------------------------------------------------------------------------
(* renewLoop *)

\* The worker's lease ended.
Lapsed(w) == leaseEnd[w] =< now

\* A renewal by a worker whose lease ended may keep somebody else's lock.
Extend(w) ==
    /\ IsProcessing(row, recordID[w], operation[w])
    /\ row' = Extended(row, now + Lease, now + TTL)
    /\ leaseEnd' = [leaseEnd EXCEPT ![w] = now + Lease]
    /\ late' = (late \/ Lapsed(w))

\* Faulty variant: a failed statement ends the loop.
RenewGivesUp(w) ==
    /\ renewing[w] /\ due[w]
    /\ \/ Extend(w) /\ NoFault /\ UNCHANGED renewing
       \/ /\ Fault("store")
          /\ renewing' = [renewing EXCEPT ![w] = FALSE]
          /\ UNCHANGED <<row, leaseEnd, late>>
    /\ due' = [due EXCEPT ![w] = FALSE]
    /\ UNCHANGED <<nextId, now, workerVars, foreign, slow>>

\* The loop goes on after an error, and returns when the record is not its own.
Renew(w) ==
    /\ renewing[w] /\ due[w]
    /\ \/ Extend(w) /\ NoFault /\ UNCHANGED renewing
       \/ /\ ~IsProcessing(row, recordID[w], operation[w])
          /\ renewing' = [renewing EXCEPT ![w] = FALSE]
          /\ NoFault
          /\ UNCHANGED <<row, leaseEnd, late>>
       \/ Fault("store") /\ UNCHANGED <<row, renewing, leaseEnd, late>>
    /\ due' = [due EXCEPT ![w] = FALSE]
    /\ UNCHANGED <<nextId, now, workerVars, foreign, slow>>

-----------------------------------------------------------------------------
(* Release *)

\* The operation is through: Release stops the renewLoop before it writes.
EndOperation(w) ==
    /\ At(w, "held")
    /\ \/ Goto(w, "releaseOk") /\ NoFault
       \/ Goto(w, "releaseFailed") /\ Fault("operation")
    /\ renewing' = [renewing EXCEPT ![w] = FALSE]
    /\ due' = [due EXCEPT ![w] = FALSE]
    /\ UNCHANGED <<row, nextId, now, leaseEnd, foreign, slow, late>>

\* The handler drops an error of Release.
Release(w, label, status, locked) ==
    /\ At(w, label)
    /\ \/ /\ row' = Marked(row, recordID[w], status, locked, now + TTL)
          /\ late' = (late \/ Lapsed(w))
          /\ NoFault
       \/ Fault("store") /\ UNCHANGED <<row, late>>
    /\ Finish(w)
    /\ UNCHANGED <<nextId, now, slow>>

ReleaseSucceeded(w) == Release(w, "releaseOk", "succeeded", 0)

ReleaseFailed(w) == Release(w, "releaseFailed", "failed_retryable", now)

-----------------------------------------------------------------------------
\* The cleanup of the idempotency records.
DeleteExpired ==
    /\ IsExpired(row, now)
    /\ row' = NoRow
    /\ UNCHANGED <<nextId, now, workerVars, loopVars, slow, late, faults>>

\* The process dies, and its renewLoop with it.
Crash(w) ==
    /\ pc[w] # "idle"
    /\ Fault("crash")
    /\ Finish(w)
    /\ UNCHANGED <<row, nextId, now, slow, late>>

Next ==
    \/ \E w \in Workers :
        \/ \E o \in Operations : Acquire(w, o)
        \/ CreateProcessing(w) \/ GetExisting(w) \/ Reclaim(w)
        \/ Renew(w) \/ EndOperation(w) \/ ReleaseSucceeded(w) \/ ReleaseFailed(w)
        \/ Crash(w)
    \/ Tick \/ DeleteExpired

Spec == Init /\ [][Next]_vars

-----------------------------------------------------------------------------
(* Properties *)

TypeOK ==
    /\ row \in Records \cup {NoRow}
    /\ nextId \in Nat /\ now \in Nat /\ faults \in Nat
    /\ pc \in [Workers -> Labels]
    /\ operation \in [Workers -> Operations \cup {NoOperation}]
    /\ started \in [Workers -> Nat]
    /\ seen \in [Workers -> Records \cup {NoRow}]
    /\ recordID \in [Workers -> Nat]
    /\ renewing \in [Workers -> BOOLEAN]
    /\ due \in [Workers -> BOOLEAN]
    /\ leaseEnd \in [Workers -> Nat]
    /\ foreign \subseteq Workers
    /\ slow \in BOOLEAN /\ late \in BOOLEAN

\* As long as statements are timely and no two renewals fail in a row, a lease outlasts its
\* operation.  The exception is an operation that claimed the record of an earlier one:
\* TryReclaim does not write the fingerprint that ExtendProcessingLock compares, so the
\* renewal matches no row and the lease ends under the operation.
LeaseOutlastsOperation ==
    slow \/ late \/ \A w \in Workers : pc[w] \in Holding /\ Lapsed(w) => w \in foreign

\* The state is well formed, and a lease outlasts its operation.
Inv == TypeOK /\ LeaseOutlastsOperation

\* ErrSystemOperationBusy, "another system operation is in progress": however slow the
\* statements are, two operations run side by side only after one
\* of them lost its lease, and a release or a renewal that comes late is the only
\* way to lose a lease before its end.
OverlapNeedsLapse ==
    late \/ \A u, v \in Workers :
        u # v /\ pc[u] \in Holding /\ pc[v] \in Holding => Lapsed(u) \/ Lapsed(v)
=============================================================================

---------------------- MODULE SystemOperationLockProofs ----------------------
(***************************************************************************)
(* Proofs about SystemOperationLock, for any number of workers and         *)
(* operations, any lease and TTL, and any number of faults.                *)
(***************************************************************************)
EXTENDS SystemOperationLock, TLAPS

-----------------------------------------------------------------------------
(* The inductive invariant *)

\* TypeOK in the parts about the table and about the workers.
TableType ==
    /\ row \in Records \cup {NoRow}
    /\ nextId \in Nat \ {0} /\ now \in Nat /\ faults \in 0..MaxFaults
    /\ slow \in BOOLEAN /\ late \in BOOLEAN

WorkerType ==
    /\ pc \in [Workers -> Labels]
    /\ operation \in [Workers -> Operations \cup {NoOperation}]
    /\ started \in [Workers -> Nat]
    /\ seen \in [Workers -> Records \cup {NoRow}]
    /\ recordID \in [Workers -> Nat]

LoopType ==
    /\ renewing \in [Workers -> BOOLEAN]
    /\ due \in [Workers -> BOOLEAN]
    /\ leaseEnd \in [Workers -> Nat]
    /\ foreign \subseteq Workers

\* The ids that are around were handed out by the table; a holder has one.  A request read
\* the clock before, and has an operation.
IdsKnown ==
    /\ row # NoRow => row.id > 0 /\ row.id < nextId
    /\ \A w \in Workers :
        /\ recordID[w] < nextId
        /\ recordID[w] > 0 <=> pc[w] \in Holding
        /\ pc[w] = "reclaim" => seen[w] # NoRow
        /\ pc[w] # "idle" => operation[w] \in Operations
        /\ started[w] =< now

\* A holder that is not foreign finds its own operation in its record.
OwnOperation ==
    row # NoRow => \A w \in Workers :
        recordID[w] = row.id /\ w \notin foreign => row.fp = operation[w]

IInv == TableType /\ WorkerType /\ LoopType /\ IdsKnown /\ OwnOperation

\* While its lease runs, a holder has the record as it wrote it last, and the leases of all
\* others are over.
LeaseHeld ==
    ~late => \A w \in Workers : pc[w] \in Holding /\ ~Lapsed(w) =>
        /\ row # NoRow /\ row.id = recordID[w] /\ row.status = "processing"
        /\ row.locked = leaseEnd[w] /\ leaseEnd[w] =< row.expires
        /\ \A v \in Workers : v # w /\ pc[v] \in Holding => Lapsed(v)

\* With timely statements a request reads the clock in the interval in which it claims the
\* record, and its loop renews the lease in each later one but those with a fault.
RenewedBy(w) ==
    /\ pc[w] \in {"create", "get", "reclaim"} => started[w] = now
    /\ pc[w] \in Holding /\ w \notin foreign =>
        /\ pc[w] = "held" => renewing[w]
        /\ IF pc[w] = "held" /\ ~due[w]
           THEN leaseEnd[w] + faults >= now + Lease
           ELSE leaseEnd[w] + faults + 1 >= now + Lease

Renewed == ~slow /\ ~late => \A w \in Workers : RenewedBy(w)

-----------------------------------------------------------------------------
(* The rows *)

\* What the statements write is a record; all but the first keep its id and fingerprint.
LEMMA NewRowIs ==
    ASSUME NEW i \in Nat \ {0}, NEW fp \in Operations, NEW locked \in Nat, NEW expires \in Nat
    PROVE  LET r == NewRow(i, fp, locked, expires) IN
           /\ r \in Records /\ r # NoRow
           /\ r.id = i /\ r.fp = fp /\ r.status = "processing"
           /\ r.locked = locked /\ r.expires = expires
BY DEF NewRow, NoRow, Records, RecordsOf, RecordStatuses

\* TryReclaim writes all but the id and the fingerprint.
LEMMA ReclaimedIs ==
    ASSUME NEW r \in Records, r.id > 0, NEW locked \in Nat, NEW expires \in Nat
    PROVE  LET s == Reclaimed(r, locked, expires) IN
           /\ s \in Records /\ s # NoRow
           /\ s.id = r.id /\ s.fp = r.fp /\ s.status = "processing"
           /\ s.locked = locked /\ s.expires = expires
BY DEF Reclaimed, NoRow, Records, RecordsOf, RecordStatuses

\* ExtendProcessingLock writes the two times.
LEMMA ExtendedIs ==
    ASSUME NEW r \in Records, r.id > 0, NEW locked \in Nat, NEW expires \in Nat
    PROVE  LET s == Extended(r, locked, expires) IN
           /\ s \in Records /\ s # NoRow
           /\ s.id = r.id /\ s.fp = r.fp /\ s.status = r.status
           /\ s.locked = locked /\ s.expires = expires
BY DEF Extended, NoRow, Records, RecordsOf

\* A release writes the record with its id, and nothing when that is gone.
LEMMA MarkedIs ==
    ASSUME NEW r \in Records \cup {NoRow}, r # NoRow => r.id > 0, NEW i \in Nat \ {0},
           NEW status \in RecordStatuses, NEW locked \in Nat, NEW expires \in Nat
    PROVE  LET s == Marked(r, i, status, locked, expires) IN
           /\ s \in Records \cup {NoRow} /\ (s # NoRow <=> r # NoRow)
           /\ r # NoRow => s.id = r.id /\ s.fp = r.fp
           /\ r.id # i => s = r
<1>1. CASE r = NoRow
  BY <1>1 DEF Marked, NoRow
<1>2. CASE r # NoRow /\ r.id = i
  BY <1>2 DEF Marked, NoRow, Records, RecordsOf, RecordStatuses
<1>3. CASE r # NoRow /\ r.id # i
  BY <1>3 DEF Marked
<1> QED
  BY <1>1, <1>2, <1>3

-----------------------------------------------------------------------------
(* What the parts of the actions do *)

\* A worker that is answered has nothing any more.
LEMMA Finished ==
    ASSUME IInv, NEW w \in Workers, Finish(w)
    PROVE  /\ WorkerType' /\ LoopType'
           /\ pc'[w] = "idle" /\ started'[w] = 0 /\ recordID'[w] = 0
           /\ \A v \in Workers \ {w} :
                /\ pc'[v] = pc[v] /\ operation'[v] = operation[v] /\ started'[v] = started[v]
                /\ seen'[v] = seen[v] /\ recordID'[v] = recordID[v]
                /\ renewing'[v] = renewing[v] /\ due'[v] = due[v] /\ leaseEnd'[v] = leaseEnd[v]
                /\ v \in foreign' <=> v \in foreign
BY DEF Finish, IInv, WorkerType, LoopType, Labels

\* Acquire succeeds: the lease ends when the record says so.
LEMMA Held ==
    ASSUME IInv, NEW w \in Workers, NEW i \in Nat, Hold(w, i)
    PROVE  /\ WorkerType' /\ LoopType'
           /\ pc'[w] = "held" /\ recordID'[w] = i /\ renewing'[w]
           /\ leaseEnd'[w] = started[w] + Lease
           /\ w \in foreign \/ w \in foreign' \/ row'.fp = operation[w]
           /\ w \notin foreign' => row'.fp = operation[w]
           /\ UNCHANGED <<operation, started, due>>
           /\ \A v \in Workers \ {w} :
                /\ pc'[v] = pc[v] /\ seen'[v] = seen[v] /\ recordID'[v] = recordID[v]
                /\ renewing'[v] = renewing[v] /\ leaseEnd'[v] = leaseEnd[v]
                /\ v \in foreign' <=> v \in foreign
BY TimesAssumption DEF Hold, IInv, WorkerType, LoopType, Labels

\* The bound on the faults holds.
LEMMA FaultType ==
    ASSUME TableType, NEW k, Fault(k) \/ NoFault
    PROVE  faults' \in 0..MaxFaults /\ faults =< faults'
BY TimesAssumption DEF Fault, NoFault, TableType

\* A step that writes nothing keeps the table.
LEMMA TableStays ==
    ASSUME IInv, UNCHANGED <<row, nextId, now, slow, late>>, NEW k, Fault(k) \/ NoFault
    PROVE  TableType'
BY FaultType DEF IInv, TableType

-----------------------------------------------------------------------------
(* The steps and the well-formed state *)

\* A request is refused, or its process dies.
LEMMA FinishKeeps ==
    ASSUME IInv, NEW w \in Workers, Finish(w), UNCHANGED <<row, nextId, now, slow, late>>,
           NEW k, Fault(k) \/ NoFault
    PROVE  IInv'
<1>1. TableType'
  BY TableStays
<1>2. WorkerType' /\ LoopType'
  BY Finished
<1>3. IdsKnown'
  BY Finished DEF IInv, IdsKnown, TableType, Holding
<1>4. OwnOperation'
  BY Finished DEF IInv, OwnOperation, IdsKnown, TableType
<1> QED
  BY <1>1, <1>2, <1>3, <1>4 DEF IInv

\* A request begins and reads the clock.
LEMMA AcquireKeeps ==
    ASSUME IInv, NEW w \in Workers, NEW o \in Operations, Acquire(w, o)
    PROVE  IInv'
<1> USE DEF Acquire, At, loopVars
<1>1. TableType' /\ LoopType'
  BY DEF IInv, TableType, LoopType
<1>2. WorkerType'
  BY DEF IInv, TableType, WorkerType, Labels
<1>3. IdsKnown'
  BY DEF IInv, TableType, WorkerType, IdsKnown, Holding
<1>4. OwnOperation'
  BY DEF IInv, TableType, WorkerType, IdsKnown, OwnOperation, Holding
<1> QED
  BY <1>1, <1>2, <1>3, <1>4 DEF IInv

\* A worker takes the lock with a record that has its id.
LEMMA HoldKeeps ==
    ASSUME IInv, NEW w \in Workers, NEW i \in Nat \ {0}, Hold(w, i), NoFault,
           pc[w] # "idle", row' \in Records, row' # NoRow, row'.id = i,
           nextId' \in Nat, nextId =< nextId', i < nextId',
           i = nextId \/ (row # NoRow /\ row.id = i /\ row'.fp = row.fp),
           UNCHANGED <<now, slow, late>>
    PROVE  IInv'
<1>1. TableType'
  BY DEF IInv, TableType, NoFault
<1>2. WorkerType' /\ LoopType'
  BY Held
<1>3. IdsKnown'
  BY Held DEF IInv, IdsKnown, TableType, WorkerType, Holding
<1>4. OwnOperation'
  BY Held DEF IInv, OwnOperation, IdsKnown, TableType, WorkerType
<1> QED
  BY <1>1, <1>2, <1>3, <1>4 DEF IInv

\* INSERT ... ON CONFLICT DO NOTHING: one request inserts the record.
LEMMA CreateKeeps ==
    ASSUME IInv, NEW w \in Workers, CreateProcessing(w)
    PROVE  IInv'
<1>1. pc[w] = "create" /\ UNCHANGED <<now, slow, late>>
  BY DEF CreateProcessing, At
<1>2. CASE /\ row = NoRow /\ nextId' = nextId + 1 /\ Hold(w, nextId) /\ NoFault
           /\ row' = NewRow(nextId, operation[w], started[w] + Lease, started[w] + TTL)
  <2>1. /\ nextId \in Nat \ {0} /\ operation[w] \in Operations
        /\ started[w] + Lease \in Nat /\ started[w] + TTL \in Nat
    BY <1>1, TimesAssumption DEF IInv, TableType, WorkerType, IdsKnown
  <2>2. row' \in Records /\ row' # NoRow /\ row'.id = nextId
    BY <1>2, <2>1, NewRowIs
  <2> QED
    BY <1>1, <1>2, <2>1, <2>2, HoldKeeps
<1>3. CASE Goto(w, "get") /\ NoFault /\ UNCHANGED <<row, nextId, loopVars>>
  <2>1. TableType' /\ LoopType'
    BY <1>1, <1>3 DEF loopVars, NoFault, IInv, TableType, LoopType
  <2>2. WorkerType'
    BY <1>3 DEF Goto, IInv, WorkerType, Labels
  <2>3. IdsKnown'
    BY <1>1, <1>3 DEF Goto, IInv, WorkerType, IdsKnown, Holding
  <2>4. OwnOperation'
    BY <1>3 DEF Goto, loopVars, IInv, OwnOperation
  <2> QED
    BY <2>1, <2>2, <2>3, <2>4 DEF IInv
<1>4. CASE Fault("store") /\ Finish(w) /\ UNCHANGED <<row, nextId>>
  BY <1>1, <1>4, FinishKeeps
<1> QED
  BY <1>2, <1>3, <1>4 DEF CreateProcessing

\* The record is read, and refuses the request or is going to be claimed.
LEMMA GetKeeps ==
    ASSUME IInv, NEW w \in Workers, GetExisting(w)
    PROVE  IInv'
<1>1. pc[w] = "get" /\ UNCHANGED <<row, nextId, now, slow, late>>
  BY DEF GetExisting, At
<1>2. CASE Finish(w) /\ (NoFault \/ Fault("store"))
  BY <1>1, <1>2, FinishKeeps
<1>3. CASE /\ row # NoRow /\ pc' = [pc EXCEPT ![w] = "reclaim"]
           /\ seen' = [seen EXCEPT ![w] = row] /\ NoFault
           /\ UNCHANGED <<operation, started, recordID, loopVars>>
  <2>1. TableType' /\ LoopType'
    BY <1>1, <1>3 DEF loopVars, NoFault, IInv, TableType, LoopType
  <2>2. WorkerType'
    BY <1>3 DEF IInv, TableType, WorkerType, Labels
  <2>3. IdsKnown'
    BY <1>1, <1>3 DEF IInv, WorkerType, IdsKnown, Holding
  <2>4. OwnOperation'
    BY <1>1, <1>3 DEF loopVars, IInv, OwnOperation
  <2> QED
    BY <2>1, <2>2, <2>3, <2>4 DEF IInv
<1> QED
  BY <1>2, <1>3 DEF GetExisting

\* TryReclaim claims the record that was read, or finds it changed.
LEMMA ReclaimKeeps ==
    ASSUME IInv, NEW w \in Workers, Reclaim(w)
    PROVE  IInv'
<1>1. pc[w] = "reclaim" /\ UNCHANGED <<nextId, now, slow, late>>
  BY DEF Reclaim, At
<1>2. CASE /\ Matches(row, seen[w].id, seen[w].status, started[w])
           /\ row' = Reclaimed(row, started[w] + Lease, started[w] + TTL)
           /\ Hold(w, seen[w].id) /\ NoFault
  <2>1. /\ row # NoRow /\ row \in Records /\ row.id = seen[w].id
        /\ row.id \in Nat \ {0} /\ row.id < nextId
        /\ started[w] + Lease \in Nat /\ started[w] + TTL \in Nat
    BY <1>2, TimesAssumption
    DEF Matches, IInv, TableType, WorkerType, IdsKnown, Records, RecordsOf
  <2>2. row' \in Records /\ row' # NoRow /\ row'.id = row.id /\ row'.fp = row.fp
    BY <1>2, <2>1, ReclaimedIs
  <2>3. nextId' \in Nat /\ nextId =< nextId' /\ row.id < nextId'
    BY <1>1, <2>1 DEF IInv, TableType
  <2>4. Hold(w, row.id)
    BY <1>2, <2>1
  <2> QED
    BY <1>1, <1>2, <2>1, <2>2, <2>3, <2>4, HoldKeeps
<1>3. CASE Finish(w) /\ (NoFault \/ Fault("store")) /\ UNCHANGED row
  BY <1>1, <1>3, FinishKeeps
<1> QED
  BY <1>2, <1>3 DEF Reclaim

\* A turn of renewLoop.
LEMMA RenewKeeps ==
    ASSUME IInv, NEW w \in Workers, Renew(w)
    PROVE  IInv'
<1>1. UNCHANGED <<nextId, now, workerVars, foreign, slow>> /\ due' = [due EXCEPT ![w] = FALSE]
  BY DEF Renew
<1>2. faults' \in 0..MaxFaults
  BY FaultType DEF Renew, IInv
<1>3. late' \in BOOLEAN
  BY DEF Renew, Extend, IInv, TableType
<1>4. /\ row' \in Records \cup {NoRow} /\ (row' # NoRow <=> row # NoRow)
      /\ row # NoRow => row'.id = row.id /\ row'.fp = row.fp
  <2>1. CASE Extend(w)
    <3>1. /\ row # NoRow /\ row \in Records /\ row.id > 0
          /\ now + Lease \in Nat /\ now + TTL \in Nat
      BY <2>1, TimesAssumption DEF Extend, IsProcessing, IInv, TableType, IdsKnown
    <3> QED
      BY <2>1, <3>1, ExtendedIs DEF Extend
  <2> QED
    BY <2>1 DEF Renew, IInv, TableType
<1>5. TableType'
  BY <1>1, <1>2, <1>3, <1>4 DEF IInv, TableType
<1>6. WorkerType'
  BY <1>1 DEF workerVars, IInv, WorkerType
<1>7. leaseEnd' \in [Workers -> Nat] /\ renewing' \in [Workers -> BOOLEAN]
  <2>1. now + Lease \in Nat
    BY TimesAssumption DEF IInv, TableType
  <2>2. leaseEnd' = leaseEnd \/ leaseEnd' = [leaseEnd EXCEPT ![w] = now + Lease]
    BY DEF Renew, Extend
  <2>3. renewing' = renewing \/ renewing' = [renewing EXCEPT ![w] = FALSE]
    BY DEF Renew
  <2> QED
    BY <2>1, <2>2, <2>3 DEF IInv, LoopType
<1>8. LoopType'
  BY <1>1, <1>7 DEF IInv, LoopType
<1>9. IdsKnown' /\ OwnOperation'
  BY <1>1, <1>4 DEF workerVars, IInv, IdsKnown, OwnOperation
<1> QED
  BY <1>5, <1>6, <1>8, <1>9 DEF IInv

\* The operation is through and renewLoop stopped.
LEMMA EndKeeps ==
    ASSUME IInv, NEW w \in Workers, EndOperation(w)
    PROVE  IInv'
<1>1. /\ pc[w] = "held" /\ UNCHANGED <<row, nextId, now, leaseEnd, foreign, slow, late>>
      /\ UNCHANGED <<operation, started, seen, recordID>>
      /\ renewing' = [renewing EXCEPT ![w] = FALSE] /\ due' = [due EXCEPT ![w] = FALSE]
  BY DEF EndOperation, At, Goto
<1>2. PICK label \in {"releaseOk", "releaseFailed"} : pc' = [pc EXCEPT ![w] = label]
  BY DEF EndOperation, Goto
<1>3. TableType'
  BY <1>1, TableStays DEF EndOperation
<1>4. WorkerType' /\ LoopType'
  BY <1>1, <1>2 DEF IInv, WorkerType, LoopType, Labels
<1>5. IdsKnown'
  BY <1>1, <1>2 DEF IInv, WorkerType, IdsKnown, Holding
<1>6. OwnOperation'
  BY <1>1 DEF IInv, OwnOperation
<1> QED
  BY <1>3, <1>4, <1>5, <1>6 DEF IInv

\* Release writes to the record with the id of the lock.
LEMMA ReleaseKeeps ==
    ASSUME IInv, NEW w \in Workers, NEW label \in {"releaseOk", "releaseFailed"},
           NEW status \in RecordStatuses, NEW locked \in Nat, Release(w, label, status, locked)
    PROVE  IInv'
<1>1. pc[w] = label /\ Finish(w) /\ UNCHANGED <<nextId, now, slow>>
  BY DEF Release, At
<1>2. CASE Fault("store") /\ UNCHANGED <<row, late>>
  BY <1>1, <1>2, FinishKeeps
<1>3. CASE /\ row' = Marked(row, recordID[w], status, locked, now + TTL)
           /\ late' = (late \/ Lapsed(w)) /\ NoFault
  <2>1. /\ row \in Records \cup {NoRow} /\ (row # NoRow => row.id > 0)
        /\ recordID[w] \in Nat \ {0} /\ now + TTL \in Nat
    BY <1>1, TimesAssumption DEF IInv, TableType, WorkerType, IdsKnown, Holding
  <2>2. /\ row' \in Records \cup {NoRow} /\ (row' # NoRow <=> row # NoRow)
        /\ row # NoRow => row'.id = row.id /\ row'.fp = row.fp
    BY <1>3, <2>1, MarkedIs
  <2>3. late' \in BOOLEAN
    BY <1>3
  <2>4. TableType'
    BY <1>1, <1>3, <2>2, <2>3 DEF NoFault, IInv, TableType
  <2>5. WorkerType' /\ LoopType'
    BY <1>1, Finished
  <2>6. IdsKnown'
    BY <1>1, <2>2, Finished DEF IInv, IdsKnown, TableType, Holding
  <2>7. OwnOperation'
    BY <1>1, <2>2, Finished DEF IInv, OwnOperation, IdsKnown, TableType
  <2> QED
    BY <2>4, <2>5, <2>6, <2>7 DEF IInv
<1> QED
  BY <1>2, <1>3 DEF Release

\* A renewal interval passes.
LEMMA TickKeeps ==
    ASSUME IInv, Tick
    PROVE  IInv'
<1>1. /\ UNCHANGED <<row, nextId, pc, operation, started, seen, recordID>>
      /\ UNCHANGED <<renewing, leaseEnd, foreign, late, faults>> /\ due' = renewing
  BY DEF Tick, workerVars
<1>2. slow' \in BOOLEAN
  BY DEF Tick
<1>3. now' \in Nat /\ now =< now'
  BY DEF Tick, IInv, TableType
<1>4. TableType' /\ WorkerType' /\ LoopType'
  BY <1>1, <1>2, <1>3 DEF IInv, TableType, WorkerType, LoopType
<1>5. IdsKnown' /\ OwnOperation'
  BY <1>1, <1>3 DEF IInv, TableType, WorkerType, IdsKnown, OwnOperation
<1> QED
  BY <1>4, <1>5 DEF IInv

\* Every step keeps the invariant.
LEMMA NextKeeps ==
    ASSUME IInv, [Next]_vars
    PROVE  IInv'
<1>1. CASE UNCHANGED vars
  BY <1>1
  DEF vars, workerVars, loopVars, IInv, TableType, WorkerType, LoopType, IdsKnown, OwnOperation
<1>2. CASE DeleteExpired
  BY <1>2
  DEF DeleteExpired, workerVars, loopVars, IInv, TableType, WorkerType, LoopType, IdsKnown,
      OwnOperation
<1>3. ASSUME NEW w \in Workers, Crash(w) PROVE IInv'
  BY <1>3, FinishKeeps DEF Crash
<1>4. ASSUME NEW w \in Workers, ReleaseSucceeded(w) \/ ReleaseFailed(w) PROVE IInv'
  <2>1. 0 \in Nat /\ now \in Nat
    BY DEF IInv, TableType
  <2> QED
    BY <1>4, <2>1, ReleaseKeeps DEF ReleaseSucceeded, ReleaseFailed, RecordStatuses
<1> QED
  BY <1>1, <1>2, <1>3, <1>4, AcquireKeeps, CreateKeeps, GetKeeps, ReclaimKeeps, RenewKeeps,
     EndKeeps, TickKeeps
  DEF Next

\* At first there is no record and no request.
LEMMA InitIInv == Init => IInv
<1> SUFFICES ASSUME Init PROVE IInv
  OBVIOUS
<1>1. 0 \in Nat /\ 1 \in Nat \ {0} /\ 0 < 1 /\ 0 \in 0..MaxFaults
  BY TimesAssumption
<1>2. slow \in BOOLEAN /\ late \in BOOLEAN
  BY DEF Init
<1>3. TableType
  BY <1>1, <1>2 DEF Init, TableType
<1>4. WorkerType /\ LoopType
  BY <1>1 DEF Init, WorkerType, LoopType, Labels
<1>5. IdsKnown /\ OwnOperation
  BY DEF Init, IdsKnown, OwnOperation, Holding
<1> QED
  BY <1>3, <1>4, <1>5 DEF IInv

\* The inductive invariant; the properties need more, which it carries.
THEOREM Invariance == Spec => []IInv
BY InitIInv, NextKeeps, PTL DEF Spec

-----------------------------------------------------------------------------
(* The lease *)

\* A step that leaves the record alone, and gives nobody a lease.
LEMMA LeaseStays ==
    ASSUME IInv, IInv', LeaseHeld, ~late' => ~late, now =< now', row' = row,
           \A v \in Workers : pc'[v] \in Holding =>
                /\ pc[v] \in Holding
                /\ leaseEnd'[v] = leaseEnd[v] /\ recordID'[v] = recordID[v]
    PROVE  LeaseHeld'
<1>1. \A v \in Workers : leaseEnd[v] \in Nat /\ now \in Nat /\ now' \in Nat
  BY DEF IInv, LoopType, TableType
<1>2. \A v \in Workers : pc'[v] \in Holding /\ Lapsed(v) => Lapsed(v)'
  BY <1>1 DEF Lapsed
<1> QED
  BY <1>2 DEF LeaseHeld

\* A request that is refused, or whose process dies, leaves the leases of others alone.
LEMMA FinishLease ==
    ASSUME IInv, IInv', LeaseHeld, NEW w \in Workers, Finish(w), UNCHANGED <<row, now, late>>
    PROVE  LeaseHeld'
<1>1. now \in Nat
  BY DEF IInv, TableType
<1> QED
  BY <1>1, Finished, LeaseStays DEF Holding

\* A worker takes the lock when the leases of all others are over.
LEMMA HoldLease ==
    ASSUME IInv, IInv', LeaseHeld, NEW w \in Workers, NEW i \in Nat, Hold(w, i), Lease =< TTL,
           row' # NoRow, row'.id = i, row'.status = "processing",
           row'.locked = started[w] + Lease, row'.expires = started[w] + TTL,
           UNCHANGED <<now, late>>,
           ~late => \A v \in Workers : pc[v] \in Holding => Lapsed(v)
    PROVE  LeaseHeld'
<1>1. started[w] \in Nat /\ started[w] + Lease =< started[w] + TTL
  BY TimesAssumption DEF IInv, WorkerType
<1>2. \A v \in Workers \ {w} : ~late /\ pc'[v] \in Holding => Lapsed(v)'
  BY Held DEF Lapsed
<1> QED
  BY <1>1, <1>2, Held DEF LeaseHeld

\* A record that is new is nobody else's.
LEMMA CreateLease ==
    ASSUME IInv, IInv', LeaseHeld, Lease =< TTL, NEW w \in Workers, CreateProcessing(w)
    PROVE  LeaseHeld'
<1>1. pc[w] = "create" /\ UNCHANGED <<now, slow, late>>
  BY DEF CreateProcessing, At
<1>2. CASE /\ row = NoRow /\ nextId' = nextId + 1 /\ Hold(w, nextId) /\ NoFault
           /\ row' = NewRow(nextId, operation[w], started[w] + Lease, started[w] + TTL)
  <2>1. /\ nextId \in Nat \ {0} /\ operation[w] \in Operations
        /\ started[w] + Lease \in Nat /\ started[w] + TTL \in Nat
    BY <1>1, TimesAssumption DEF IInv, TableType, WorkerType, IdsKnown
  <2>2. /\ row' # NoRow /\ row'.id = nextId /\ row'.status = "processing"
        /\ row'.locked = started[w] + Lease /\ row'.expires = started[w] + TTL
    BY <1>2, <2>1, NewRowIs
  <2>3. ~late => \A v \in Workers : pc[v] \in Holding => Lapsed(v)
    BY <1>2 DEF LeaseHeld
  <2> QED
    BY <1>1, <1>2, <2>1, <2>2, <2>3, HoldLease
<1>3. CASE Goto(w, "get") /\ UNCHANGED <<row, nextId, loopVars>>
  <2>1. \A v \in Workers : pc'[v] \in Holding => pc[v] \in Holding
    BY <1>3 DEF Goto, IInv, WorkerType, Holding
  <2>2. now \in Nat
    BY DEF IInv, TableType
  <2> QED
    BY <1>1, <1>3, <2>1, <2>2, LeaseStays DEF Goto, loopVars
<1>4. CASE Finish(w) /\ UNCHANGED <<row, nextId>>
  BY <1>1, <1>4, FinishLease
<1> QED
  BY <1>2, <1>3, <1>4 DEF CreateProcessing

\* TryReclaim finds the lock over, and so are the leases of those that still hold it.
LEMMA ReclaimLease ==
    ASSUME IInv, IInv', LeaseHeld, Lease =< TTL, NEW w \in Workers, Reclaim(w)
    PROVE  LeaseHeld'
<1>1. pc[w] = "reclaim" /\ UNCHANGED <<nextId, now, slow, late>>
  BY DEF Reclaim, At
<1>2. CASE /\ Matches(row, seen[w].id, seen[w].status, started[w])
           /\ row' = Reclaimed(row, started[w] + Lease, started[w] + TTL)
           /\ Hold(w, seen[w].id) /\ NoFault
  <2>1. /\ row # NoRow /\ row \in Records /\ row.id = seen[w].id /\ row.locked =< started[w]
        /\ row.id \in Nat /\ row.id > 0
        /\ started[w] + Lease \in Nat /\ started[w] + TTL \in Nat
    BY <1>2, TimesAssumption
    DEF Matches, IInv, TableType, WorkerType, IdsKnown, Records, RecordsOf
  <2>2. /\ row' # NoRow /\ row'.id = row.id /\ row'.status = "processing"
        /\ row'.locked = started[w] + Lease /\ row'.expires = started[w] + TTL
    BY <1>2, <2>1, ReclaimedIs
  <2>3. ~late => \A v \in Workers : pc[v] \in Holding => Lapsed(v)
    <3> SUFFICES ASSUME ~late, NEW v \in Workers, pc[v] \in Holding, ~Lapsed(v)
                 PROVE  FALSE
      OBVIOUS
    <3>1. row.locked = leaseEnd[v]
      BY DEF LeaseHeld
    <3>2. started[w] =< now /\ started[w] \in Nat /\ now \in Nat /\ leaseEnd[v] \in Nat
      BY DEF IInv, TableType, WorkerType, LoopType, IdsKnown
    <3> QED
      BY <2>1, <3>1, <3>2 DEF Lapsed
  <2>4. Hold(w, row.id)
    BY <1>2, <2>1
  <2> QED
    BY <1>1, <2>1, <2>2, <2>3, <2>4, HoldLease
<1>3. CASE Finish(w) /\ UNCHANGED row
  BY <1>1, <1>3, FinishLease
<1> QED
  BY <1>2, <1>3 DEF Reclaim

\* A renewal within the lease moves its end and that of the lock.
LEMMA RenewLease ==
    ASSUME IInv, IInv', LeaseHeld, Lease =< TTL, NEW w \in Workers, Renew(w)
    PROVE  LeaseHeld'
<1>1. UNCHANGED <<nextId, now, workerVars, foreign, slow>> /\ now \in Nat
  BY DEF Renew, IInv, TableType
<1>2. CASE UNCHANGED <<row, leaseEnd, late>>
  BY <1>1, <1>2, LeaseStays DEF workerVars
<1>3. CASE Extend(w)
  <2>1. /\ row # NoRow /\ row \in Records /\ row.id > 0 /\ row.id = recordID[w]
        /\ row.status = "processing" /\ now + Lease \in Nat /\ now + TTL \in Nat
        /\ now + Lease =< now + TTL
    BY <1>3, TimesAssumption DEF Extend, IsProcessing, IInv, TableType, IdsKnown
  <2>2. /\ row' # NoRow /\ row'.id = row.id /\ row'.status = "processing"
        /\ row'.locked = now + Lease /\ row'.expires = now + TTL
    BY <1>3, <2>1, ExtendedIs DEF Extend
  <2>3. /\ leaseEnd'[w] = now + Lease
        /\ \A v \in Workers \ {w} : leaseEnd'[v] = leaseEnd[v]
    BY <1>3 DEF Extend, IInv, LoopType
  <2>4. ~late' => ~late /\ ~Lapsed(w)
    BY <1>3 DEF Extend
  <2>5. pc[w] \in Holding
    BY <2>1 DEF IInv, IdsKnown
  <2>6. ~late' => \A v \in Workers : v # w /\ pc[v] \in Holding => Lapsed(v)
    BY <2>4, <2>5 DEF LeaseHeld
  <2>7. ~late' => \A v \in Workers : v # w /\ pc'[v] \in Holding => Lapsed(v)'
    BY <1>1, <2>3, <2>6 DEF Lapsed, workerVars
  <2> QED
    BY <1>1, <2>1, <2>2, <2>3, <2>7 DEF LeaseHeld, workerVars
<1> QED
  BY <1>2, <1>3 DEF Renew

\* The worker keeps its lease while it releases the lock.
LEMMA EndLease ==
    ASSUME IInv, IInv', LeaseHeld, NEW w \in Workers, EndOperation(w)
    PROVE  LeaseHeld'
<1>1. /\ pc[w] = "held" /\ UNCHANGED <<row, now, late, leaseEnd, recordID>>
      /\ \A v \in Workers \ {w} : pc'[v] = pc[v]
  BY DEF EndOperation, At, Goto, IInv, WorkerType
<1>2. now \in Nat
  BY DEF IInv, TableType
<1> QED
  BY <1>1, <1>2, LeaseStays DEF Holding

\* A release within the lease writes to a record that nobody else has a lease on.
LEMMA ReleaseLease ==
    ASSUME IInv, IInv', LeaseHeld, NEW w \in Workers,
           NEW label \in {"releaseOk", "releaseFailed"},
           NEW status \in RecordStatuses, NEW locked \in Nat, Release(w, label, status, locked)
    PROVE  LeaseHeld'
<1>1. pc[w] = label /\ Finish(w) /\ UNCHANGED <<nextId, now, slow>>
  BY DEF Release, At
<1>2. CASE UNCHANGED <<row, late>>
  BY <1>1, <1>2, FinishLease
<1>3. CASE late' = (late \/ Lapsed(w))
  <2>1. ~late' => ~late /\ ~Lapsed(w)
    BY <1>3
  <2>2. ~late' => \A v \in Workers : v # w /\ pc[v] \in Holding => Lapsed(v)
    BY <1>1, <2>1 DEF LeaseHeld, Holding
  <2>3. \A v \in Workers : pc'[v] \in Holding =>
            v # w /\ pc[v] \in Holding /\ leaseEnd'[v] = leaseEnd[v]
    BY <1>1, Finished DEF Holding
  <2> QED
    BY <1>1, <2>2, <2>3 DEF LeaseHeld, Lapsed
<1> QED
  BY <1>2, <1>3 DEF Release

\* The cleanup deletes the record after its expiry, and the leases are over by then.
LEMMA NextLease ==
    ASSUME IInv, IInv', LeaseHeld, [Next]_vars, Lease =< TTL
    PROVE  LeaseHeld'
<1>1. now \in Nat
  BY DEF IInv, TableType
<1>2. CASE UNCHANGED vars
  BY <1>1, <1>2, LeaseStays DEF vars, workerVars, loopVars
<1>3. CASE DeleteExpired
  <2>1. row # NoRow /\ row.expires =< now /\ row.expires \in Nat
    BY <1>3 DEF DeleteExpired, IsExpired, IInv, TableType, Records, RecordsOf
  <2>2. ~late => \A v \in Workers : pc[v] \in Holding => Lapsed(v)
    BY <1>1, <2>1 DEF LeaseHeld, Lapsed, IInv, LoopType
  <2>3. UNCHANGED <<now, pc, leaseEnd, late>>
    BY <1>3 DEF DeleteExpired, workerVars, loopVars
  <2> QED
    BY <2>2, <2>3 DEF LeaseHeld, Lapsed
<1>4. CASE Tick
  BY <1>1, <1>4, LeaseStays DEF Tick, workerVars
<1>5. ASSUME NEW w \in Workers, NEW o \in Operations, Acquire(w, o) PROVE LeaseHeld'
  <2>1. \A v \in Workers : pc'[v] \in Holding => pc[v] \in Holding
    BY <1>5 DEF Acquire, IInv, WorkerType, Holding
  <2>2. UNCHANGED <<row, now, leaseEnd, recordID, late>>
    BY <1>5 DEF Acquire, loopVars, IInv, TableType
  <2> QED
    BY <1>1, <2>1, <2>2, LeaseStays
<1>6. ASSUME NEW w \in Workers, GetExisting(w) PROVE LeaseHeld'
  <2>1. CASE Finish(w)
    BY <1>6, <2>1, FinishLease DEF GetExisting
  <2>2. CASE pc' = [pc EXCEPT ![w] = "reclaim"] /\ UNCHANGED <<recordID, loopVars>>
    <3>1. \A v \in Workers : pc'[v] \in Holding => pc[v] \in Holding
      BY <2>2 DEF IInv, WorkerType, Holding
    <3>2. UNCHANGED <<row, now, leaseEnd, recordID, late>>
      BY <1>6, <2>2 DEF GetExisting, loopVars
    <3> QED
      BY <1>1, <3>1, <3>2, LeaseStays
  <2> QED
    BY <1>6, <2>1, <2>2 DEF GetExisting
<1>7. ASSUME NEW w \in Workers, Crash(w) PROVE LeaseHeld'
  BY <1>7, FinishLease DEF Crash
<1>8. ASSUME NEW w \in Workers, ReleaseSucceeded(w) \/ ReleaseFailed(w) PROVE LeaseHeld'
  BY <1>1, <1>8, ReleaseLease DEF ReleaseSucceeded, ReleaseFailed, RecordStatuses
<1> QED
  BY <1>2, <1>3, <1>4, <1>5, <1>6, <1>7, <1>8, CreateLease, ReclaimLease, RenewLease, EndLease
  DEF Next

\* Two operations run side by side only after the lease of one of them ended, if a lease is
\* not configured to outlast its record.
THEOREM OverlapLapses ==
    Lease =< TTL => (Spec => []OverlapNeedsLapse)
<1> SUFFICES ASSUME Lease =< TTL PROVE Spec => []OverlapNeedsLapse
  OBVIOUS
<1>1. Init => LeaseHeld
  BY DEF Init, LeaseHeld, Holding
<1>2. IInv /\ IInv' /\ LeaseHeld /\ [Next]_vars => LeaseHeld'
  BY NextLease
<1>3. IInv /\ LeaseHeld => OverlapNeedsLapse
  BY DEF LeaseHeld, OverlapNeedsLapse
<1> QED
  BY <1>1, <1>2, <1>3, Invariance, PTL DEF Spec

-----------------------------------------------------------------------------
(* The lease outlasts the operation *)

\* A lease that is renewed has not ended: fewer renewals have failed than it lasts.
LEMMA RenewedLasts ==
    ASSUME IInv, Renewed, ~slow, ~late, MaxFaults + 1 < Lease,
           NEW w \in Workers, pc[w] \in Holding, w \notin foreign
    PROVE  ~Lapsed(w)
<1>1. leaseEnd[w] \in Nat /\ now \in Nat /\ faults \in Nat /\ faults =< MaxFaults
  BY TimesAssumption DEF IInv, TableType, LoopType
<1>2. leaseEnd[w] + faults + 1 >= now + Lease
  BY <1>1, TimesAssumption DEF Renewed, RenewedBy
<1> QED
  BY <1>1, <1>2, TimesAssumption DEF Lapsed

\* A worker that a step leaves alone stays renewed.
LEMMA OthersRenewed ==
    ASSUME IInv, IInv', Renewed, ~slow, ~late, now' = now, faults =< faults',
           NEW v \in Workers, pc'[v] = pc[v], started'[v] = started[v],
           renewing'[v] = renewing[v], due'[v] = due[v], leaseEnd'[v] = leaseEnd[v],
           v \in foreign' <=> v \in foreign
    PROVE  RenewedBy(v)'
<1>1. leaseEnd[v] \in Nat /\ now \in Nat /\ faults \in Nat /\ faults' \in Nat
  BY TimesAssumption DEF IInv, TableType, LoopType
<1>2. RenewedBy(v)
  BY DEF Renewed, RenewedBy
<1> QED
  BY <1>1, <1>2, TimesAssumption DEF RenewedBy

\* A step of a worker leaves the others alone.
LEMMA OthersStay ==
    ASSUME IInv, NEW w \in Workers,
           \/ \E o \in Operations : Acquire(w, o)
           \/ CreateProcessing(w) \/ GetExisting(w) \/ Reclaim(w) \/ Renew(w)
           \/ EndOperation(w) \/ ReleaseSucceeded(w) \/ ReleaseFailed(w) \/ Crash(w)
    PROVE  /\ now' = now /\ faults =< faults' /\ slow' = slow /\ (~late' => ~late)
           /\ \A v \in Workers \ {w} :
                /\ pc'[v] = pc[v] /\ started'[v] = started[v]
                /\ renewing'[v] = renewing[v] /\ due'[v] = due[v] /\ leaseEnd'[v] = leaseEnd[v]
                /\ v \in foreign' <=> v \in foreign
<1> USE DEF IInv, TableType, WorkerType, LoopType, NoFault, Fault
<1>1. CASE \E o \in Operations : Acquire(w, o)
  BY <1>1 DEF Acquire, loopVars
<1>2. CASE CreateProcessing(w)
  BY <1>2 DEF CreateProcessing, Hold, Goto, Finish, loopVars
<1>3. CASE GetExisting(w)
  BY <1>3 DEF GetExisting, Finish, loopVars
<1>4. CASE Reclaim(w)
  BY <1>4 DEF Reclaim, Hold, Finish
<1>5. CASE Renew(w)
  BY <1>5 DEF Renew, Extend, workerVars
<1>6. CASE EndOperation(w)
  BY <1>6 DEF EndOperation, Goto
<1>7. CASE ReleaseSucceeded(w) \/ ReleaseFailed(w)
  BY <1>7 DEF ReleaseSucceeded, ReleaseFailed, Release, Finish
<1>8. CASE Crash(w)
  BY <1>8 DEF Crash, Finish
<1> QED
  BY <1>1, <1>2, <1>3, <1>4, <1>5, <1>6, <1>7, <1>8

\* The loop of a worker that holds its own record finds it, so it goes on: with each
\* interval it gains one or has a fault.
LEMMA RenewRenews ==
    ASSUME IInv, IInv', LeaseHeld, Renewed, ~slow, ~late, MaxFaults + 1 < Lease,
           NEW w \in Workers, Renew(w)
    PROVE  RenewedBy(w)'
<1>1. /\ UNCHANGED <<now, workerVars, foreign>> /\ due[w] /\ ~due'[w]
  BY DEF Renew, IInv, LoopType
<1>2. leaseEnd[w] \in Nat /\ now \in Nat /\ faults \in Nat
  BY TimesAssumption DEF IInv, TableType, LoopType
<1>3. RenewedBy(w)
  BY DEF Renewed, RenewedBy
<1>4. pc[w] \in {"create", "get", "reclaim"} => pc[w] \notin Holding
  BY DEF Holding
<1>5. CASE pc[w] \in Holding /\ w \notin foreign
  <2>1. IsProcessing(row, recordID[w], operation[w])
    BY <1>5, RenewedLasts DEF LeaseHeld, IInv, OwnOperation, IsProcessing
  <2>2. CASE Extend(w) /\ NoFault /\ UNCHANGED renewing
    <3>1. leaseEnd'[w] = now + Lease
      BY <2>2 DEF Extend, IInv, LoopType
    <3> QED
      BY <1>1, <1>2, <1>3, <1>4, <1>5, <2>2, <3>1, TimesAssumption
      DEF RenewedBy, workerVars, NoFault
  <2>3. CASE Fault("store") /\ UNCHANGED <<renewing, leaseEnd>>
    BY <1>1, <1>2, <1>3, <1>4, <1>5, <2>3, TimesAssumption DEF RenewedBy, workerVars, Fault
  <2> QED
    BY <2>1, <2>2, <2>3 DEF Renew
<1>6. CASE ~(pc[w] \in Holding /\ w \notin foreign)
  BY <1>1, <1>3, <1>6 DEF RenewedBy, workerVars
<1> QED
  BY <1>5, <1>6

\* Each statement of a worker keeps its own lease renewed.
LEMMA WorkerRenewed ==
    ASSUME IInv, IInv', LeaseHeld, Renewed, ~slow, ~late, MaxFaults + 1 < Lease,
           NEW w \in Workers,
           \/ \E o \in Operations : Acquire(w, o)
           \/ CreateProcessing(w) \/ GetExisting(w) \/ Reclaim(w) \/ Renew(w)
           \/ EndOperation(w) \/ ReleaseSucceeded(w) \/ ReleaseFailed(w) \/ Crash(w)
    PROVE  RenewedBy(w)'
<1>1. RenewedBy(w) /\ (pc[w] \in {"create", "get", "reclaim"} => pc[w] \notin Holding)
  BY DEF Renewed, RenewedBy, Holding
<1>2. leaseEnd[w] \in Nat /\ now \in Nat /\ faults \in Nat /\ faults' \in Nat
  BY TimesAssumption DEF IInv, TableType, LoopType
<1>3. CASE Finish(w)
  BY <1>3, Finished DEF RenewedBy, Holding
<1>4. CASE \E i \in Nat : Hold(w, i) /\ pc[w] \in {"create", "reclaim"} /\ now' = now
  <2>1. PICK i \in Nat : Hold(w, i)
    BY <1>4
  <2>2. leaseEnd'[w] = now + Lease
    BY <1>1, <1>4, <2>1, Held DEF RenewedBy
  <2>3. pc'[w] = "held" /\ renewing'[w]
    BY <2>1, Held
  <2>4. leaseEnd'[w] + faults' >= now' + Lease /\ leaseEnd'[w] + faults' + 1 >= now' + Lease
    BY <1>2, <1>4, <2>2, TimesAssumption
  <2> QED
    BY <2>3, <2>4 DEF RenewedBy
<1>5. CASE \E o \in Operations : Acquire(w, o)
  BY <1>5 DEF Acquire, IInv, WorkerType, RenewedBy, Holding
<1>6. CASE CreateProcessing(w)
  <2>1. CASE Goto(w, "get")
    BY <1>1, <1>6, <2>1 DEF CreateProcessing, At, Goto, IInv, WorkerType, RenewedBy, Holding
  <2>2. nextId \in Nat
    BY DEF IInv, TableType
  <2> QED
    BY <1>3, <1>4, <1>6, <2>1, <2>2 DEF CreateProcessing, At
<1>7. CASE GetExisting(w)
  <2>1. CASE pc' = [pc EXCEPT ![w] = "reclaim"] /\ UNCHANGED started
    BY <1>1, <1>7, <2>1 DEF GetExisting, At, IInv, WorkerType, RenewedBy, Holding
  <2> QED
    BY <1>3, <1>7, <2>1 DEF GetExisting
<1>8. CASE Reclaim(w)
  <2>1. CASE Hold(w, seen[w].id) /\ Matches(row, seen[w].id, seen[w].status, started[w])
    <3>1. seen[w].id \in Nat
      BY <2>1 DEF Matches, IInv, TableType, Records, RecordsOf
    <3> QED
      BY <1>4, <1>8, <2>1, <3>1 DEF Reclaim, At
  <2> QED
    BY <1>3, <1>8, <2>1 DEF Reclaim
<1>9. CASE EndOperation(w)
  <2>1. /\ pc[w] = "held" /\ pc'[w] \in {"releaseOk", "releaseFailed"}
        /\ UNCHANGED <<now, leaseEnd, foreign>> /\ faults =< faults'
    BY <1>2, <1>9, OthersStay DEF EndOperation, At, Goto, IInv, WorkerType
  <2>2. w \notin foreign => leaseEnd[w] + faults + 1 >= now + Lease
    BY <1>1, <1>2, <2>1, TimesAssumption DEF RenewedBy, Holding
  <2> QED
    BY <1>2, <2>1, <2>2, TimesAssumption DEF RenewedBy
<1>10. CASE ReleaseSucceeded(w) \/ ReleaseFailed(w) \/ Crash(w)
  BY <1>3, <1>10 DEF ReleaseSucceeded, ReleaseFailed, Release, Crash
<1> QED
  BY <1>5, <1>6, <1>7, <1>8, <1>9, <1>10, RenewRenews

\* The clock goes on when the renewals of the last interval are through.
LEMMA TickRenewed ==
    ASSUME IInv, IInv', Renewed, Tick
    PROVE  Renewed'
<1> SUFFICES ASSUME ~slow', ~late', NEW w \in Workers PROVE RenewedBy(w)'
  BY DEF Renewed, RenewedBy
<1>1. ~slow /\ ~late /\ Timely
  BY DEF Tick
<1>2. RenewedBy(w) /\ ~due[w] /\ pc[w] \in {"idle", "held"}
  BY <1>1 DEF Renewed, RenewedBy, Timely
<1>3. /\ UNCHANGED <<pc, leaseEnd, foreign, renewing, faults>> /\ due' = renewing
      /\ now' = now + 1
  BY DEF Tick, workerVars
<1>4. leaseEnd[w] \in Nat /\ now \in Nat /\ faults \in Nat
  BY TimesAssumption DEF IInv, TableType, LoopType
<1> QED
  BY <1>2, <1>3, <1>4, TimesAssumption DEF RenewedBy, Holding

\* With timely statements every step keeps the leases renewed.
LEMMA NextRenewed ==
    ASSUME IInv, IInv', LeaseHeld, Renewed, [Next]_vars, MaxFaults + 1 < Lease
    PROVE  Renewed'
<1>1. CASE UNCHANGED vars \/ DeleteExpired
  BY <1>1 DEF vars, DeleteExpired, workerVars, loopVars, Renewed, RenewedBy
<1>2. ASSUME NEW w \in Workers,
             \/ \E o \in Operations : Acquire(w, o)
             \/ CreateProcessing(w) \/ GetExisting(w) \/ Reclaim(w) \/ Renew(w)
             \/ EndOperation(w) \/ ReleaseSucceeded(w) \/ ReleaseFailed(w) \/ Crash(w)
      PROVE  Renewed'
  <2> SUFFICES ASSUME ~slow', ~late', NEW v \in Workers PROVE RenewedBy(v)'
    BY DEF Renewed, RenewedBy
  <2>1. ~slow /\ ~late
    BY <1>2, OthersStay
  <2>2. CASE v = w
    BY <1>2, <2>1, <2>2, WorkerRenewed
  <2>3. CASE v # w
    BY <1>2, <2>1, <2>3, OthersStay, OthersRenewed
  <2> QED
    BY <2>2, <2>3
<1> QED
  BY <1>1, <1>2, TickRenewed DEF Next

\* The state is well formed, and a lease outlasts its operation when statements are timely,
\* the renewals that fail leave at least one that does not, and the record outlives the
\* lease.
THEOREM LeaseLasts ==
    Lease =< TTL /\ MaxFaults + 1 < Lease => (Spec => []Inv)
<1> SUFFICES ASSUME Lease =< TTL, MaxFaults + 1 < Lease PROVE Spec => []Inv
  OBVIOUS
<1>1. Init => LeaseHeld /\ Renewed
  BY DEF Init, LeaseHeld, Renewed, RenewedBy, Holding
<1>2. IInv /\ IInv' /\ LeaseHeld /\ Renewed /\ [Next]_vars => LeaseHeld' /\ Renewed'
  BY NextLease, NextRenewed
<1>3. IInv /\ Renewed => Inv
  <2>1. IInv => TypeOK
    BY TimesAssumption DEF IInv, TableType, WorkerType, LoopType, TypeOK
  <2>2. IInv /\ Renewed => LeaseOutlastsOperation
    BY RenewedLasts DEF LeaseOutlastsOperation
  <2> QED
    BY <2>1, <2>2 DEF Inv
<1> QED
  BY <1>1, <1>2, <1>3, Invariance, PTL DEF Spec

=============================================================================

-------------------------- MODULE IdempotencyProofs --------------------------
(***************************************************************************)
(* Proofs about Idempotency, for any number of workers, payloads and       *)
(* faults, and any times, with no bound on the clock but MaxNow.           *)
(***************************************************************************)
EXTENDS Idempotency, TLAPS

-----------------------------------------------------------------------------
(* The inductive invariant *)

\* TypeOK in the parts about the table and about the workers.
TableType ==
    /\ row \in Records \cup {NoRow}
    /\ nextId \in Nat \ {0} /\ now \in Nat /\ faults \in Nat
    /\ effects \in {0, 1} /\ done \subseteq Payloads /\ coveredUntil \in Nat
    /\ late \in BOOLEAN /\ stale \in BOOLEAN

WorkerType ==
    /\ pc \in [Workers -> Labels]
    /\ payload \in [Workers -> Payloads \cup {NoPayload}]
    /\ started \in [Workers -> Nat]
    /\ seen \in [Workers -> [id : Nat, status : RecordStatuses] \cup {NoRow}]
    /\ id \in [Workers -> Nat]
    /\ answer \in [Workers -> Answers]

\* Who is about to claim the record that it read.
Claiming == {"reclaimExpired", "reclaim"}

\* The ids that are around were handed out by the table; an owner has one.
IdsKnown ==
    /\ row # NoRow => row.id > 0 /\ row.id < nextId
    /\ \A w \in Workers :
        /\ id[w] < nextId
        /\ id[w] > 0 <=> pc[w] \in Owning
        /\ pc[w] \in Claiming => seen[w] # NoRow /\ seen[w].id < nextId

\* A request has a payload and read the clock before; it claims a record before the expiry
\* only if that has failed.
RequestKnown ==
    \A w \in Workers :
        /\ pc[w] # "idle" => payload[w] \in Payloads
        /\ started[w] =< now
        /\ pc[w] = "reclaim" => seen[w].status = "failed_retryable"

\* The record has the payload of everybody who owns it or is about to claim it.
SamePayload ==
    row # NoRow => \A w \in Workers :
        /\ id[w] = row.id => row.fp = payload[w]
        /\ pc[w] \in Claiming /\ seen[w].id = row.id => row.fp = payload[w]

\* What is stored as succeeded, about to be or was replayed did take effect.
Replayable ==
    /\ row # NoRow /\ row.status = "succeeded" => row.fp \in done
    /\ \A w \in Workers :
        pc[w] = "markSucceeded" \/ answer[w] = "replayed" => payload[w] \in done

TypeInv == TableType /\ WorkerType /\ IdsKnown /\ RequestKnown

Owns(w) == row # NoRow /\ id[w] = row.id

\* The record of an owner whose lock holds is as it wrote it, and others that own the record
\* have outlived their locks.
LockHolds ==
    ~late => \A w \in Workers : Owns(w) /\ ~Overran(w) =>
        /\ row.status = "processing"
        /\ row.locked = started[w] + ProcessingTimeout
        /\ row.expires = started[w] + TTL
        /\ \A v \in Workers : v # w /\ Owns(v) => Overran(v)

\* With a lock that ends before the record expires, an owner within it has its record.
RecordStays ==
    ~late => \A w \in Workers : pc[w] \in Owning /\ ~Overran(w) => Owns(w)

\* A request that owns a record and whose TTL has not passed.
Live(w) == pc[w] \in Owning /\ now < started[w] + TTL

\* It is the only one, and the record waits for its result.
LiveAlone ==
    ~late /\ ~stale => \A w \in Workers : Live(w) =>
        /\ Owns(w) /\ row.status = "processing" /\ row.expires = started[w] + TTL
        /\ \A v \in Workers : Live(v) => v = w

\* After the operation took effect the record stays, and whoever owns it writes the result.
Covered ==
    ~late /\ ~stale /\ now < coveredUntil =>
        /\ row # NoRow /\ row.expires = coveredUntil
        /\ row.status \in {"processing", "succeeded"}
        /\ \A w \in Workers : Live(w) => pc[w] = "markSucceeded"

IInv ==
    /\ TypeInv /\ SamePayload /\ Replayable
    /\ LockHolds /\ LiveAlone /\ Covered

-----------------------------------------------------------------------------
(* The rows *)

\* What the statements write is a record, with the id that it had.
LEMMA NewRowIs ==
    ASSUME NEW i \in Nat \ {0}, NEW fp \in Payloads, NEW locked \in Nat, NEW expires \in Nat
    PROVE  LET r == NewRow(i, fp, locked, expires) IN
           /\ r \in Records /\ r # NoRow
           /\ r.id = i /\ r.fp = fp /\ r.status = "processing"
           /\ r.locked = locked /\ r.expires = expires
BY DEF NewRow, NoRow, Records, RecordsOf, RecordStatuses

\* TryReclaim writes all but the id and the fingerprint.
LEMMA ReclaimedIs ==
    ASSUME NEW r \in Records, r.id > 0, NEW locked \in Nat, NEW expires \in Nat
    PROVE  LET s == Reclaimed(r, locked, expires) IN
           /\ s \in Records /\ s # NoRow
           /\ s.id = r.id /\ s.fp = r.fp /\ s.status = "processing"
           /\ s.locked = locked /\ s.expires = expires
BY DEF Reclaimed, NoRow, Records, RecordsOf, RecordStatuses

\* Without a row there is nothing to mark.
LEMMA MarkedNothing ==
    ASSUME NEW i \in Nat \ {0}, NEW status, NEW locked, NEW expires
    PROVE  Marked(NoRow, i, status, locked, expires) = NoRow
BY DEF Marked, NoRow


-----------------------------------------------------------------------------
(* Steps that do not write the record *)

\* A step that writes nothing keeps the invariant when the owners stay or leave, the claims
\* are of the record, and what is replayed took effect.
LEMMA NoWrite ==
    ASSUME IInv, UNCHANGED <<row, nextId, ghostVars>>,
           now' \in Nat, now =< now', faults' \in Nat,
           WorkerType', IdsKnown', RequestKnown',
           \A v \in Workers : id'[v] > 0 =>
                /\ id'[v] = id[v] /\ started'[v] = started[v] /\ payload'[v] = payload[v]
                /\ pc'[v] = pc[v] \/ (pc[v] = "execute" /\ pc'[v] = "markFailed"),
           \A v \in Workers : pc'[v] \in Claiming /\ row # NoRow /\ seen'[v].id = row.id =>
                row.fp = payload'[v],
           \A v \in Workers : answer'[v] = "replayed" => payload'[v] \in done
    PROVE  IInv'
<1> USE TimesAssumption
<1>1. UNCHANGED <<effects, done, coveredUntil, late, stale>>
  BY DEF ghostVars
<1>2. TableType'
  BY <1>1 DEF IInv, TypeInv, TableType
<1>3. \A v \in Workers : pc'[v] \in Owning => pc[v] \in Owning /\ id'[v] > 0
  BY DEF IdsKnown, IInv, TypeInv, WorkerType
<1>4. SamePayload'
  BY DEF IInv, TypeInv, IdsKnown, SamePayload
<1>5. Replayable'
  BY <1>1, <1>3 DEF IInv, Replayable, Owning
<1>6. \A v \in Workers : Owns(v)' =>
            /\ Owns(v) /\ id'[v] = id[v] /\ started'[v] = started[v]
            /\ Overran(v) => Overran(v)'
  BY DEF Owns, Overran, IInv, TypeInv, IdsKnown, TableType, WorkerType
<1>7. LockHolds'
  BY <1>1, <1>6 DEF IInv, LockHolds
<1>8. \A v \in Workers : Live(v)' =>
            /\ Live(v) /\ id'[v] = id[v] /\ started'[v] = started[v]
            /\ pc'[v] = pc[v] \/ (pc[v] = "execute" /\ pc'[v] = "markFailed")
  BY <1>3 DEF Live, IInv, TypeInv, TableType, WorkerType
<1>9. LiveAlone'
  BY <1>1, <1>8 DEF IInv, LiveAlone, Owns
<1>10. Covered'
  BY <1>1, <1>8 DEF IInv, TypeInv, TableType, Covered
<1> QED
  BY <1>2, <1>4, <1>5, <1>7, <1>9, <1>10 DEF IInv, TypeInv

\* A request that is answered owns and claims nothing.
LEMMA AnswerKeeps ==
    ASSUME IInv, NEW w \in Workers, NEW a \in Answers, Answer(w, a),
           a = "replayed" => payload[w] \in done,
           UNCHANGED <<row, nextId, now, ghostVars>>, faults' \in Nat
    PROVE  IInv'
<1>1. WorkerType'
  BY DEF Answer, IInv, TypeInv, WorkerType, Labels
<1>2. IdsKnown'
  BY DEF Answer, IInv, TypeInv, WorkerType, TableType, IdsKnown, Owning, Claiming
<1>3. RequestKnown'
  BY DEF Answer, IInv, TypeInv, WorkerType, TableType, RequestKnown
<1>4. now' \in Nat /\ now =< now'
  BY DEF IInv, TypeInv, TableType
<1>5. \A v \in Workers : id'[v] > 0 =>
            /\ id'[v] = id[v] /\ started'[v] = started[v] /\ payload'[v] = payload[v]
            /\ pc'[v] = pc[v]
  BY DEF Answer, IInv, TypeInv, WorkerType
<1>6. \A v \in Workers : pc'[v] \in Claiming /\ row # NoRow /\ seen'[v].id = row.id =>
            row.fp = payload'[v]
  BY DEF Answer, IInv, TypeInv, WorkerType, SamePayload, Claiming
<1>7. \A v \in Workers : answer'[v] = "replayed" => payload'[v] \in done
  BY DEF Answer, IInv, TypeInv, WorkerType, Replayable
<1> QED
  BY <1>1, <1>2, <1>3, <1>4, <1>5, <1>6, <1>7, NoWrite

\* A request that read the record and is going to claim it.
LEMMA ClaimKeeps ==
    ASSUME IInv, NEW w \in Workers, pc[w] \in {"get", "getAgain"},
           NEW label \in Claiming, label = "reclaim" => row.status = "failed_retryable",
           pc' = [pc EXCEPT ![w] = label], seen' = [seen EXCEPT ![w] = Claim(row)],
           row # NoRow, row.fp = payload[w],
           UNCHANGED <<row, nextId, now, payload, started, id, answer, ghostVars, faults>>
    PROVE  IInv'
<1> DEFINE r == Claim(row)
<1>1. row \in Records /\ row.id \in Nat /\ row.status \in RecordStatuses
  BY DEF IInv, TypeInv, TableType, Records, RecordsOf
<1>2. /\ r \in [id : Nat, status : RecordStatuses] /\ r # NoRow
      /\ r.id = row.id /\ r.status = row.status
  BY <1>1 DEF Claim, NoRow
<1> HIDE DEF r
<1>3. WorkerType'
  BY <1>2 DEF IInv, TypeInv, WorkerType, Labels, Claiming, r
<1>4. IdsKnown'
  BY <1>2 DEF IInv, TypeInv, WorkerType, TableType, IdsKnown, Owning, Claiming, r
<1>5. RequestKnown'
  BY <1>2 DEF IInv, TypeInv, WorkerType, TableType, RequestKnown, Claiming, r
<1>6. now' \in Nat /\ now =< now' /\ faults' \in Nat
  BY DEF IInv, TypeInv, TableType
<1>7. \A v \in Workers : id'[v] > 0 => pc'[v] = pc[v]
  BY DEF IInv, TypeInv, WorkerType, IdsKnown, Owning
<1>8. \A v \in Workers : pc'[v] \in Claiming /\ row # NoRow /\ seen'[v].id = row.id =>
            row.fp = payload'[v]
  BY DEF IInv, TypeInv, WorkerType, SamePayload, Claiming
<1>9. \A v \in Workers : answer'[v] = "replayed" => payload'[v] \in done
  BY DEF IInv, Replayable
<1> QED
  BY <1>3, <1>4, <1>5, <1>6, <1>7, <1>8, <1>9, NoWrite

\* A request that owns nothing goes on to a statement that claims nothing.
LEMMA GotoKeeps ==
    ASSUME IInv, NEW w \in Workers, NEW label \in {"get", "getAgain"},
           pc[w] \notin Owning, pc[w] # "idle", Goto(w, label),
           UNCHANGED <<row, nextId, now, ghostVars, faults>>
    PROVE  IInv'
<1>1. WorkerType'
  BY DEF Goto, IInv, TypeInv, WorkerType, Labels
<1>2. IdsKnown'
  BY DEF Goto, IInv, TypeInv, WorkerType, TableType, IdsKnown, Owning, Claiming
<1>3. RequestKnown'
  BY DEF Goto, IInv, TypeInv, WorkerType, TableType, RequestKnown
<1>4. now' \in Nat /\ now =< now' /\ faults' \in Nat
  BY DEF IInv, TypeInv, TableType
<1>5. \A v \in Workers : id'[v] > 0 =>
            /\ id'[v] = id[v] /\ started'[v] = started[v] /\ payload'[v] = payload[v]
            /\ pc'[v] = pc[v]
  BY DEF Goto, IInv, TypeInv, WorkerType, IdsKnown
<1>6. \A v \in Workers : pc'[v] \in Claiming /\ row # NoRow /\ seen'[v].id = row.id =>
            row.fp = payload'[v]
  BY DEF Goto, IInv, TypeInv, WorkerType, SamePayload, Claiming
<1>7. \A v \in Workers : answer'[v] = "replayed" => payload'[v] \in done
  BY DEF Goto, IInv, Replayable
<1> QED
  BY <1>1, <1>2, <1>3, <1>4, <1>5, <1>6, <1>7, NoWrite

\* A step has a fault or none.
LEMMA FaultType ==
    ASSUME TableType, NEW k, Fault(k) \/ NoFault
    PROVE  faults' \in Nat
BY DEF Fault, NoFault, TableType

\* A request begins and reads the clock; it owns nothing.
LEMMA StartKeeps ==
    ASSUME IInv, NEW w \in Workers, NEW p \in Payloads, Start(w, p)
    PROVE  IInv'
<1>1. WorkerType'
  BY DEF Start, IInv, TypeInv, WorkerType, TableType, Labels, Answers
<1>2. IdsKnown'
  BY DEF Start, At, IInv, TypeInv, WorkerType, TableType, IdsKnown, Owning, Claiming
<1>3. RequestKnown'
  BY DEF Start, IInv, TypeInv, WorkerType, TableType, RequestKnown
<1>4. now' \in Nat /\ now =< now' /\ faults' \in Nat
  BY DEF Start, IInv, TypeInv, TableType
<1>5. \A v \in Workers : id'[v] > 0 =>
            /\ id'[v] = id[v] /\ started'[v] = started[v] /\ payload'[v] = payload[v]
            /\ pc'[v] = pc[v]
  BY DEF Start, At, IInv, TypeInv, WorkerType, IdsKnown, Owning
<1>6. \A v \in Workers : pc'[v] \in Claiming /\ row # NoRow /\ seen'[v].id = row.id =>
            row.fp = payload'[v]
  BY DEF Start, IInv, TypeInv, WorkerType, SamePayload, Claiming
<1>7. \A v \in Workers : answer'[v] = "replayed" => payload'[v] \in done
  BY DEF Start, IInv, TypeInv, WorkerType, Replayable
<1> QED
  BY <1>1, <1>2, <1>3, <1>4, <1>5, <1>6, <1>7, NoWrite DEF Start

\* Time passes, and locks and TTLs only end by it.
LEMMA TickKeeps ==
    ASSUME IInv, Tick
    PROVE  IInv'
<1>1. now' \in Nat /\ now =< now' /\ faults' \in Nat
  BY DEF Tick, IInv, TypeInv, TableType
<1>2. UNCHANGED <<row, nextId, pc, payload, started, seen, id, answer, ghostVars>>
  BY DEF Tick, workerVars
<1>3. WorkerType' /\ IdsKnown' /\ RequestKnown'
  BY <1>1, <1>2 DEF IInv, TypeInv, WorkerType, IdsKnown, RequestKnown, TableType
<1>4. \A v \in Workers : pc[v] \in Claiming /\ row # NoRow /\ seen[v].id = row.id =>
            row.fp = payload[v]
  BY DEF IInv, SamePayload
<1> QED
  BY <1>1, <1>2, <1>3, <1>4, NoWrite DEF IInv, Replayable

\* The switch over the status of a record with the payload of the request.
LEMMA DecideKeeps ==
    ASSUME IInv, NEW w \in Workers, pc[w] \in {"get", "getAgain"},
           row # NoRow, row.fp = payload[w], Decide(w, row),
           UNCHANGED <<row, nextId, now, ghostVars, faults>>
    PROVE  IInv'
<1>1. faults' \in Nat
  BY DEF IInv, TypeInv, TableType
<1>2. CASE row.status = "succeeded" /\ \E a \in {"replayed", "refused"} : Answer(w, a)
  BY <1>1, <1>2, AnswerKeeps DEF IInv, Replayable, Answers
<1>3. CASE Answer(w, "refused")
  BY <1>1, <1>3, AnswerKeeps DEF Answers
<1>4. CASE /\ row.status = "failed_retryable"
           /\ pc' = [pc EXCEPT ![w] = "reclaim"] /\ seen' = [seen EXCEPT ![w] = Claim(row)]
           /\ UNCHANGED <<payload, started, id, answer>>
  BY <1>4, ClaimKeeps DEF Claiming
<1> QED
  BY <1>2, <1>3, <1>4 DEF Decide

\* The two reads of the record, before and after a claim that failed.
LEMMA GetKeeps ==
    ASSUME IInv, NEW w \in Workers, GetExisting(w) \/ GetAgain(w)
    PROVE  IInv'
<1>1. pc[w] \in {"get", "getAgain"} /\ UNCHANGED <<row, nextId, now, ghostVars>>
  BY DEF GetExisting, GetAgain, At
<1>2. CASE Answer(w, "refused") /\ faults' \in Nat
  BY <1>1, <1>2, AnswerKeeps DEF Answers
<1>3. CASE row # NoRow /\ row.fp = payload[w] /\ Decide(w, row) /\ NoFault
  BY <1>1, <1>3, DecideKeeps DEF NoFault
<1>4. CASE /\ row # NoRow /\ row.fp = payload[w] /\ NoFault
           /\ pc' = [pc EXCEPT ![w] = "reclaimExpired"] /\ seen' = [seen EXCEPT ![w] = Claim(row)]
           /\ UNCHANGED <<payload, started, id, answer>>
  BY <1>1, <1>4, ClaimKeeps DEF Claiming, NoFault
<1>5. \A k : Fault(k) \/ NoFault => faults' \in Nat
  BY FaultType DEF IInv, TypeInv
<1> QED
  BY <1>2, <1>3, <1>4, <1>5 DEF GetExisting, GetAgain

\* The process dies, which leaves the record as an answer does.
LEMMA CrashKeeps ==
    ASSUME IInv, NEW w \in Workers, Crash(w)
    PROVE  IInv'
<1>1. faults' \in Nat
  BY FaultType DEF Crash, IInv, TypeInv
<1> QED
  BY <1>1, AnswerKeeps DEF Crash, Answers

-----------------------------------------------------------------------------
(* Steps that write the record *)

\* A request takes the record, a new one or one whose lock is over, when nobody that owned it
\* is live and no effect is covered by it.
LEMMA TakeKeeps ==
    ASSUME IInv, NEW w \in Workers, NEW i \in Nat \ {0}, Own(w, i),
           pc[w] \in Claiming \cup {"create"},
           row' \in Records, row' # NoRow, row'.id = i, row'.fp = payload[w],
           row'.status = "processing", row'.locked = started[w] + ProcessingTimeout,
           row'.expires = started[w] + TTL,
           nextId' \in Nat, nextId =< nextId', i < nextId',
           i = nextId \/ (row # NoRow /\ row.id = i /\ row.fp = payload[w]
                            /\ row.locked =< started[w]),
           UNCHANGED <<now, effects, done, coveredUntil, late, faults>>,
           stale' \in BOOLEAN, ~stale' => ~stale,
           ~late /\ ~stale' => coveredUntil =< now /\ \A v \in Workers : ~Live(v)
    PROVE  IInv'
<1> USE TimesAssumption
<1>1. TableType'
  BY DEF IInv, TypeInv, TableType
<1>2. WorkerType'
  BY DEF Own, NoRow, IInv, TypeInv, WorkerType, Labels, Owning
<1>3. /\ pc'[w] = "execute" /\ id'[w] = i
      /\ \A v \in Workers \ {w} : pc'[v] = pc[v] /\ id'[v] = id[v] /\ seen'[v] = seen[v]
      /\ UNCHANGED <<payload, started, answer>>
  BY DEF Own, IInv, TypeInv, WorkerType
<1>4. IdsKnown'
  BY <1>3 DEF IInv, TypeInv, WorkerType, TableType, IdsKnown, Owning, Claiming
<1>5. RequestKnown'
  BY <1>3 DEF IInv, TypeInv, RequestKnown, Claiming
<1>6. \A v \in Workers \ {w} : id[v] = i => Owns(v)
  BY DEF IInv, TypeInv, TableType, WorkerType, IdsKnown, Owns
<1>7. SamePayload'
  BY <1>3 DEF IInv, TypeInv, TableType, WorkerType, IdsKnown, SamePayload, Claiming
<1>8. Replayable'
  BY <1>3 DEF IInv, Replayable
<1>9. \A v \in Workers \ {w} : ~late /\ id[v] = i => Overran(v)
  <2> SUFFICES ASSUME NEW v \in Workers \ {w}, ~late, id[v] = i, ~Overran(v)
               PROVE  FALSE
    OBVIOUS
  <2>1. row.locked = started[v] + ProcessingTimeout
    BY <1>6 DEF IInv, LockHolds
  <2>2. row # NoRow /\ row.id = i /\ row.locked =< started[w]
    BY <1>6 DEF Owns, IInv, TypeInv, IdsKnown, TableType
  <2>3. started[w] =< now /\ started[w] \in Nat /\ started[v] \in Nat /\ now \in Nat
    BY DEF IInv, TypeInv, RequestKnown, WorkerType, TableType
  <2> QED
    BY <2>1, <2>2, <2>3 DEF Overran
<1>10. LockHolds'
  BY <1>3, <1>9 DEF LockHolds, Owns, Overran
<1>11. ~late /\ ~stale' => \A v \in Workers : Live(v)' => v = w
  BY <1>3 DEF Live
<1>12. LiveAlone'
  BY <1>3, <1>11 DEF LiveAlone, Owns
<1>13. Covered'
  BY DEF IInv, TypeInv, TableType, Covered
<1> QED
  BY <1>1, <1>2, <1>4, <1>5, <1>7, <1>8, <1>10, <1>12, <1>13 DEF IInv, TypeInv

\* INSERT ... ON CONFLICT DO NOTHING: one request inserts the record.
LEMMA CreateKeeps ==
    ASSUME IInv, NEW w \in Workers, CreateProcessing(w)
    PROVE  IInv'
<1>1. pc[w] = "create" /\ UNCHANGED <<now, ghostVars>>
  BY DEF CreateProcessing, At
<1>2. CASE /\ row = NoRow /\ row' = NewRecord(w) /\ nextId' = nextId + 1
           /\ Own(w, nextId) /\ NoFault
  <2>1. /\ payload[w] \in Payloads /\ started[w] \in Nat /\ nextId \in Nat \ {0}
        /\ started[w] + ProcessingTimeout \in Nat /\ started[w] + TTL \in Nat
    BY <1>1, TimesAssumption DEF IInv, TypeInv, RequestKnown, WorkerType, TableType
  <2>2. /\ row' \in Records /\ row' # NoRow /\ row'.id = nextId /\ row'.fp = payload[w]
        /\ row'.status = "processing" /\ row'.locked = started[w] + ProcessingTimeout
        /\ row'.expires = started[w] + TTL
    BY <1>2, <2>1, NewRowIs DEF NewRecord
  <2>3. UNCHANGED <<now, effects, done, coveredUntil, late, stale, faults>>
    BY <1>1, <1>2 DEF ghostVars, NoFault
  <2>4. ~late /\ ~stale => coveredUntil =< now /\ \A v \in Workers : ~Live(v)
    BY <1>2 DEF IInv, TypeInv, TableType, LiveAlone, Covered, Owns
  <2>5. stale' \in BOOLEAN /\ nextId' \in Nat /\ nextId =< nextId' /\ nextId < nextId'
    BY <1>2, <2>1, <2>3 DEF IInv, TypeInv, TableType
  <2> QED
    BY <1>1, <1>2, <2>1, <2>2, <2>3, <2>4, <2>5, TakeKeeps
<1>3. CASE Goto(w, "get") /\ NoFault /\ UNCHANGED <<row, nextId>>
  BY <1>1, <1>3, GotoKeeps DEF NoFault, Owning
<1>4. CASE Fault("store") /\ Answer(w, "refused") /\ UNCHANGED <<row, nextId>>
  <2>1. faults' \in Nat
    BY <1>4, FaultType DEF IInv, TypeInv
  <2> QED
    BY <1>1, <1>4, <2>1, AnswerKeeps DEF Answers
<1> QED
  BY <1>2, <1>3, <1>4 DEF CreateProcessing

\* The UPDATE of TryReclaim: the record is the one that was read, and its lock is over.
LEMMA TryReclaimKeeps ==
    ASSUME IInv, NEW w \in Workers, pc[w] \in Claiming, TryReclaim(w), NoFault,
           UNCHANGED <<nextId, now, effects, done, coveredUntil, late>>,
           stale' \in BOOLEAN, ~stale' => ~stale,
           pc[w] = "reclaimExpired" /\ ~stale' => row.expires =< started[w]
    PROVE  IInv'
<1>1. /\ row # NoRow /\ row.id = seen[w].id /\ row.status = seen[w].status
      /\ row.locked =< started[w]
      /\ row' = Reclaimed(row, started[w] + ProcessingTimeout, started[w] + TTL)
      /\ Own(w, row.id)
  BY DEF TryReclaim, Claimable, Matches
<1>2. /\ row \in Records /\ row.id \in Nat \ {0} /\ row.id < nextId
      /\ started[w] \in Nat /\ started[w] =< now /\ now \in Nat
      /\ started[w] + ProcessingTimeout \in Nat /\ started[w] + TTL \in Nat
  BY <1>1, TimesAssumption
  DEF IInv, TypeInv, TableType, WorkerType, IdsKnown, RequestKnown, Records, RecordsOf
<1>3. /\ row' \in Records /\ row' # NoRow /\ row'.id = row.id /\ row'.fp = row.fp
      /\ row'.status = "processing" /\ row'.locked = started[w] + ProcessingTimeout
      /\ row'.expires = started[w] + TTL
  BY <1>1, <1>2, ReclaimedIs
<1>4. row.fp = payload[w]
  BY <1>1 DEF IInv, SamePayload
<1>5. ~late /\ ~stale' => coveredUntil =< now /\ \A v \in Workers : ~Live(v)
  <2> SUFFICES ASSUME ~late, ~stale'
               PROVE  coveredUntil =< now /\ \A v \in Workers : ~Live(v)
    OBVIOUS
  <2>0. \A v \in Workers : started[v] \in Nat
    BY DEF IInv, TypeInv, WorkerType
  <2>1. CASE pc[w] = "reclaimExpired"
    <3>1. row.expires =< now /\ row.expires \in Nat
      BY <1>2, <2>1 DEF Records, RecordsOf
    <3> QED
      BY <1>2, <2>0, <3>1, TimesAssumption
      DEF IInv, TypeInv, TableType, LiveAlone, Covered, Live
  <2>2. CASE pc[w] = "reclaim"
    <3>1. row.status = "failed_retryable"
      BY <1>1, <2>2 DEF IInv, TypeInv, RequestKnown
    <3> QED
      BY <3>1 DEF IInv, TypeInv, TableType, LiveAlone, Covered
  <2> QED
    BY <2>1, <2>2 DEF Claiming
<1>6. nextId' \in Nat /\ nextId =< nextId' /\ row.id < nextId'
  BY <1>2 DEF IInv, TypeInv, TableType
<1> QED
  BY <1>1, <1>2, <1>3, <1>4, <1>5, <1>6, TakeKeeps DEF NoFault

\* The claims of a record read as expired and of one read as failed.
LEMMA ReclaimKeeps ==
    ASSUME IInv, NEW w \in Workers, ReclaimExpired(w) \/ Reclaim(w)
    PROVE  IInv'
<1>1. UNCHANGED <<nextId, now, effects, done, coveredUntil, late>> /\ pc[w] \in Claiming
  BY DEF ReclaimExpired, Reclaim, ghostVars, At, Claiming
<1>2. CASE TryReclaim(w) /\ NoFault
  <2>1. CASE Reclaim(w)
    BY <1>1, <1>2, <2>1, TryReclaimKeeps DEF Reclaim, ghostVars, At, IInv, TypeInv, TableType
  <2>2. CASE ReclaimExpired(w) /\ stale' = (stale \/ row.expires > started[w])
    <3>1. stale' \in BOOLEAN /\ (~stale' => ~stale /\ ~(row.expires > started[w]))
      BY <2>2
    <3>2. row.expires \in Nat /\ started[w] \in Nat
      BY <1>2
      DEF TryReclaim, Claimable, Matches, IInv, TypeInv, TableType, WorkerType, Records, RecordsOf
    <3> QED
      BY <1>1, <1>2, <3>1, <3>2, TryReclaimKeeps
  <2>3. CASE ReclaimExpired(w) /\ UNCHANGED stale /\ ~Claimable(w)
    BY <1>2, <2>3 DEF TryReclaim
  <2>4. CASE ReclaimExpired(w) /\ Fault("store")
    BY <1>2, <2>4 DEF NoFault, Fault, IInv, TypeInv, TableType
  <2> QED
    BY <2>1, <2>2, <2>3, <2>4 DEF ReclaimExpired
<1>3. CASE Goto(w, "getAgain") /\ NoFault /\ UNCHANGED <<row, stale>>
  BY <1>1, <1>3, GotoKeeps DEF ghostVars, NoFault, Owning, Claiming
<1>4. CASE Answer(w, "refused") /\ UNCHANGED <<row, stale>> /\ faults' \in Nat
  BY <1>1, <1>4, AnswerKeeps DEF ghostVars, Answers
<1>5. \A k : Fault(k) \/ NoFault => faults' \in Nat
  BY FaultType DEF IInv, TypeInv
<1> QED
  BY <1>1, <1>2, <1>3, <1>4, <1>5 DEF ReclaimExpired, Reclaim, ghostVars

\* The operation takes effect, or returns an error.
LEMMA ExecuteKeeps ==
    ASSUME IInv, NEW w \in Workers, ExecuteOperation(w)
    PROVE  IInv'
<1> USE TimesAssumption
<1>1. pc[w] = "execute" /\ UNCHANGED <<row, nextId, now, late, stale>>
  BY DEF ExecuteOperation, At
<1>2. faults' \in Nat
  BY FaultType DEF ExecuteOperation, IInv, TypeInv
<1>3. PICK label \in {"markSucceeded", "markFailed"} : Goto(w, label)
  BY DEF ExecuteOperation
<1>4. UNCHANGED <<payload, started, seen, id, answer>>
  BY <1>3 DEF Goto
<1>5. /\ pc'[w] = label /\ label \in Owning
      /\ \A v \in Workers \ {w} : pc'[v] = pc[v]
  BY <1>3 DEF Goto, IInv, TypeInv, WorkerType, Owning
<1>6. WorkerType'
  BY <1>3, <1>4 DEF Goto, IInv, TypeInv, WorkerType, Labels, Owning
<1>7. IdsKnown' /\ RequestKnown'
  BY <1>1, <1>4, <1>5
  DEF IInv, TypeInv, IdsKnown, RequestKnown, Owning, Claiming
<1>8. SamePayload'
  BY <1>1, <1>4, <1>5 DEF IInv, SamePayload, Owning, Claiming
<1>9. CASE Fault("execute") /\ label = "markFailed" /\ UNCHANGED <<effects, done, coveredUntil>>
  <2>1. now' \in Nat /\ now =< now'
    BY <1>1 DEF IInv, TypeInv, TableType
  <2>2. \A v \in Workers : pc'[v] \in Claiming /\ row # NoRow /\ seen'[v].id = row.id =>
                row.fp = payload'[v]
    BY <1>1, <1>8 DEF SamePayload
  <2>3. \A v \in Workers : pc'[v] = pc[v] \/ (pc[v] = "execute" /\ pc'[v] = "markFailed")
    BY <1>1, <1>5, <1>9
  <2> QED
    BY <1>1, <1>2, <1>4, <1>6, <1>7, <1>9, <2>1, <2>2, <2>3, NoWrite
    DEF ghostVars, IInv, Replayable
<1>10. CASE /\ effects' = 1 - effects /\ done' = done \cup {payload[w]}
            /\ coveredUntil' = started[w] + TTL /\ Goto(w, "markSucceeded")
  <2>1. payload[w] \in Payloads /\ started[w] \in Nat
    BY <1>1 DEF IInv, TypeInv, RequestKnown, WorkerType
  <2>2. TableType'
    BY <1>1, <1>2, <1>10, <2>1 DEF IInv, TypeInv, TableType
  <2>3. Replayable'
    BY <1>1, <1>4, <1>5, <1>10 DEF IInv, Replayable
  <2>4. LockHolds'
    BY <1>1, <1>4 DEF IInv, LockHolds, Owns, Overran
  <2>5. \A v \in Workers : Live(v)' => Live(v)
    BY <1>1, <1>4, <1>5 DEF Live, Owning
  <2>6. LiveAlone'
    BY <1>1, <1>4, <2>5 DEF IInv, LiveAlone, Owns
  <2>7. Covered'
    <3> SUFFICES ASSUME ~late, ~stale, now < coveredUntil'
                 PROVE  /\ row # NoRow /\ row.expires = coveredUntil'
                        /\ row.status \in {"processing", "succeeded"}
                        /\ \A v \in Workers : Live(v)' => pc'[v] = "markSucceeded"
      BY <1>1 DEF Covered
    <3>1. Live(w)
      BY <1>1, <1>10 DEF Live, Owning
    <3>2. /\ Owns(w) /\ row.status = "processing" /\ row.expires = started[w] + TTL
          /\ \A v \in Workers : Live(v) => v = w
      BY <3>1 DEF IInv, LiveAlone
    <3>3. pc'[w] = "markSucceeded"
      BY <1>10 DEF Goto, IInv, TypeInv, WorkerType
    <3> QED
      BY <1>10, <2>5, <3>2, <3>3 DEF Owns
  <2> QED
    BY <1>6, <1>7, <1>8, <2>2, <2>3, <2>4, <2>6, <2>7 DEF IInv, TypeInv
<1>11. Goto(w, "markFailed") => label = "markFailed"
  BY <1>5 DEF Goto, IInv, TypeInv, WorkerType
<1> QED
  BY <1>9, <1>10, <1>11 DEF ExecuteOperation

\* An owner writes its result to its record, if that is still there, and is done.
LEMMA WriteKeeps ==
    ASSUME IInv, NEW w \in Workers, NEW s \in {"succeeded", "failed_retryable"},
           NEW locked \in Nat, NEW a \in {"done", "refused"},
           pc[w] \in Owning, pc[w] = IF s = "succeeded" THEN "markSucceeded" ELSE "markFailed",
           WriteResult(w, s, locked), Answer(w, a), NoFault,
           UNCHANGED <<nextId, now, effects, done, coveredUntil, stale>>
    PROVE  IInv'
<1> USE TimesAssumption
<1>1. /\ row' = Marked(row, id[w], s, locked, started[w] + TTL)
      /\ late' \in BOOLEAN /\ (~late' => ~late /\ ~Overran(w))
  BY DEF WriteResult
<1>2. /\ id[w] \in Nat \ {0} /\ started[w] + TTL \in Nat /\ s \in RecordStatuses
  BY DEF IInv, TypeInv, WorkerType, IdsKnown, RecordStatuses
<1>3. row # NoRow => row \in Records /\ row.id > 0
  BY DEF IInv, TypeInv, TableType, IdsKnown
<1>4. /\ row' # NoRow <=> row # NoRow
      /\ row' \in Records \cup {NoRow}
      /\ row' # NoRow => /\ row'.id = row.id /\ row'.fp = row.fp
                         /\ ~Owns(w) => row' = row
                         /\ Owns(w) => row'.status = s /\ row'.expires = started[w] + TTL
  <2>1. CASE row = NoRow
    <3>1. row' = NoRow
      BY <1>1, <1>2, <2>1, MarkedNothing
    <3> QED
      BY <2>1, <3>1
  <2>2. CASE row # NoRow
    <3> DEFINE m == Marked(row, id[w], s, locked, started[w] + TTL)
    <3>1. /\ m \in Records /\ m # NoRow
          /\ m.id = row.id /\ m.fp = row.fp
          /\ row.id # id[w] => m = row
          /\ row.id = id[w] => m.status = s /\ m.expires = started[w] + TTL
      <4>1. row \in Records /\ row.id > 0
        BY <1>3, <2>2
      <4>2. CASE row.id = id[w]
        BY <1>2, <4>1, <4>2 DEF Marked, NoRow, Records, RecordsOf, RecordStatuses
      <4>3. CASE row.id # id[w]
        BY <1>2, <4>1, <4>3 DEF Marked, NoRow, Records, RecordsOf, RecordStatuses
      <4> QED
        BY <4>2, <4>3
    <3>2. row' = m
      BY <1>1
    <3> HIDE DEF m
    <3>3. Owns(w) <=> id[w] = row.id
      BY <2>2 DEF Owns
    <3> QED
      BY <2>2, <3>1, <3>2, <3>3
  <2> QED
    BY <2>1, <2>2
<1>5. TableType'
  BY <1>1, <1>4 DEF NoFault, IInv, TypeInv, TableType
<1>6. WorkerType'
  BY DEF Answer, IInv, TypeInv, WorkerType, Labels, Answers
<1>7. /\ pc'[w] = "idle" /\ id'[w] = 0 /\ started'[w] = 0 /\ seen'[w] = NoRow
      /\ answer'[w] = a /\ UNCHANGED payload
      /\ \A v \in Workers \ {w} :
            /\ pc'[v] = pc[v] /\ id'[v] = id[v] /\ started'[v] = started[v]
            /\ seen'[v] = seen[v] /\ answer'[v] = answer[v]
  BY DEF Answer, IInv, TypeInv, WorkerType
<1>8. IdsKnown'
  BY <1>4, <1>7 DEF IInv, TypeInv, TableType, IdsKnown, Owning, Claiming
<1>9. RequestKnown'
  BY <1>7 DEF IInv, TypeInv, TableType, RequestKnown
<1>10. SamePayload'
  BY <1>2, <1>4, <1>7 DEF IInv, TypeInv, IdsKnown, SamePayload, Claiming
<1>11. Replayable'
  <2>1. Owns(w) /\ s = "succeeded" => row.fp \in done
    BY DEF IInv, SamePayload, Replayable, Owns
  <2> QED
    BY <1>4, <1>7, <2>1 DEF IInv, Replayable
<1>12. ~late' /\ Owns(w) => \A v \in Workers : v # w /\ Owns(v) => Overran(v)
  BY <1>1 DEF IInv, LockHolds
<1>13. \A v \in Workers : Owns(v)' => v # w /\ Owns(v) /\ started'[v] = started[v]
  BY <1>2, <1>4, <1>7 DEF Owns, IInv, TypeInv, IdsKnown
<1>14. ~late' => ~late
  BY <1>1
<1>15. LockHolds'
  <2>1. \A v \in Workers : ~late' /\ Owns(v)' /\ ~Overran(v)' => ~Owns(w) /\ row' = row
    BY <1>4, <1>12, <1>13 DEF Overran, Owns
  <2> QED
    BY <1>13, <1>14, <2>1 DEF IInv, LockHolds, Overran
<1>16. \A v \in Workers : Live(v)' => v # w /\ Live(v)
  BY <1>7 DEF Live, Owning
<1>17. ~late' /\ Owns(w) => row.expires = started[w] + TTL
  BY <1>1 DEF IInv, LockHolds
<1>18. LiveAlone'
  <2> SUFFICES ASSUME ~late', ~stale, NEW v \in Workers, Live(v)'
               PROVE  /\ Owns(v)' /\ row'.status = "processing"
                      /\ row'.expires = started'[v] + TTL
                      /\ \A u \in Workers : Live(u)' => u = v
    BY DEF LiveAlone
  <2>1. /\ v # w /\ Live(v) /\ Owns(v) /\ row.status = "processing"
        /\ row.expires = started[v] + TTL
        /\ \A u \in Workers : Live(u) => u = v
    BY <1>14, <1>16 DEF IInv, LiveAlone
  <2>2. ~Owns(w)
    BY <1>17, <2>1 DEF Live
  <2> QED
    BY <1>4, <1>7, <1>16, <2>1, <2>2 DEF Owns
<1>19. Covered'
  <2> SUFFICES ASSUME ~late', ~stale, now < coveredUntil
               PROVE  /\ row' # NoRow /\ row'.expires = coveredUntil
                      /\ row'.status \in {"processing", "succeeded"}
                      /\ \A v \in Workers : Live(v)' => pc'[v] = "markSucceeded"
    BY DEF Covered
  <2>1. /\ row # NoRow /\ row.expires = coveredUntil
        /\ row.status \in {"processing", "succeeded"}
        /\ \A v \in Workers : Live(v) => pc[v] = "markSucceeded"
    BY <1>14 DEF IInv, Covered
  <2>2. Owns(w) => s = "succeeded"
    BY <1>17, <2>1 DEF Live
  <2> QED
    BY <1>4, <1>7, <1>16, <1>17, <2>1, <2>2
<1> QED
  BY <1>5, <1>6, <1>8, <1>9, <1>10, <1>11, <1>15, <1>18, <1>19 DEF IInv, TypeInv

\* The two ways to write a result.
LEMMA MarkKeeps ==
    ASSUME IInv, NEW w \in Workers, MarkSucceeded(w) \/ MarkFailedRetryable(w)
    PROVE  IInv'
<1>1. UNCHANGED <<nextId, now, effects, done, coveredUntil, stale>>
  BY DEF MarkSucceeded, MarkFailedRetryable
<1>2. now + FailedRetryBackoff \in Nat /\ 0 \in Nat
  BY TimesAssumption DEF IInv, TypeInv, TableType
<1>3. CASE /\ pc[w] = "markSucceeded" /\ WriteResult(w, "succeeded", 0)
           /\ Answer(w, "done") /\ NoFault
  BY <1>1, <1>2, <1>3, WriteKeeps DEF Owning
<1>4. CASE /\ pc[w] = "markFailed"
           /\ WriteResult(w, "failed_retryable", now + FailedRetryBackoff)
           /\ Answer(w, "refused") /\ NoFault
  BY <1>1, <1>2, <1>4, WriteKeeps DEF Owning
<1>5. CASE Answer(w, "refused") /\ UNCHANGED <<row, late>> /\ Fault("store")
  <2>1. faults' \in Nat
    BY <1>5, FaultType DEF IInv, TypeInv
  <2> QED
    BY <1>1, <1>5, <2>1, AnswerKeeps DEF ghostVars, Answers
<1> QED
  BY <1>3, <1>4, <1>5 DEF MarkSucceeded, MarkFailedRetryable, At

\* An expired record covers nothing, and its owners are no longer live.
LEMMA DeleteKeeps ==
    ASSUME IInv, DeleteExpired
    PROVE  IInv'
<1> USE TimesAssumption
<1>1. row # NoRow /\ row.expires =< now /\ row' = NoRow
  BY DEF DeleteExpired, IsExpired
<1>2. UNCHANGED <<nextId, now, pc, payload, started, seen, id, answer, ghostVars, faults>>
  BY DEF DeleteExpired, workerVars
<1>3. row.expires \in Nat
  BY <1>1 DEF IInv, TypeInv, TableType, Records, RecordsOf
<1>4. TypeInv'
  BY <1>1, <1>2
  DEF IInv, TypeInv, TableType, WorkerType, IdsKnown, RequestKnown, ghostVars
<1>5. SamePayload' /\ Replayable'
  BY <1>1, <1>2 DEF IInv, SamePayload, Replayable, ghostVars
<1>6. LockHolds'
  BY <1>1 DEF LockHolds, Owns
<1>7. ~late /\ ~stale => \A v \in Workers : ~Live(v)
  BY <1>1, <1>3 DEF IInv, TypeInv, TableType, WorkerType, LiveAlone, Live
<1>8. LiveAlone'
  BY <1>2, <1>7 DEF LiveAlone, Live, ghostVars
<1>9. Covered'
  BY <1>1, <1>2, <1>3 DEF IInv, TypeInv, TableType, Covered, ghostVars
<1> QED
  BY <1>4, <1>5, <1>6, <1>8, <1>9 DEF IInv

-----------------------------------------------------------------------------
(* Every step *)

\* At first there is no record and no request.
LEMMA InitIInv == Init => IInv
<1> SUFFICES ASSUME Init PROVE IInv
  OBVIOUS
<1>1. 0 \in Nat /\ 1 \in Nat \ {0} /\ 0 < 1
  OBVIOUS
<1>2. late \in BOOLEAN /\ stale \in BOOLEAN
  BY DEF Init
<1>3. TableType
  BY <1>1, <1>2 DEF Init, TableType
<1>4. WorkerType
  BY <1>1 DEF Init, WorkerType, Labels, Answers
<1>5. IdsKnown /\ RequestKnown
  BY DEF Init, IdsKnown, RequestKnown, Owning, Claiming
<1> QED
  BY <1>3, <1>4, <1>5 DEF TypeInv, Init, IInv, SamePayload, Replayable, LockHolds, LiveAlone,
                          Covered, Owns, Live, Owning

\* Every step keeps the invariant.
LEMMA NextKeeps ==
    ASSUME IInv, [Next]_vars
    PROVE  IInv'
<1>1. CASE UNCHANGED vars
  <2>1. /\ UNCHANGED <<row, nextId, now, pc, payload, started, seen, id, answer, faults>>
        /\ UNCHANGED ghostVars
    BY <1>1 DEF vars, workerVars
  <2>2. now' \in Nat /\ now =< now' /\ faults' \in Nat
    BY <2>1 DEF IInv, TypeInv, TableType
  <2>3. WorkerType' /\ IdsKnown' /\ RequestKnown'
    BY <2>1 DEF IInv, TypeInv, WorkerType, IdsKnown, RequestKnown
  <2> QED
    BY <2>1, <2>2, <2>3, NoWrite DEF IInv, SamePayload, Replayable
<1>2. ASSUME NEW w \in Workers, NEW p \in Payloads, Start(w, p) PROVE IInv'
  BY <1>2, StartKeeps
<1>3. ASSUME NEW w \in Workers, Step(w) PROVE IInv'
  BY <1>3, CreateKeeps, GetKeeps, ReclaimKeeps, ExecuteKeeps, MarkKeeps DEF Step
<1>4. ASSUME NEW w \in Workers, Crash(w) PROVE IInv'
  BY <1>4, CrashKeeps
<1> QED
  BY <1>1, <1>2, <1>3, <1>4, TickKeeps, DeleteKeeps DEF Next

\* The inductive invariant, of which the rest follows.
THEOREM Invariance == Spec => []IInv
BY InitIInv, NextKeeps, PTL DEF Spec

\* The state is well formed, and what is replayed is the result of a run of the operation
\* for the same payload that took effect.
THEOREM ReplayIsOwnResult == Spec => []Inv
<1>1. IInv => Inv
  BY DEF IInv, TypeInv, TableType, WorkerType, Replayable, Inv, TypeOK, ReplayIsOwn
<1> QED
  BY <1>1, Invariance, PTL

\* While the TTL of the last effect runs, an owner whose own TTL has not passed has taken
\* effect before it, so only its second statement is left.
LEMMA EffectIsNew ==
    ASSUME IInv, NEW w \in Workers, ExecuteOperation(w), effects' # effects
    PROVE  now >= coveredUntil \/ stale \/ late \/ RunsExpired(w)
<1> USE TimesAssumption
<1>1. pc[w] = "execute" /\ Goto(w, "markSucceeded")
  BY DEF ExecuteOperation, At
<1>2. pc'[w] = "markSucceeded"
  BY <1>1 DEF Goto, IInv, TypeInv, WorkerType
<1>3. started[w] + TTL \in Nat /\ now \in Nat /\ coveredUntil \in Nat
  BY DEF IInv, TypeInv, WorkerType, TableType
<1>4. CASE now < started[w] + TTL
  <2>1. Live(w)
    BY <1>1, <1>4 DEF Live, Owning
  <2>2. ~late /\ ~stale => ~(now < coveredUntil)
    BY <1>1, <2>1 DEF IInv, Covered
  <2> QED
    BY <1>3, <2>2
<1> QED
  BY <1>1, <1>2, <1>3, <1>4 DEF RunsExpired

\* Only the operation takes effect.
LEMMA OnlyExecution ==
    ASSUME [Next]_vars, effects' # effects
    PROVE  \E w \in Workers : ExecuteOperation(w)
BY DEF Next, Step, Start, Crash, Tick, DeleteExpired, CreateProcessing, GetExisting,
       ReclaimExpired, GetAgain, Reclaim, MarkSucceeded, MarkFailedRetryable, vars, ghostVars

\* The operation takes effect once before the TTL of its last effect has passed, but for
\* the three ways out that OnceUnlessStale names.
THEOREM TakesEffectOnce == Spec => OnceUnlessStale
<1>1. IInv /\ [Next]_vars =>
        [effects' # effects =>
            now >= coveredUntil \/ stale \/ late \/ \E w \in Workers : RunsExpired(w)]_vars
  BY EffectIsNew, OnlyExecution
<1> QED
  BY <1>1, Invariance, PTL DEF Spec, OnceUnlessStale

-----------------------------------------------------------------------------
(* Alone within the lock, when the lock ends before the record expires *)

\* A step keeps the records of the owners that it leaves alone.
LEMMA RecordKept ==
    ASSUME IInv, RecordStays, ~late' => ~late, now' \in Nat, now =< now',
           row # NoRow => row' # NoRow /\ row'.id = row.id,
           \A v \in Workers : pc'[v] \in Owning =>
                \/ pc[v] \in Owning /\ id'[v] = id[v] /\ started'[v] = started[v]
                \/ row' # NoRow /\ id'[v] = row'.id
    PROVE  RecordStays'
<1>1. \A v \in Workers : started[v] + ProcessingTimeout \in Nat /\ now \in Nat
  BY TimesAssumption DEF IInv, TypeInv, TableType, WorkerType
<1> QED
  BY <1>1 DEF RecordStays, Owns, Overran

\* A worker that moves keeps the others where they are.
LEMMA OthersStay ==
    ASSUME IInv, NEW w \in Workers, Step(w) \/ Crash(w) \/ \E p \in Payloads : Start(w, p)
    PROVE  /\ \A v \in Workers \ {w} :
                pc'[v] = pc[v] /\ id'[v] = id[v] /\ started'[v] = started[v]
           /\ now' = now /\ (~late' => ~late)
<1> USE DEF IInv, TypeInv, WorkerType, TableType, ghostVars
<1>1. CASE \E p \in Payloads : Start(w, p)
  BY <1>1 DEF Start
<1>2. CASE Crash(w)
  BY <1>2 DEF Crash, Answer
<1>3. CASE CreateProcessing(w)
  BY <1>3 DEF CreateProcessing, Own, Goto, Answer
<1>4. CASE GetExisting(w) \/ GetAgain(w)
  BY <1>4 DEF GetExisting, GetAgain, Answer, Decide
<1>5. CASE ReclaimExpired(w) \/ Reclaim(w)
  BY <1>5 DEF ReclaimExpired, Reclaim, TryReclaim, Own, Goto, Answer
<1>6. CASE ExecuteOperation(w)
  BY <1>6 DEF ExecuteOperation, Goto
<1>7. CASE MarkSucceeded(w) \/ MarkFailedRetryable(w)
  <2>1. ~late' => ~late
    BY <1>7 DEF MarkSucceeded, MarkFailedRetryable, WriteResult
  <2> QED
    BY <1>7, <2>1 DEF MarkSucceeded, MarkFailedRetryable, Answer
<1> QED
  BY <1>1, <1>2, <1>3, <1>4, <1>5, <1>6, <1>7 DEF Step

\* No step takes the record from under an owner within its lock: the cleanup only deletes
\* records that expired, and the lock is over by then.
LEMMA StaysKeeps ==
    ASSUME IInv, RecordStays, [Next]_vars, ProcessingTimeout =< TTL
    PROVE  RecordStays'
<1> USE DEF IInv, TypeInv, WorkerType, TableType
<1>1. CASE UNCHANGED vars
  BY <1>1 DEF vars, workerVars, ghostVars, RecordStays, Owns, Overran
<1>2. CASE Tick
  BY <1>2, RecordKept DEF Tick, workerVars, ghostVars
<1>3. CASE DeleteExpired
  <2>1. row # NoRow /\ row.expires =< now /\ row.expires \in Nat
    BY <1>3 DEF DeleteExpired, IsExpired, Records, RecordsOf
  <2>2. UNCHANGED <<now, pc, id, started, late>>
    BY <1>3 DEF DeleteExpired, workerVars, ghostVars
  <2>3. ~late => \A v \in Workers : pc[v] \in Owning => Overran(v)
    <3> SUFFICES ASSUME ~late, NEW v \in Workers, pc[v] \in Owning, ~Overran(v)
                 PROVE  FALSE
      OBVIOUS
    <3>1. row.expires = started[v] + TTL
      BY DEF RecordStays, LockHolds
    <3> QED
      BY <2>1, <3>1, TimesAssumption DEF Overran
  <2> QED
    BY <2>2, <2>3 DEF RecordStays, Overran
<1>4. ASSUME NEW w \in Workers, NEW p \in Payloads, Start(w, p) PROVE RecordStays'
  <2>1. pc'[w] \notin Owning /\ row' = row
    BY <1>4 DEF Start, Owning
  <2> QED
    BY <1>4, <2>1, OthersStay, RecordKept
<1>5. ASSUME NEW w \in Workers, Crash(w) PROVE RecordStays'
  <2>1. pc'[w] \notin Owning /\ row' = row
    BY <1>5 DEF Crash, Answer, Owning
  <2> QED
    BY <1>5, <2>1, OthersStay, RecordKept
<1>6. ASSUME NEW w \in Workers, CreateProcessing(w) PROVE RecordStays'
  <2>1. /\ row # NoRow => row' = row
        /\ pc'[w] \in Owning => row' # NoRow /\ id'[w] = row'.id
    BY <1>6 DEF CreateProcessing, NewRecord, NewRow, NoRow, Own, Goto, Answer, Owning, IdsKnown
  <2> QED
    BY <1>6, <2>1, OthersStay, RecordKept DEF Step
<1>7. ASSUME NEW w \in Workers, GetExisting(w) \/ GetAgain(w) PROVE RecordStays'
  <2>1. pc'[w] \notin Owning /\ row' = row
    BY <1>7 DEF GetExisting, GetAgain, Decide, Answer, Owning
  <2> QED
    BY <1>7, <2>1, OthersStay, RecordKept DEF Step
<1>8. ASSUME NEW w \in Workers, ReclaimExpired(w) \/ Reclaim(w) PROVE RecordStays'
  <2>1. CASE row' = row /\ pc'[w] \notin Owning
    BY <1>8, <2>1, OthersStay, RecordKept DEF Step
  <2>2. CASE TryReclaim(w)
    <3>1. row # NoRow /\ row \in Records /\ row.id > 0 /\ row.id = seen[w].id
      BY <2>2 DEF TryReclaim, Claimable, Matches, IdsKnown
    <3>2. started[w] + ProcessingTimeout \in Nat /\ started[w] + TTL \in Nat
      BY TimesAssumption
    <3>3. row' # NoRow /\ row'.id = row.id
      BY <2>2, <3>1, <3>2, ReclaimedIs DEF TryReclaim
    <3>4. id'[w] = row.id
      BY <2>2, <3>1 DEF TryReclaim, Own
    <3> QED
      BY <1>8, <3>3, <3>4, OthersStay, RecordKept DEF Step
  <2> QED
    BY <1>8, <2>1, <2>2 DEF ReclaimExpired, Reclaim, Goto, Answer, Owning
<1>9. ASSUME NEW w \in Workers, ExecuteOperation(w) PROVE RecordStays'
  <2>1. pc[w] \in Owning /\ UNCHANGED <<row, id, started>>
    BY <1>9 DEF ExecuteOperation, At, Goto, Owning
  <2> QED
    BY <1>9, <2>1, OthersStay, RecordKept DEF Step
<1>10. ASSUME NEW w \in Workers, MarkSucceeded(w) \/ MarkFailedRetryable(w)
       PROVE  RecordStays'
  <2>1. pc'[w] \notin Owning
    BY <1>10 DEF MarkSucceeded, MarkFailedRetryable, Answer, Owning
  <2>2. row # NoRow => row' # NoRow /\ row'.id = row.id
    BY <1>10 DEF MarkSucceeded, MarkFailedRetryable, WriteResult, Marked, Records, RecordsOf,
                 NoRow
  <2> QED
    BY <1>10, <2>1, <2>2, OthersStay, RecordKept DEF Step
<1> QED
  BY <1>1, <1>2, <1>3, <1>4, <1>5, <1>6, <1>7, <1>8, <1>9, <1>10 DEF Next, Step

\* Two requests run the operation at once only after one of them has outlived its lock, if
\* the lock is not configured to outlive the record.
THEOREM AloneWhileLocked ==
    ProcessingTimeout =< TTL => (Spec => []AloneWithinLock)
<1> SUFFICES ASSUME ProcessingTimeout =< TTL PROVE Spec => []AloneWithinLock
  OBVIOUS
<1>1. Init => RecordStays
  BY DEF Init, RecordStays, Owning
<1>2. IInv /\ RecordStays /\ [Next]_vars => RecordStays'
  BY StaysKeeps
<1>3. IInv /\ RecordStays => AloneWithinLock
  BY DEF IInv, LockHolds, RecordStays, AloneWithinLock
<1> QED
  BY <1>1, <1>2, <1>3, Invariance, PTL DEF Spec

\* Whoever owns a record with a result has outlived its lock.
LEMMA ResultHasNoOwner ==
    ASSUME IInv, ~late, row # NoRow, row.status = "succeeded", NEW w \in Workers,
           pc[w] \in Owning, id[w] = row.id
    PROVE  Overran(w)
BY DEF IInv, LockHolds, Owns

\* A stored result stays until it expires, but for late and stale requests.
THEOREM StoredResultStays == Spec => ResultStays
<1>1. ASSUME IInv, [Next]_vars, row # NoRow, row.status = "succeeded", now < row.expires
      PROVE  row' = row \/ late' \/ stale'
  <2>1. row \in Records /\ row.id \in Nat /\ row.expires \in Nat /\ now \in Nat
    BY <1>1 DEF IInv, TypeInv, TableType, Records, RecordsOf
  <2>2. ASSUME NEW w \in Workers, ReclaimExpired(w) PROVE row' = row \/ stale'
    <3>1. started[w] \in Nat /\ started[w] =< now
      BY <1>1, <2>2 DEF ReclaimExpired, At, IInv, TypeInv, WorkerType, RequestKnown
    <3>2. row.expires > started[w]
      BY <1>1, <2>1, <3>1
    <3> QED
      BY <2>2, <3>2 DEF ReclaimExpired
  <2>3. ASSUME NEW w \in Workers, Reclaim(w) PROVE row' = row
    <3>1. seen[w].status = "failed_retryable"
      BY <1>1, <2>3 DEF Reclaim, At, IInv, TypeInv, WorkerType, RequestKnown
    <3>2. ~Claimable(w)
      BY <1>1, <3>1 DEF Claimable, Matches
    <3> QED
      BY <2>3, <3>2 DEF Reclaim, TryReclaim
  <2>4. ASSUME NEW w \in Workers, MarkSucceeded(w) \/ MarkFailedRetryable(w)
        PROVE  row' = row \/ late'
    <3>1. pc[w] \in Owning
      BY <2>4 DEF MarkSucceeded, MarkFailedRetryable, At, Owning
    <3>2. id[w] = row.id => late \/ Overran(w)
      BY <1>1, <3>1, ResultHasNoOwner
    <3> QED
      BY <2>4, <3>2 DEF MarkSucceeded, MarkFailedRetryable, WriteResult, Marked
  <2>5. ASSUME NEW w \in Workers,
               CreateProcessing(w) \/ GetExisting(w) \/ GetAgain(w) \/ ExecuteOperation(w)
        PROVE  row' = row
    BY <1>1, <2>5 DEF CreateProcessing, GetExisting, GetAgain, ExecuteOperation
  <2>6. CASE DeleteExpired
    BY <1>1, <2>1, <2>6 DEF DeleteExpired, IsExpired
  <2>7. CASE \/ Tick \/ UNCHANGED vars
             \/ \E w \in Workers : Crash(w) \/ \E p \in Payloads : Start(w, p)
    BY <2>7 DEF Tick, vars, Crash, Start
  <2> QED
    BY <1>1, <2>2, <2>3, <2>4, <2>5, <2>6, <2>7 DEF Next, Step
<1>2. IInv /\ [Next]_vars =>
        [row # NoRow /\ row.status = "succeeded" /\ now < row.expires
            => row' = row \/ late' \/ stale']_vars
  BY <1>1
<1> QED
  BY <1>2, Invariance, PTL DEF Spec, ResultStays

=============================================================================

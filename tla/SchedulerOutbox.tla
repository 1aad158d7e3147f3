--------------------------- MODULE SchedulerOutbox ---------------------------
(***************************************************************************)
(* How a change of the accounts reaches the scheduler's snapshot: the      *)
(* repository publishes an event to a Redis stream                         *)
(* (backend/internal/repository/scheduler_outbox_stream.go,                *)
(* scheduler_outbox_repo.go), the outbox workers of the processes consume  *)
(* it and rebuild the bucket, and a full rebuild may run at an interval    *)
(* (service/scheduler_snapshot_service.go).                                *)
(*                                                                         *)
(* The database is the number of its changes, and a snapshot the number    *)
(* it was loaded at: SchedulerSnapshot shows that readers see one load.    *)
(***************************************************************************)
EXTENDS Naturals, FiniteSets

CONSTANTS
    Events,         \* what can change, by the event that announces it
    FullRebuild,    \* the event full_rebuild
    NoDedup,        \* events without deduplication: account_bulk_changed
    Consumers,      \* outbox workers, one per process
    Rebuilders,     \* full rebuilds at an interval
    MaxChanges,     \* bound: changes of the database
    MaxFaults       \* bound: failed calls, crashes and losses

ASSUME OutboxAssumption ==
    /\ NoDedup \subseteq Events
    /\ Consumers \cap Rebuilders = {}
    /\ MaxChanges \in Nat /\ MaxFaults \in Nat

VARIABLES
    version,    \* changes of the database so far
    announce,   \* changes committed and not yet published
    dedup,      \* events with a dedup key
    stream,     \* entries not yet delivered to the consumer group
    delivered,  \* entries of each consumer that are not acknowledged
    lock,       \* the lock of the bucket exists
    shown,      \* the version the active snapshot was loaded at
    pc, todo, load,     \* what each worker is doing
    seen,       \* a consumer has begun the rebuild of its batch
    missed,     \* a change may have gone by unapplied
    faults

outboxVars == <<announce, dedup, stream, delivered>>
workerVars == <<pc, todo, seen, load>>
vars == <<version, outboxVars, lock, shown, workerVars, missed, faults>>

Workers == Consumers \cup Rebuilders
Labels == {"idle", "handle", "lock", "load", "set"}

Init ==
    /\ version = 0 /\ shown = 0
    /\ announce = {} /\ dedup = {} /\ stream = {}
    /\ delivered = [c \in Consumers |-> {}]
    /\ lock = FALSE
    /\ pc = [w \in Workers |-> "idle"]
    /\ todo = [c \in Consumers |-> {}]
    /\ seen = [c \in Consumers |-> FALSE]
    /\ load = [w \in Workers |-> 0]
    /\ missed = FALSE /\ faults = 0

Fault == faults < MaxFaults /\ faults' = faults + 1
Goto(w, label) == pc' = [pc EXCEPT ![w] = label]

-----------------------------------------------------------------------------
(* The account repository *)

\* The change is committed; its event is published after that.
Change(e) ==
    /\ version < MaxChanges /\ e \notin announce
    /\ version' = version + 1
    /\ announce' = announce \cup {e}
    /\ UNCHANGED <<dedup, stream, delivered, lock, shown, workerVars, missed, faults>>

\* A handler has yet to come to an earlier entry, and will load the change then.  One that is
\* not pending any more is not read again after a crash.
Ahead(e) ==
    \/ e \in stream
    \/ \E c \in Consumers : delivered[c] # {} /\
        \/ ~seen[c] /\ e \in todo[c]
        \/ FullRebuild \in todo[c]

Append(e) == stream' = stream \cup {e}

\* Publish: SET NX of the dedup key, then the entry.  A duplicate is skipped; an error of
\* the first does not keep the second from being written.
Publish(e) ==
    \/ /\ e \in NoDedup
       /\ Append(e)
       /\ UNCHANGED <<dedup, missed, faults>>
    \/ /\ e \notin NoDedup \cup dedup
       /\ dedup' = dedup \cup {e}
       /\ Append(e)
       /\ UNCHANGED <<missed, faults>>
    \/ /\ e \in dedup
       /\ missed' = (missed \/ ~Ahead(e))
       /\ UNCHANGED <<dedup, stream, faults>>
    \/ /\ e \notin NoDedup /\ Fault
       /\ Append(e)
       /\ UNCHANGED <<dedup, missed>>
    \/ /\ Fault
       /\ dedup' = dedup \cup ({e} \ NoDedup)
       /\ missed' = TRUE
       /\ UNCHANGED stream

\* enqueueSchedulerOutbox; its errors are logged.
Announce(e) ==
    /\ e \in announce
    /\ announce' = announce \ {e}
    /\ Publish(e)
    /\ UNCHANGED <<version, delivered, lock, shown, workerVars>>

\* The process dies between the commit and the event.
Unannounced(e) ==
    /\ e \in announce /\ Fault
    /\ announce' = announce \ {e}
    /\ missed' = TRUE
    /\ UNCHANGED <<version, dedup, stream, delivered, lock, shown, workerVars>>

\* schedulerDedupTTL.
DedupExpires(e) ==
    /\ e \in dedup
    /\ dedup' = dedup \ {e}
    /\ UNCHANGED <<version, announce, stream, delivered, lock, shown, workerVars,
                   missed, faults>>

\* The stream is flushed or evicted: xReadGroup and Ack create the group again, at its end.
StreamLost ==
    /\ Fault
    /\ stream' = {}
    /\ delivered' = [c \in Consumers |-> {}]
    /\ missed' = TRUE
    /\ UNCHANGED <<version, announce, dedup, lock, shown, workerVars>>

-----------------------------------------------------------------------------
(* The outbox workers *)

\* coalesceOutboxEvents, and full_rebuild drops the others of its batch.
Batch(entries) == IF FullRebuild \in entries THEN {FullRebuild} ELSE entries

\* Faulty variants: entries are acknowledged when they are read; what is pending is not
\* read again.
PollAcknowledges(c) ==
    /\ pc[c] = "idle" /\ stream # {}
    /\ stream' = {}
    /\ todo' = [todo EXCEPT ![c] = Batch(stream)]
    /\ Goto(c, "handle")
    /\ UNCHANGED <<version, announce, dedup, delivered, lock, shown, seen, load,
                   missed, faults>>

PollNewOnly(c) ==
    /\ pc[c] = "idle" /\ stream # {}
    /\ delivered' = [delivered EXCEPT ![c] = @ \cup stream]
    /\ stream' = {}
    /\ todo' = [todo EXCEPT ![c] = Batch(stream)]
    /\ Goto(c, "handle")
    /\ UNCHANGED <<version, announce, dedup, lock, shown, seen, load, missed, faults>>

\* Read: what is pending, after a crash or a failed acknowledgement, else what is new.
\* The order of a batch does not matter, because the handlers go by the database.
Poll(c) ==
    /\ pc[c] = "idle"
    /\ LET entries == IF delivered[c] # {} THEN delivered[c] ELSE stream IN
       /\ entries # {}
       /\ delivered' = [delivered EXCEPT ![c] = entries]
       /\ stream' = IF delivered[c] # {} THEN stream ELSE {}
       /\ todo' = [todo EXCEPT ![c] = Batch(entries)]
    /\ Goto(c, "handle")
    /\ UNCHANGED <<version, announce, dedup, lock, shown, seen, load, missed, faults>>

\* handleOutboxEvent.  The bucket is rebuilt for the first event of a batch; the error of
\* an event is logged.
Handle(c) ==
    /\ pc[c] = "handle"
    /\ \E e \in todo[c] :
        /\ todo' = [todo EXCEPT ![c] = @ \ {e}]
        /\ \/ /\ seen' = [seen EXCEPT ![c] = TRUE]
              /\ Goto(c, IF seen[c] THEN "handle" ELSE "lock")
              /\ UNCHANGED <<missed, faults>>
           \/ /\ Fault
              /\ missed' = TRUE
              /\ UNCHANGED <<seen, pc>>
    /\ UNCHANGED <<version, outboxVars, lock, shown, load>>

\* The whole batch is acknowledged, the events that failed too.  checkOutboxLag: a full
\* rebuild follows when the outbox lags or is long.
Acknowledge(c) ==
    /\ pc[c] = "handle" /\ todo[c] = {}
    /\ \/ delivered' = [delivered EXCEPT ![c] = {}] /\ UNCHANGED faults
       \/ Fault /\ UNCHANGED delivered
    /\ \E label \in {"idle", "lock"} : Goto(c, label)
    /\ seen' = [seen EXCEPT ![c] = FALSE]
    /\ UNCHANGED <<version, announce, dedup, stream, lock, shown, todo, load, missed>>

\* The process dies and starts again under the same consumer name: what it had read is
\* still pending.
Crash(c) ==
    /\ pc[c] # "idle" /\ Fault
    /\ Goto(c, "idle")
    /\ todo' = [todo EXCEPT ![c] = {}]
    /\ seen' = [seen EXCEPT ![c] = FALSE]
    /\ load' = [load EXCEPT ![c] = 0]
    /\ UNCHANGED <<version, outboxVars, lock, shown, missed>>

-----------------------------------------------------------------------------
(* Rebuilding: rebuildBucket, and the bucket's part in rebuildBucketsDedup *)

\* At the start and at an interval.
BeginFull(w) ==
    /\ pc[w] = "idle"
    /\ Goto(w, "lock")
    /\ UNCHANGED <<version, outboxVars, lock, shown, todo, seen, load, missed, faults>>

\* Where a worker goes on after a rebuild: with its batch, if it was for an event.
Back(w) == IF w \in Consumers THEN (IF seen[w] THEN "handle" ELSE "idle") ELSE "idle"

\* A rebuild that was for an event did not take place.
Skipped(w) == missed' = (missed \/ Back(w) = "handle")

\* TryLockBucket.  The lock is never given back.  While another's is there the rebuild is
\* skipped, without an error.
TryLock(w) ==
    /\ pc[w] = "lock"
    /\ \/ ~lock /\ lock' = TRUE /\ Goto(w, "load") /\ UNCHANGED missed
       \/ lock /\ Goto(w, Back(w)) /\ Skipped(w) /\ UNCHANGED lock
    /\ UNCHANGED <<version, outboxVars, shown, todo, seen, load, faults>>

Load(w) ==
    /\ pc[w] = "load"
    /\ load' = [load EXCEPT ![w] = version]
    /\ Goto(w, "set")
    /\ UNCHANGED <<version, outboxVars, lock, shown, todo, seen, missed, faults>>

\* SetSnapshot.  A slow one may come after a later load.
Set(w) ==
    /\ pc[w] = "set"
    /\ shown' = load[w]
    /\ missed' = (load[w] # version /\ (missed \/ load[w] < shown))
    /\ load' = [load EXCEPT ![w] = 0]
    /\ Goto(w, Back(w))
    /\ UNCHANGED <<version, outboxVars, lock, todo, seen, faults>>

\* The lock, the load or the write fails.
RebuildFails(w) ==
    /\ pc[w] \in {"lock", "load", "set"} /\ Fault
    /\ Goto(w, Back(w)) /\ Skipped(w)
    /\ load' = [load EXCEPT ![w] = 0]
    /\ UNCHANGED <<version, outboxVars, lock, shown, todo, seen>>

\* Faulty variant: the lock is set without an expiry.
LockStays == FALSE /\ UNCHANGED vars

\* The lock's 30 seconds.
LockExpires ==
    /\ lock
    /\ lock' = FALSE
    /\ UNCHANGED <<version, outboxVars, shown, workerVars, missed, faults>>

-----------------------------------------------------------------------------
Rebuild(w) == TryLock(w) \/ Load(w) \/ Set(w)
Consume(c) == Poll(c) \/ Handle(c) \/ Acknowledge(c) \/ Rebuild(c)

Next ==
    \/ \E e \in Events : Change(e) \/ Announce(e) \/ Unannounced(e) \/ DedupExpires(e)
    \/ \E c \in Consumers : Poll(c) \/ Handle(c) \/ Acknowledge(c) \/ Crash(c)
    \/ \E w \in Rebuilders : BeginFull(w)
    \/ \E w \in Workers : Rebuild(w) \/ RebuildFails(w)
    \/ StreamLost \/ LockExpires

\* The workers run, and so do the full rebuilds; keys expire.
Fairness ==
    /\ \A c \in Consumers : WF_vars(Consume(c))
    /\ \A w \in Rebuilders : WF_vars(BeginFull(w) \/ Rebuild(w))
    /\ WF_vars(LockExpires)

Spec == Init /\ [][Next]_vars /\ Fairness

-----------------------------------------------------------------------------
(* Properties *)

TypeOK ==
    /\ version \in 0..MaxChanges /\ shown \in 0..MaxChanges
    /\ announce \subseteq Events /\ dedup \subseteq Events /\ stream \subseteq Events
    /\ delivered \in [Consumers -> SUBSET Events]
    /\ lock \in BOOLEAN
    /\ pc \in [Workers -> Labels]
    /\ todo \in [Consumers -> SUBSET Events]
    /\ seen \in [Consumers -> BOOLEAN]
    /\ load \in [Workers -> 0..MaxChanges]
    /\ missed \in BOOLEAN /\ faults \in 0..MaxFaults

Quiet ==
    /\ announce = {} /\ stream = {}
    /\ \A c \in Consumers : delivered[c] = {}
    /\ \A w \in Workers : pc[w] = "idle"

\* Once every change is announced and every event handled, the snapshot is current, through
\* crashes of the workers and batches that skip rebuilds, unless an event was dropped by its
\* dedup key or lost, a rebuild found the lock taken or failed, or a slow one wrote last.
AppliedUnlessMissed == Quiet => shown = version \/ missed

\* The state is well formed, and with every change announced and every event handled it is
\* current unless a change was missed.
Inv == TypeOK /\ AppliedUnlessMissed

\* What a consumer has read it acknowledges, and what is in the stream somebody reads,
\* through crashes and failed acknowledgements.
EventsEnd ==
    /\ stream # {} ~> stream = {}
    /\ \A c \in Consumers : delivered[c] # {} ~> delivered[c] = {}

\* A full rebuild at an interval makes good what was missed.
FullRebuildRepairs == <>[](shown = version)

=============================================================================

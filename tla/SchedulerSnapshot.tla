------------------------- MODULE SchedulerSnapshot -------------------------
(***************************************************************************)
(* The scheduler's snapshot of one bucket of accounts, in Redis and in the *)
(* memory of each process (backend/internal/repository/scheduler_cache.go, *)
(* service/scheduler_snapshot_service.go).                                 *)
(*                                                                         *)
(* A snapshot is written to a new key and then made the active one; the    *)
(* accounts' own entries live in keys of their own.  Every Redis command   *)
(* is a step: a pipeline is not a transaction.  Goroutines of several      *)
(* processes write the same bucket: rebuilds, which take the bucket's      *)
(* lock, and requests that found nothing cached, which do not.  What makes *)
(* a rebuild begin is in SchedulerOutbox.                                  *)
(***************************************************************************)
EXTENDS Naturals, Sequences, FiniteSets

CONSTANTS
    Accounts,
    Processes,
    Workers,        \* goroutines: a process and a role
    MaxKeys,        \* bound: versions somebody knows at a time
    NotCached,
    MaxBusy,        \* bound: workers busy at a time
    MaxChanges,     \* bound: changes of the database
    MaxFaults       \* bound: failed rebuilds

ASSUME SnapshotAssumption ==
    /\ Workers \subseteq Processes \X {"rebuild", "request"}
    /\ MaxKeys \in Nat /\ MaxBusy \in Nat /\ MaxChanges \in Nat /\ MaxFaults \in Nat
ASSUME NotCachedAssumption == \A s \in SUBSET Accounts : s # NotCached

VARIABLES
    history,    \* the accounts in the bucket, after each change of the database
    snapshots,  \* what the snapshot keys hold
    active,     \* the active version, NoKey before the first
    lock,       \* the lock of the bucket exists
    owners,     \* the workers that got it, and it has not expired since
    l1,         \* the snapshot each process keeps in memory
    pc, load, ids, key, old,    \* what each worker is doing
    faults

cacheVars == <<snapshots, active, l1>>
lockVars == <<lock, owners>>
writeVars == <<load, ids, key, old>>
vars == <<history, cacheVars, lockVars, pc, writeVars, faults>>

Home(w) == w[1]
Role(w) == w[2]

Now == Len(history)
\* ListSchedulableByGroupIDAndPlatform and its like.
Bucket(n) == history[n]

Keys == 1..MaxKeys
NoKey == 0
Absent == [ids |-> {}, of |-> 0, locked |-> FALSE]

Labels == {"idle", "load", "version", "index", "drop", "zrange", "mget"}

Init ==
    /\ history = <<Accounts>>
    /\ snapshots = [k \in Keys |-> Absent]
    /\ active = NoKey
    /\ lock = FALSE /\ owners = {}
    /\ l1 = [p \in Processes |-> NotCached]
    /\ pc = [w \in Workers |-> "idle"]
    /\ load = [w \in Workers |-> 0]
    /\ ids = [w \in Workers |-> {}]
    /\ key = [w \in Workers |-> NoKey]
    /\ old = [w \in Workers |-> NoKey]
    /\ faults = 0

Fault == faults < MaxFaults /\ faults' = faults + 1

-----------------------------------------------------------------------------
\* An account is edited, and leaves the bucket or joins it.
Change(a) ==
    /\ Now =< MaxChanges
    /\ history' = Append(history,
           IF a \in Bucket(Now) THEN Bucket(Now) \ {a} ELSE Bucket(Now) \cup {a})
    /\ UNCHANGED <<cacheVars, lockVars, pc, writeVars, faults>>

-----------------------------------------------------------------------------
Goto(w, label) == pc' = [pc EXCEPT ![w] = label]

\* An idle worker that may begin.
Free(w, role) ==
    /\ Role(w) = role /\ pc[w] = "idle"
    /\ Cardinality({v \in Workers : pc[v] # "idle"}) < MaxBusy

\* The keys that hold something, or will, and that somebody can name.
Known(s, a, k, o) ==
    LET written == {x \in {a} \cup {o[w] : w \in Workers} :
                        x \in Keys /\ (x = a \/ s[x] # Absent)}
    IN written \cup ({k[w] : w \in Workers} \ {NoKey})

\* What is left of the keys a, k and o name, with the contents s: versions are counted
\* from the oldest one known.
Settle(s, a, k, o) ==
    \E known \in {Known(s, a, k, o)} :
    \E rank \in {[x \in Keys \cup {NoKey} |->
                    IF x \in known THEN Cardinality({y \in known : y =< x}) ELSE NoKey]} :
        /\ active' = rank[a]
        /\ key' = [w \in Workers |-> rank[k[w]]]
        /\ old' = [w \in Workers |-> rank[o[w]]]
        /\ snapshots' = [x \in Keys |-> IF \E y \in known : rank[y] = x
                                        THEN s[CHOOSE y \in known : rank[y] = x] ELSE Absent]

\* The worker is done with what it was writing or reading.
Forget(w, s) ==
    /\ load' = [load EXCEPT ![w] = 0]
    /\ ids' = [ids EXCEPT ![w] = {}]
    /\ Settle(s, active, [key EXCEPT ![w] = NoKey], [old EXCEPT ![w] = NoKey])
    /\ owners' = owners \ {w}

\* A rebuild invalidates the snapshot in its own process; a request keeps what it loaded.
Remember(w) ==
    l1' = [l1 EXCEPT ![Home(w)] = IF Role(w) = "request" THEN ids[w] ELSE NotCached]

(* Rebuilding the bucket: rebuildBucket, and its part in rebuildBucketsDedup *)

\* Faulty variant: the rebuild goes on without the lock.
RebuildAnyway(w) ==
    /\ Free(w, "rebuild")
    /\ lock' = TRUE /\ owners' = owners \cup {w}
    /\ Goto(w, "load")
    /\ UNCHANGED <<history, cacheVars, writeVars, faults>>

\* For an event of the outbox, or the full rebuild at the start, at its interval, for a
\* lagging outbox or by hand.  TryLockBucket: without the lock the bucket is left as it is.
Rebuild(w) ==
    /\ Free(w, "rebuild")
    /\ ~lock
    /\ lock' = TRUE /\ owners' = owners \cup {w}
    /\ Goto(w, "load")
    /\ UNCHANGED <<history, cacheVars, writeVars, faults>>

\* loadAccountsFromDB.
Load(w) ==
    /\ pc[w] = "load"
    /\ load' = [load EXCEPT ![w] = Now]
    /\ ids' = [ids EXCEPT ![w] = Bucket(Now)]
    /\ Goto(w, "version")
    /\ UNCHANGED <<history, cacheVars, lockVars, key, old, faults>>

\* INCR: a version nobody else gets.
NextVersion ==
    1 + Cardinality({k \in Keys : k = active \/ \E w \in Workers : k \in {key[w], old[w]}})

\* ZADD of the next part of the load under key k, if one is left.
WriteNext(w, k) ==
    LET rest == ids[w] \ snapshots[k].ids
        part == IF rest = {} THEN {} ELSE {CHOOSE a \in rest : TRUE}
    IN snapshots' = [snapshots EXCEPT ![k].ids = @ \cup part]

\* SetSnapshot, SetSnapshotIndex: GET of the active version, INCR and the first ZADD.  The
\* last two can come right after the GET, for nobody else sees the new version yet.
NewVersion(w) ==
    /\ pc[w] = "version" /\ NextVersion \in Keys
    /\ old' = [old EXCEPT ![w] = active]
    /\ key' = [key EXCEPT ![w] = NextVersion]
    /\ WriteNext(w, NextVersion)
    /\ Goto(w, "index")
    /\ UNCHANGED <<history, active, l1, lockVars, load, ids, faults>>

Written(w) == snapshots[key[w]].ids

WriteIndex(w) ==
    /\ pc[w] = "index" /\ ~(ids[w] \subseteq Written(w))
    /\ WriteNext(w, key[w])
    /\ UNCHANGED <<history, active, l1, lockVars, pc, writeVars, faults>>

\* Faulty variant: the version is switched before its index is complete.
IndexBegun(w) == ids[w] = {} \/ Written(w) # {}

IndexComplete(w) == ids[w] \subseteq Written(w)

\* SET of the active version, and of the ready flag.
Activate(w) ==
    /\ pc[w] = "index" /\ IndexComplete(w)
    /\ LET s == [snapshots EXCEPT ![key[w]].of = load[w], ![key[w]].locked = (w \in owners)]
       IN Settle(s, key[w], key, old)
    /\ Goto(w, "drop")
    /\ UNCHANGED <<history, l1, lockVars, load, ids, faults>>

\* DEL of the old version.
DropOld(w) ==
    /\ pc[w] = "drop"
    /\ Remember(w)
    /\ Forget(w, [k \in Keys |->
                     IF k = old[w] /\ old[w] # key[w] THEN Absent ELSE snapshots[k]])
    /\ Goto(w, "idle")
    /\ UNCHANGED <<history, lock, faults>>

\* An error or a crash ends the rebuild; what was written stays.
RebuildFails(w) ==
    /\ pc[w] \in {"load", "version", "index", "drop"} /\ Fault
    /\ IF Role(w) = "request" /\ pc[w] # "load" THEN Remember(w) ELSE UNCHANGED l1
    /\ Forget(w, snapshots)
    /\ Goto(w, "idle")
    /\ UNCHANGED <<history, lock>>

\* Faulty variant: the lock has no TTL.
LockStays == FALSE /\ UNCHANGED vars

\* The 30 seconds of the lock.  A slow rebuild goes on without it.
LockExpires ==
    /\ lock
    /\ lock' = FALSE /\ owners' = {}
    /\ UNCHANGED <<history, cacheVars, pc, writeVars, faults>>

-----------------------------------------------------------------------------
(* A request: ListSchedulableAccounts and GetSnapshot *)

\* guardFallback: the database is asked, and the cache filled without the lock, or the
\* request fails.
Fallback(w) == Goto(w, "load") \/ Goto(w, "idle")

\* The active version is read ...
Request(w) ==
    /\ Free(w, "request")
    /\ l1[Home(w)] = NotCached
    /\ key' = [key EXCEPT ![w] = active]
    /\ IF active = NoKey THEN Fallback(w) ELSE Goto(w, "zrange")
    /\ UNCHANGED <<history, cacheVars, lockVars, load, ids, old, faults>>

\* ... then its index; an empty one is a miss ...
ZRange(w) ==
    /\ pc[w] = "zrange"
    /\ ids' = [ids EXCEPT ![w] = Written(w)]
    /\ Settle(snapshots, active, [key EXCEPT ![w] = NoKey], old)
    /\ IF Written(w) = {} THEN Fallback(w) ELSE Goto(w, "mget")
    /\ UNCHANGED <<history, l1, lockVars, load, faults>>

\* ... then the entries of its accounts: one that is not there, because its account was
\* deleted, is a miss.
MGet(w) ==
    /\ pc[w] = "mget"
    /\ \/ Remember(w) /\ Goto(w, "idle")
       \/ UNCHANGED l1 /\ Fallback(w)
    /\ Forget(w, snapshots)
    /\ UNCHANGED <<history, lock, faults>>

\* snapshotL1TTL.
L1Expires(p) ==
    /\ l1[p] # NotCached
    /\ l1' = [l1 EXCEPT ![p] = NotCached]
    /\ UNCHANGED <<history, snapshots, active, lockVars, pc, writeVars, faults>>

-----------------------------------------------------------------------------
\* What a goroutine does next once it has begun.
Step(w) ==
    \/ Load(w) \/ NewVersion(w) \/ WriteIndex(w) \/ Activate(w) \/ DropOld(w)
    \/ ZRange(w) \/ MGet(w)

Next ==
    \/ \E a \in Accounts : Change(a)
    \/ \E w \in Workers : Step(w) \/ Rebuild(w) \/ RebuildFails(w) \/ Request(w)
    \/ \E p \in Processes : L1Expires(p)
    \/ LockExpires

\* Rebuilds run to their end and begin again at an interval; keys expire.  A request may
\* be left where it is.
Fairness ==
    /\ \A w \in Workers : Role(w) = "rebuild" => WF_vars(Step(w) \/ Rebuild(w))
    /\ \A p \in {Home(w) : w \in {v \in Workers : Role(v) = "request"}} : WF_vars(L1Expires(p))
    /\ WF_vars(LockExpires)

Spec == Init /\ [][Next]_vars /\ Fairness

-----------------------------------------------------------------------------
(* Properties *)

TypeOK ==
    /\ history \in Seq(SUBSET Accounts) /\ Now \in 1..(MaxChanges + 1)
    /\ snapshots \in [Keys -> [ids : SUBSET Accounts, of : 0..(MaxChanges + 1), locked : BOOLEAN]]
    /\ active \in Keys \cup {NoKey}
    /\ lock \in BOOLEAN /\ owners \subseteq Workers
    /\ DOMAIN l1 = Processes /\ \A p \in Processes : l1[p] = NotCached \/ l1[p] \subseteq Accounts
    /\ pc \in [Workers -> Labels]
    /\ load \in [Workers -> 0..(MaxChanges + 1)]
    /\ ids \in [Workers -> SUBSET Accounts]
    /\ key \in [Workers -> Keys \cup {NoKey}] /\ old \in [Workers -> Keys \cup {NoKey}]
    /\ faults \in 0..MaxFaults

WasTheBucket(s) == \E n \in 1..Now : s = Bucket(n)

\* A request is never given a part of a snapshot, or a mix of two: what it reads between
\* the writes, switches and deletions of others is the bucket as it was at some time.
ServedWhole ==
    /\ \A w \in Workers : pc[w] = "mget" => WasTheBucket(ids[w])
    /\ \A p \in Processes : l1[p] # NotCached => WasTheBucket(l1[p])

\* The active version holds what one load of the database returned: of concurrent writers
\* none adds to the version of another, and they drop only what was active before.
ActiveIsKept ==
    active # NoKey =>
        /\ snapshots[active].of \in 1..Now
        /\ snapshots[active].ids = Bucket(snapshots[active].of)

\* The state is well formed, the active version is one load of the database, and requests are
\* given whole ones.
Inv == TypeOK /\ ActiveIsKept /\ ServedWhole

\* Of the rebuilds that hold the lock to their end, none replaces what a later one of
\* them has loaded.
NoneOverwritesNewer ==
    [][\A k, m \in Keys :
          (active = k /\ active' = m /\ snapshots[k].locked /\ snapshots'[m].locked)
              => snapshots[k].of =< snapshots'[m].of]_vars

\* The load that is active, and whether its writer kept the lock.
Shown == IF active = NoKey THEN 0 ELSE snapshots[active].of
Kept == active # NoKey /\ snapshots[active].locked

\* What a request that got hold of a version is about to return, if it is still there.
Reading(w) ==
    IF pc[w] = "zrange" /\ Written(w) # {} THEN Written(w)
    ELSE IF pc[w] = "mget" THEN ids[w]
    ELSE NotCached

\* What a writer has loaded and is about to write, or has written.
Loaded(w) == IF pc[w] \in {"version", "index", "drop"} THEN load[w] ELSE 0

Register == INSTANCE BucketRegister WITH
    Nothing <- NotCached,
    shown <- Shown, kept <- Kept,
    loaded <- [w \in Workers |-> Loaded(w)],
    reading <- [w \in Workers |-> Reading(w)],
    copies <- l1

\* The keys, the pipelines and the pointer implement a register: a snapshot appears at
\* once and whole, and what a request returns is the one that was active when it asked,
\* whatever is written, switched and dropped before it has read it.
ImplementsRegister == Register!Spec

\* A reader of the cache gets what the database holds, or nothing.
Fresh ==
    \/ active = NoKey
    \/ snapshots[active].ids = {}
    \/ snapshots[active].ids = Bucket(Now)

\* With a full rebuild at an interval every process goes back to serving what the database
\* holds, whatever was missed, overwritten or kept in memory.
FreshInTheEnd ==
    <>[](Fresh /\ \A p \in Processes : l1[p] = NotCached \/ l1[p] = Bucket(Now))
=============================================================================

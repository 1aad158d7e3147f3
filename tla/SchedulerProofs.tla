--------------------------- MODULE SchedulerProofs ---------------------------
(***************************************************************************)
(* Proofs about SchedulerSnapshot, for any accounts, workers, processes    *)
(* and keys, and about SchedulerOutbox, for any outbox workers, full       *)
(* rebuilds and events, and any bounds on the changes and the faults.      *)
(***************************************************************************)
EXTENDS SchedulerSnapshot, FiniteSetTheorems, TLAPS

-----------------------------------------------------------------------------
(* The inductive invariant of the snapshot *)

\* What a key holds.
Contents == [ids : SUBSET Accounts, of : 0..(MaxChanges + 1), locked : BOOLEAN]

Names == Keys \cup {NoKey}

\* TypeOK in the parts about the cache and about the rest.
CacheType ==
    /\ snapshots \in [Keys -> Contents]
    /\ active \in Names
    /\ key \in [Workers -> Names] /\ old \in [Workers -> Names]

OtherType ==
    /\ history \in Seq(SUBSET Accounts) /\ Now \in 1..(MaxChanges + 1)
    /\ lock \in BOOLEAN /\ owners \subseteq Workers
    /\ DOMAIN l1 = Processes /\ \A p \in Processes : l1[p] = NotCached \/ l1[p] \subseteq Accounts
    /\ pc \in [Workers -> Labels]
    /\ load \in [Workers -> 0..(MaxChanges + 1)]
    /\ ids \in [Workers -> SUBSET Accounts]
    /\ faults \in 0..MaxFaults

\* The keys that somebody names; they are counted from 1, and the others are empty.
Named(a, k, o) == {x \in Keys : x = a \/ \E w \in Workers : x \in {k[w], o[w]}}

Counted ==
    /\ \E n \in 0..MaxKeys : Named(active, key, old) = 1..n
    /\ \A x \in Keys \ Named(active, key, old) : snapshots[x] = Absent

\* One load of the database.
Whole(c) == c.of \in 1..Now /\ c.ids = Bucket(c.of)

\* Which keys a worker names at which place.
NamesOK(k, o, p) ==
    \A w \in Workers :
        /\ p[w] \in {"idle", "load", "version", "mget"} => k[w] = NoKey
        /\ p[w] \in {"index", "drop", "zrange"} => k[w] # NoKey
        /\ p[w] \notin {"index", "drop"} => o[w] = NoKey

\* A key whose index is being written is named by its writer alone, and holds a part of its load.
WriterAlone(s, a, k, o, p, i) ==
    \A w \in Workers : p[w] = "index" =>
        /\ k[w] # a /\ s[k[w]].ids \subseteq i[w]
        /\ \A v \in Workers : (v # w => k[v] # k[w]) /\ o[v] # k[w]

\* The active key holds one load, and nobody is about to drop it.
ActiveWhole(s, a, o, p) ==
    /\ a # NoKey => Whole(s[a])
    /\ \A w \in Workers : p[w] = "drop" => a # NoKey /\ o[w] # a

\* So does the key that a request is about to read, unless it was dropped.
ReadWhole(s, k, p) ==
    \A w \in Workers : p[w] = "zrange" => s[k[w]] = Absent \/ Whole(s[k[w]])

KeysInv(s, a, k, o, p, i) ==
    /\ NamesOK(k, o, p) /\ WriterAlone(s, a, k, o, p, i)
    /\ ActiveWhole(s, a, o, p) /\ ReadWhole(s, k, p)

\* What a writer has loaded, and a request has read, is the bucket as it was at some time.
LoadInv ==
    \A w \in Workers :
        /\ pc[w] \in {"version", "index", "drop"} =>
               load[w] \in 1..Now /\ ids[w] = Bucket(load[w])
        /\ pc[w] = "mget" => WasTheBucket(ids[w])

L1Inv == \A p \in Processes : l1[p] # NotCached => WasTheBucket(l1[p])

\* One worker at a time has the lock, and what it loaded is not older than what the one
\* before it wrote.
LockInv ==
    /\ ~lock => owners = {}
    /\ \A v, w \in owners : v = w
    /\ \A w \in owners :
        pc[w] \in {"version", "index"} /\ active # NoKey /\ snapshots[active].locked =>
            snapshots[active].of =< load[w]

IInv ==
    /\ CacheType /\ OtherType /\ Counted
    /\ KeysInv(snapshots, active, key, old, pc, ids)
    /\ LoadInv /\ L1Inv /\ LockInv

-----------------------------------------------------------------------------
(* Counting the keys *)

\* The rank of a key among those known.
Below(K, x) == {y \in K : y =< x}

\* Ranks count the known keys from 1 in their order.
LEMMA Ranks ==
    ASSUME NEW K \in SUBSET Keys
    PROVE  /\ Cardinality(K) \in 0..MaxKeys
           /\ \A x \in K : Cardinality(Below(K, x)) \in 1..Cardinality(K)
           /\ \A x, y \in K : Cardinality(Below(K, x)) = Cardinality(Below(K, y)) => x = y
           /\ \A n \in 1..Cardinality(K) : \E x \in K : Cardinality(Below(K, x)) = n
<1>1. IsFiniteSet(Keys) /\ Cardinality(Keys) = MaxKeys
  BY SnapshotAssumption, FS_Interval DEF Keys
<1>2. IsFiniteSet(K) /\ Cardinality(K) \in 0..MaxKeys
  BY <1>1, FS_Subset, FS_CardinalityType, SnapshotAssumption
<1>3. ASSUME NEW x \in K
      PROVE  /\ IsFiniteSet(Below(K, x)) /\ Below(K, x) \subseteq K
             /\ Cardinality(Below(K, x)) \in 1..Cardinality(K)
  <2>1. Below(K, x) \in SUBSET K /\ x \in Below(K, x)
    BY SnapshotAssumption DEF Below, Keys
  <2>2. IsFiniteSet(Below(K, x)) /\ Cardinality(Below(K, x)) =< Cardinality(K)
    BY <1>2, <2>1, FS_Subset
  <2>3. Cardinality(Below(K, x)) \in Nat /\ Cardinality(Below(K, x)) # 0
    BY <2>1, <2>2, FS_CardinalityType, FS_EmptySet
  <2> QED
    BY <1>2, <2>1, <2>2, <2>3
<1>4. ASSUME NEW x \in K, NEW y \in K, x < y
      PROVE  Cardinality(Below(K, x)) # Cardinality(Below(K, y))
  <2>1. \A z \in K : z \in Nat
    BY SnapshotAssumption DEF Keys
  <2>2. Below(K, x) \in SUBSET Below(K, y)
    BY <1>4, <2>1 DEF Below
  <2>3. y \in Below(K, y) /\ y \notin Below(K, x)
    BY <1>4, <2>1 DEF Below
  <2> QED
    BY <1>3, <2>2, <2>3, FS_Subset
<1>5. \A x, y \in K : Cardinality(Below(K, x)) = Cardinality(Below(K, y)) => x = y
  <2>1. \A x, y \in K : x < y \/ y < x \/ x = y
    BY SnapshotAssumption DEF Keys
  <2> QED
    BY <1>4, <2>1
<1>6. \A n \in 1..Cardinality(K) : \E x \in K : Cardinality(Below(K, x)) = n
  <2> DEFINE f == [x \in K |-> Cardinality(Below(K, x))]
  <2> DEFINE T == 1..Cardinality(K)
  <2>1. f \in Injection(K, T)
    BY <1>3, <1>5 DEF Injection, IsInjective
  <2>2. IsFiniteSet(T) /\ Cardinality(T) = Cardinality(K)
    BY <1>2, FS_Interval
  <2>3. f \in Surjection(K, T)
    <3> HIDE DEF f, T
    <3> QED BY <2>1, <2>2, FS_Injection
  <2> QED
    BY <2>3 DEF Surjection
<1> QED
  BY <1>2, <1>3, <1>5, <1>6

\* What Settle does to the known keys: it renames them to 1, 2 and so on.
Renames(r, K, s, a, k, o) ==
    /\ r \in [Names -> Names]
    /\ \A x \in Names : r[x] # NoKey <=> x \in K
    /\ \A x, y \in K : r[x] = r[y] => x = y
    /\ \A x \in K : r[x] \in 1..Cardinality(K)
    /\ \A n \in 1..Cardinality(K) : \E x \in K : r[x] = n
    /\ active' = r[a]
    /\ key' = [w \in Workers |-> r[k[w]]]
    /\ old' = [w \in Workers |-> r[o[w]]]
    /\ snapshots' = [x \in Keys |-> IF x \in 1..Cardinality(K) THEN snapshots'[x] ELSE Absent]
    /\ \A x \in K : snapshots'[r[x]] = s[x]

\* The names it gives are the ranks of the known keys.
LEMMA SettleRenames ==
    ASSUME NEW s, NEW a \in Names, NEW k \in [Workers -> Names], NEW o \in [Workers -> Names],
           Settle(s, a, k, o)
    PROVE  \E r \in [Names -> Names] : Renames(r, Known(s, a, k, o), s, a, k, o)
<1> DEFINE K == Known(s, a, k, o)
           r == [x \in Names |-> IF x \in K THEN Cardinality(Below(K, x)) ELSE NoKey]
<1>1. K \in SUBSET Keys
  BY DEF Known, Names
<1>2. /\ Cardinality(K) \in 0..MaxKeys
      /\ \A x \in K : r[x] = Cardinality(Below(K, x)) /\ r[x] \in 1..Cardinality(K)
      /\ \A x, y \in K : r[x] = r[y] => x = y
      /\ \A n \in 1..Cardinality(K) : \E x \in K : r[x] = n
  BY <1>1, Ranks DEF Names
<1>3. \A n \in 1..Cardinality(K) : n \in Keys /\ n # NoKey
  <2> HIDE DEF K, r
  <2> QED
    BY <1>2, SnapshotAssumption DEF Keys, NoKey
<1>4. r \in [Names -> Names]
  <2>1. ASSUME NEW x \in Names PROVE r[x] \in Names
    <3>1. CASE x \in K
      <4> HIDE DEF K, r
      <4> QED
        BY <1>2, <1>3, <3>1 DEF Names
    <3>2. CASE x \notin K
      BY <3>2 DEF Names
    <3> QED
      BY <3>1, <3>2
  <2> QED
    BY <2>1
<1>5. \A x \in Names : r[x] # NoKey <=> x \in K
  BY <1>2, <1>3
<1>6. /\ active' = r[a]
      /\ key' = [w \in Workers |-> r[k[w]]] /\ old' = [w \in Workers |-> r[o[w]]]
      /\ snapshots' = [x \in Keys |-> IF \E y \in K : r[y] = x
                                      THEN s[CHOOSE y \in K : r[y] = x] ELSE Absent]
  <2> DEFINE Rank(N) == [x \in Keys \cup {NoKey} |->
                            IF x \in N THEN Cardinality({y \in N : y =< x}) ELSE NoKey]
  <2>1. r = Rank(K)
    BY DEF Below, Names
  <2>2. PICK known \in {K} : \E rank \in {Rank(known)} :
            /\ active' = rank[a]
            /\ key' = [w \in Workers |-> rank[k[w]]]
            /\ old' = [w \in Workers |-> rank[o[w]]]
            /\ snapshots' = [x \in Keys |-> IF \E y \in known : rank[y] = x
                                      THEN s[CHOOSE y \in known : rank[y] = x] ELSE Absent]
    BY DEF Settle
  <2> HIDE DEF K, r, Rank
  <2>3. known = K
    OBVIOUS
  <2> QED
    BY <2>1, <2>2, <2>3
<1> HIDE DEF K, r
<1>7. \A x \in K : snapshots'[r[x]] = s[x]
  <2> TAKE x \in K
  <2>1. (CHOOSE y \in K : r[y] = r[x]) = x
    BY <1>2
  <2>2. r[x] \in Keys
    BY <1>2, <1>3
  <2> QED
    BY <1>6, <2>1, <2>2
<1>8. snapshots' = [x \in Keys |-> IF x \in 1..Cardinality(K) THEN snapshots'[x] ELSE Absent]
  BY <1>2, <1>6
<1>9. Renames(r, K, s, a, k, o)
  BY <1>2, <1>4, <1>5, <1>6, <1>7, <1>8 DEF Renames
<1> QED
  BY <1>4, <1>9 DEF K

\* Settle keeps what is known of the keys.
LEMMA SettleKeeps ==
    ASSUME NEW s \in [Keys -> Contents], NEW a \in Names,
           NEW k \in [Workers -> Names], NEW o \in [Workers -> Names], NEW p, NEW i,
           Settle(s, a, k, o), KeysInv(s, a, k, o, p, i)
    PROVE  /\ CacheType' /\ Counted'
           /\ KeysInv(snapshots', active', key', old', p, i)
           /\ active' = NoKey <=> a = NoKey
           /\ a # NoKey => snapshots'[active'] = s[a]
           /\ \A w \in Workers : k[w] # NoKey => snapshots'[key'[w]] = s[k[w]]
<1> DEFINE K == Known(s, a, k, o)
<1>1. PICK r \in [Names -> Names] : Renames(r, K, s, a, k, o)
  BY SettleRenames
<1>2. K \in SUBSET Keys /\ Cardinality(K) \in 0..MaxKeys /\ NoKey \notin K
  BY Ranks, SnapshotAssumption DEF Known, Names, Keys, NoKey
<1>3. /\ a # NoKey => a \in K
      /\ \A w \in Workers : k[w] # NoKey => k[w] \in K
  BY DEF Known, Names
<1>4. /\ active' = NoKey <=> a = NoKey
      /\ \A w \in Workers : key'[w] = NoKey <=> k[w] = NoKey
      /\ \A w \in Workers : old'[w] = NoKey <=> o[w] \notin K
  BY <1>1, <1>2, <1>3 DEF Renames, Names
<1>5. /\ a # NoKey => snapshots'[active'] = s[a]
      /\ \A w \in Workers : k[w] # NoKey => snapshots'[key'[w]] = s[k[w]]
  BY <1>1, <1>3 DEF Renames
<1>6. /\ \A w \in Workers : k[w] # NoKey /\ k[w] # a => key'[w] # active'
      /\ \A v, w \in Workers : k[w] # NoKey /\ k[v] # k[w] => key'[v] # key'[w]
      /\ \A v, w \in Workers : k[w] # NoKey /\ o[v] # k[w] => old'[v] # key'[w]
      /\ \A w \in Workers : a # NoKey /\ o[w] # a => old'[w] # active'
  BY <1>1, <1>3, <1>4 DEF Renames, Names
<1>7. CacheType'
  <2>1. active' \in Names /\ key' \in [Workers -> Names] /\ old' \in [Workers -> Names]
    BY <1>1 DEF Renames
  <2>2. Absent \in Contents
    BY SnapshotAssumption DEF Absent, Contents
  <2>3. \A x \in 1..Cardinality(K) : snapshots'[x] \in Contents
    BY <1>1, <1>2 DEF Renames
  <2>4. snapshots' \in [Keys -> Contents]
    BY <1>1, <2>2, <2>3 DEF Renames
  <2> QED
    BY <2>1, <2>4 DEF CacheType
<1>8. Counted'
  <2> DEFINE N == Named(active', key', old')
  <2>1. ASSUME NEW x \in N PROVE x \in 1..Cardinality(K)
    BY <1>1, <1>2 DEF Named, Renames, Names, Keys, NoKey
  <2>2. ASSUME NEW n \in 1..Cardinality(K) PROVE n \in N
    <3>1. PICK x \in K : r[x] = n
      BY <1>1 DEF Renames
    <3>2. x = a \/ \E w \in Workers : x \in {k[w], o[w]}
      BY DEF Known
    <3>3. n \in Keys
      BY <1>2, SnapshotAssumption DEF Keys
    <3> QED
      BY <1>1, <3>1, <3>2, <3>3 DEF Named, Renames
  <2>3. N = 1..Cardinality(K)
    BY <2>1, <2>2
  <2>4. \A x \in Keys \ N : snapshots'[x] = Absent
    BY <1>1, <2>3 DEF Renames
  <2> QED
    BY <1>2, <2>3, <2>4 DEF Counted
<1>9. NamesOK(key', old', p)
  BY <1>2, <1>4 DEF KeysInv, NamesOK
<1>10. WriterAlone(snapshots', active', key', old', p, i)
  BY <1>5, <1>6 DEF KeysInv, NamesOK, WriterAlone
<1>11. ActiveWhole(snapshots', active', old', p) /\ ReadWhole(snapshots', key', p)
  BY <1>4, <1>5, <1>6 DEF KeysInv, NamesOK, ActiveWhole, ReadWhole
<1> QED
  BY <1>4, <1>5, <1>7, <1>8, <1>9, <1>10, <1>11 DEF KeysInv

-----------------------------------------------------------------------------
(* The steps *)

\* What is active stays so, under whatever name.
ActiveKept ==
    /\ active' = NoKey <=> active = NoKey
    /\ active # NoKey => snapshots'[active'] = snapshots[active]

\* What the others are about to read stays so, or is dropped.
ReadsKept(w) ==
    \A v \in Workers : v # w /\ pc[v] = "zrange" =>
        snapshots'[key'[v]].ids = snapshots[key[v]].ids

ReadsLost(w) ==
    \A v \in Workers : v # w /\ pc[v] = "zrange" =>
        snapshots'[key'[v]].ids \in {snapshots[key[v]].ids, {}}

\* What is active is replaced by what is not older, if both were written with the lock.
Ordered ==
    active # NoKey /\ snapshots[active].locked /\ snapshots'[active'].locked =>
        snapshots[active].of =< snapshots'[active'].of

\* A worker goes to one of its labels.
LEMMA GotoIs ==
    ASSUME OtherType, NEW w \in Workers, NEW l \in Labels, Goto(w, l)
    PROVE  /\ pc' \in [Workers -> Labels] /\ pc'[w] = l
           /\ \A v \in Workers : v # w => pc'[v] = pc[v]
BY DEF OtherType, Goto

\* The database changes; what was loaded before is what it was.
LEMMA ChangeKeeps ==
    ASSUME IInv, NEW a \in Accounts, Change(a)
    PROVE  IInv'
<1> DEFINE b == IF a \in Bucket(Now) THEN Bucket(Now) \ {a} ELSE Bucket(Now) \cup {a}
<1>1. history \in Seq(SUBSET Accounts) /\ Now \in 1..(MaxChanges + 1) /\ Now =< MaxChanges
  BY DEF IInv, OtherType, Change
<1>2. b \in SUBSET Accounts /\ history' = Append(history, b)
  BY <1>1 DEF Change, Bucket, Now
<1> HIDE DEF b
<1>3. /\ history' \in Seq(SUBSET Accounts) /\ Now' = Now + 1
      /\ \A n \in 1..Now : Bucket(n)' = Bucket(n)
  BY <1>1, <1>2 DEF Now, Bucket
<1>4. UNCHANGED <<cacheVars, lockVars, pc, writeVars, faults>>
  BY DEF Change
<1>5. \A n \in 1..Now : n \in 1..Now'
  BY <1>1, <1>3
<1>6. \A c : Whole(c) => Whole(c)'
  BY <1>3, <1>5 DEF Whole
<1>7. \A c : WasTheBucket(c) => WasTheBucket(c)'
  BY <1>3, <1>5 DEF WasTheBucket
<1>8. CacheType' /\ Counted'
  BY <1>4 DEF IInv, CacheType, Counted, Named, cacheVars, writeVars
<1>9. OtherType'
  BY <1>1, <1>3, <1>4, SnapshotAssumption DEF IInv, OtherType, cacheVars, lockVars, writeVars
<1>10. KeysInv(snapshots, active, key, old, pc, ids)'
  BY <1>4, <1>6 DEF IInv, KeysInv, NamesOK, WriterAlone, ActiveWhole, ReadWhole, cacheVars,
                    writeVars
<1>11. LoadInv'
  BY <1>3, <1>4, <1>5, <1>7 DEF IInv, LoadInv, writeVars
<1>12. L1Inv' /\ LockInv'
  BY <1>4, <1>7 DEF IInv, L1Inv, LockInv, cacheVars, lockVars, writeVars
<1> QED
  BY <1>8, <1>9, <1>10, <1>11, <1>12 DEF IInv

\* The keys stay as they are when a worker goes on that is writing and reading none.
LEMMA KeysStay ==
    ASSUME IInv, NEW w \in Workers,
           UNCHANGED <<history, snapshots, active, key, old>>,
           key[w] = NoKey, old[w] = NoKey, pc'[w] \in {"idle", "load", "version"},
           \A v \in Workers : v # w => pc'[v] = pc[v] /\ ids'[v] = ids[v]
    PROVE  CacheType' /\ Counted' /\ KeysInv(snapshots, active, key, old, pc, ids)'
<1>1. CacheType' /\ Counted'
  BY DEF IInv, CacheType, Counted, Named
<1>2. NamesOK(key, old, pc)' /\ WriterAlone(snapshots, active, key, old, pc, ids)'
  BY DEF IInv, KeysInv, NamesOK, WriterAlone
<1>3. ActiveWhole(snapshots, active, old, pc)' /\ ReadWhole(snapshots, key, pc)'
  BY DEF IInv, KeysInv, ActiveWhole, ReadWhole, Whole, Bucket, Now
<1> QED
  BY <1>1, <1>2, <1>3 DEF KeysInv

\* A rebuild begins with the lock, which nobody has.
LEMMA RebuildKeeps ==
    ASSUME IInv, NEW w \in Workers, Rebuild(w)
    PROVE  IInv'
<1>1. /\ pc[w] = "idle" /\ key[w] = NoKey /\ old[w] = NoKey
      /\ UNCHANGED <<history, snapshots, active, l1, load, ids, key, old, faults>>
  BY DEF Rebuild, Free, cacheVars, writeVars, IInv, KeysInv, NamesOK
<1>2. /\ pc' \in [Workers -> Labels] /\ pc'[w] = "load"
      /\ \A v \in Workers : v # w => pc'[v] = pc[v]
  BY GotoIs DEF Rebuild, IInv, Labels
<1>3. lock' = TRUE /\ owners' = {w}
  BY DEF Rebuild, IInv, LockInv
<1>4. CacheType' /\ Counted' /\ KeysInv(snapshots, active, key, old, pc, ids)'
  BY <1>1, <1>2, KeysStay
<1>5. OtherType'
  BY <1>1, <1>2, <1>3 DEF IInv, OtherType, Now
<1>6. LoadInv' /\ L1Inv' /\ LockInv'
  BY <1>1, <1>2, <1>3 DEF IInv, LoadInv, L1Inv, LockInv, WasTheBucket, Bucket, Now
<1> QED
  BY <1>4, <1>5, <1>6 DEF IInv

\* What a worker loads is the bucket, and no snapshot is newer.
LEMMA LoadKeeps ==
    ASSUME IInv, NEW w \in Workers, Load(w)
    PROVE  IInv'
<1>1. /\ pc[w] = "load" /\ key[w] = NoKey /\ old[w] = NoKey
      /\ UNCHANGED <<history, snapshots, active, l1, lock, owners, key, old, faults>>
  BY DEF Load, cacheVars, lockVars, IInv, KeysInv, NamesOK
<1>2. /\ pc' \in [Workers -> Labels] /\ pc'[w] = "version"
      /\ \A v \in Workers : v # w => pc'[v] = pc[v]
  BY GotoIs DEF Load, IInv, Labels
<1>3. Now \in 1..(MaxChanges + 1) /\ Bucket(Now) \in SUBSET Accounts
  BY DEF IInv, OtherType, Bucket, Now
<1>4. /\ load' \in [Workers -> 0..(MaxChanges + 1)] /\ ids' \in [Workers -> SUBSET Accounts]
      /\ load'[w] = Now /\ ids'[w] = Bucket(Now)
      /\ \A v \in Workers : v # w => load'[v] = load[v] /\ ids'[v] = ids[v]
  BY <1>3, SnapshotAssumption DEF Load, IInv, OtherType
<1>5. CacheType' /\ Counted' /\ KeysInv(snapshots, active, key, old, pc, ids)'
  BY <1>1, <1>2, <1>4, KeysStay
<1>6. OtherType'
  BY <1>1, <1>2, <1>4 DEF IInv, OtherType, Now
<1>7. LoadInv' /\ L1Inv'
  BY <1>1, <1>2, <1>3, <1>4, SnapshotAssumption DEF IInv, LoadInv, L1Inv, WasTheBucket, Bucket, Now
<1>8. active # NoKey => snapshots[active].of =< Now
  BY <1>3 DEF IInv, KeysInv, ActiveWhole, Whole
<1>9. LockInv'
  BY <1>1, <1>2, <1>4, <1>8 DEF IInv, LockInv, OtherType
<1> QED
  BY <1>5, <1>6, <1>7, <1>9 DEF IInv

\* The lock and what a process keeps in memory expire.
LEMMA ExpiryKeeps ==
    ASSUME IInv, LockExpires \/ \E p \in Processes : L1Expires(p)
    PROVE  IInv'
<1>1. /\ UNCHANGED <<history, snapshots, active, pc, load, ids, key, old, faults>>
      /\ (lock' = FALSE /\ owners' = {}) \/ UNCHANGED <<lock, owners>>
      /\ l1' = l1 \/ \E p \in Processes : l1' = [l1 EXCEPT ![p] = NotCached]
  BY DEF LockExpires, L1Expires, cacheVars, lockVars, writeVars
<1>2. CacheType' /\ Counted' /\ OtherType'
  BY <1>1 DEF IInv, CacheType, Counted, Named, OtherType, Now
<1>3. KeysInv(snapshots, active, key, old, pc, ids)'
  BY <1>1 DEF IInv, KeysInv, NamesOK, WriterAlone, ActiveWhole, ReadWhole, Whole, Bucket, Now
<1>4. LoadInv' /\ L1Inv' /\ LockInv'
  BY <1>1 DEF IInv, OtherType, LoadInv, L1Inv, LockInv, WasTheBucket, Bucket, Now
<1> QED
  BY <1>2, <1>3, <1>4 DEF IInv

\* WriteNext adds to one key what is in the load.
LEMMA WriteNextAdds ==
    ASSUME CacheType, OtherType, NEW w \in Workers, NEW k \in Keys, WriteNext(w, k)
    PROVE  /\ snapshots' \in [Keys -> Contents]
           /\ \A x \in Keys : x # k => snapshots'[x] = snapshots[x]
           /\ snapshots'[k].ids \subseteq snapshots[k].ids \cup ids[w]
<1> DEFINE rest == ids[w] \ snapshots[k].ids
           part == IF rest = {} THEN {} ELSE {CHOOSE a \in rest : TRUE}
           new == snapshots[k].ids \cup part
<1>1. snapshots[k] \in Contents /\ ids[w] \in SUBSET Accounts
  BY DEF CacheType, OtherType
<1>2. part \subseteq ids[w]
  OBVIOUS
<1>3. snapshots' = [snapshots EXCEPT ![k].ids = new]
  BY DEF WriteNext
<1> HIDE DEF rest, part
<1>4. new \in SUBSET Accounts
  BY <1>1, <1>2 DEF Contents
<1>5. snapshots'[k] = [snapshots[k] EXCEPT !.ids = new] /\ snapshots'[k].ids = new
  BY <1>1, <1>3 DEF CacheType, Contents
<1>6. snapshots'[k] \in Contents
  BY <1>1, <1>4, <1>5 DEF Contents
<1>7. snapshots' \in [Keys -> Contents]
  BY <1>3, <1>6 DEF CacheType
<1> QED
  BY <1>2, <1>3, <1>5, <1>7 DEF CacheType

\* A new version is a key that nobody names, hence empty.
LEMMA NewVersionKeeps ==
    ASSUME IInv, NEW w \in Workers, NewVersion(w)
    PROVE  IInv' /\ ActiveKept /\ ReadsKept(w)
<1> DEFINE n == NextVersion
<1>1. /\ pc[w] = "version" /\ key[w] = NoKey /\ old[w] = NoKey /\ n \in Keys
      /\ UNCHANGED <<history, active, l1, lock, owners, load, ids, faults>>
      /\ old' = [old EXCEPT ![w] = active] /\ key' = [key EXCEPT ![w] = n]
      /\ WriteNext(w, n)
  BY DEF NewVersion, lockVars, IInv, KeysInv, NamesOK
<1>2. /\ pc' \in [Workers -> Labels] /\ pc'[w] = "index"
      /\ \A v \in Workers : v # w => pc'[v] = pc[v]
  BY GotoIs DEF NewVersion, IInv, Labels
<1>3. PICK m \in 0..MaxKeys : Named(active, key, old) = 1..m
  BY DEF IInv, Counted
<1>4. n = m + 1
  <2>1. Named(active, key, old) =
            {k \in Keys : k = active \/ \E v \in Workers : k \in {key[v], old[v]}}
    BY DEF Named
  <2>2. Cardinality(1..m) = m
    BY FS_Interval, SnapshotAssumption
  <2>3. n = 1 + Cardinality(Named(active, key, old))
    BY <2>1 DEF NextVersion
  <2> QED
    BY <1>3, <2>2, <2>3, SnapshotAssumption
<1> HIDE DEF n
<1>5. n \in Keys \ Named(active, key, old) /\ n # NoKey /\ snapshots[n] = Absent
  BY <1>1, <1>3, <1>4, SnapshotAssumption DEF IInv, Counted, Keys, NoKey
<1>6. n # active /\ \A v \in Workers : key[v] # n /\ old[v] # n
  BY <1>5 DEF Named
<1>7. /\ snapshots' \in [Keys -> Contents] /\ snapshots'[n].ids \subseteq ids[w]
      /\ \A x \in Keys : x # n => snapshots'[x] = snapshots[x]
  BY <1>1, <1>5, WriteNextAdds DEF IInv, Absent
<1>8. CacheType'
  BY <1>1, <1>7 DEF IInv, CacheType, Names
<1>9. /\ key'[w] = n /\ old'[w] = active
       /\ \A v \in Workers : v # w => key'[v] = key[v] /\ old'[v] = old[v]
  BY <1>1 DEF IInv, CacheType
<1>10. Named(active, key, old)' = Named(active, key, old) \cup {n}
  <2>1. NoKey \notin Keys
    BY SnapshotAssumption DEF Keys, NoKey
  <2> QED
    BY <1>1, <1>5, <1>9, <2>1 DEF Named
<1>11. Counted'
  <2>1. Named(active, key, old)' = 1..n
    BY <1>3, <1>4, <1>10, SnapshotAssumption
  <2>2. n \in 0..MaxKeys
    BY <1>5, SnapshotAssumption DEF Keys
  <2>3. \A x \in Keys \ Named(active, key, old)' : snapshots'[x] = Absent
    BY <1>7, <1>10 DEF IInv, Counted
  <2> QED
    BY <2>1, <2>2, <2>3 DEF Counted
<1>12. OtherType'
  BY <1>1, <1>2 DEF IInv, OtherType, Now
<1>13. NamesOK(key, old, pc)' /\ WriterAlone(snapshots, active, key, old, pc, ids)'
  <2>1. NamesOK(key, old, pc)'
    BY <1>2, <1>5, <1>9 DEF IInv, KeysInv, NamesOK
  <2>2. ASSUME NEW v \in Workers, v # w, pc[v] = "index"
        PROVE  key[v] \in Keys /\ key[v] # n /\ key[v] # active
    BY <1>6, <2>2 DEF IInv, CacheType, Names, KeysInv, NamesOK, WriterAlone
  <2>3. WriterAlone(snapshots, active, key, old, pc, ids)'
    BY <1>1, <1>2, <1>6, <1>7, <1>9, <2>2 DEF IInv, KeysInv, WriterAlone
  <2> QED
    BY <2>1, <2>3
<1>14. ActiveWhole(snapshots, active, old, pc)'
  BY <1>1, <1>2, <1>6, <1>7, <1>9 DEF IInv, KeysInv, CacheType, Names, ActiveWhole, Whole, Bucket,
                                       Now
<1>15. ReadWhole(snapshots, key, pc)'
  BY <1>1, <1>2, <1>6, <1>7, <1>9 DEF IInv, KeysInv, CacheType, Names, NamesOK, ReadWhole, Whole,
                                       Bucket, Now
<1>16. LoadInv' /\ L1Inv'
  BY <1>1, <1>2 DEF IInv, LoadInv, L1Inv, WasTheBucket, Bucket, Now
<1>17. LockInv'
  BY <1>1, <1>2, <1>6, <1>7 DEF IInv, CacheType, OtherType, Names, LockInv
<1>18. ActiveKept
  BY <1>1, <1>6, <1>7 DEF IInv, CacheType, Names, ActiveKept
<1>19. ReadsKept(w)
  BY <1>6, <1>7, <1>9 DEF IInv, CacheType, Names, KeysInv, NamesOK, ReadsKept
<1> QED
  BY <1>8, <1>11, <1>12, <1>13, <1>14, <1>15, <1>16, <1>17, <1>18, <1>19 DEF IInv, KeysInv

\* The rest of an index goes to a key that only its writer names.
LEMMA WriteIndexKeeps ==
    ASSUME IInv, NEW w \in Workers, WriteIndex(w)
    PROVE  IInv' /\ ActiveKept /\ ReadsKept(w)
<1> DEFINE n == key[w]
<1>1. /\ pc[w] = "index" /\ WriteNext(w, n)
      /\ UNCHANGED <<history, active, l1, lock, owners, pc, load, ids, key, old, faults>>
  BY DEF WriteIndex, lockVars, writeVars
<1>2. /\ n \in Keys /\ n # active /\ snapshots[n].ids \subseteq ids[w]
      /\ \A v \in Workers : v # w => key[v] # n
  BY <1>1 DEF IInv, CacheType, Names, KeysInv, NamesOK, WriterAlone
<1>3. /\ snapshots' \in [Keys -> Contents] /\ snapshots'[n].ids \subseteq ids[w]
      /\ \A x \in Keys : x # n => snapshots'[x] = snapshots[x]
  BY <1>1, <1>2, WriteNextAdds DEF IInv
<1>4. n \in Named(active, key, old)
  BY <1>2 DEF Named
<1>5. CacheType' /\ Counted' /\ OtherType'
  BY <1>1, <1>3, <1>4 DEF IInv, CacheType, Counted, Named, OtherType, Now
<1>6. NamesOK(key, old, pc)' /\ WriterAlone(snapshots, active, key, old, pc, ids)'
  BY <1>1, <1>2, <1>3 DEF IInv, CacheType, Names, KeysInv, NamesOK, WriterAlone
<1>7. ActiveWhole(snapshots, active, old, pc)' /\ ReadWhole(snapshots, key, pc)'
  BY <1>1, <1>2, <1>3 DEF IInv, CacheType, Names, KeysInv, NamesOK, ActiveWhole, ReadWhole, Whole,
                          Bucket, Now
<1>8. LoadInv' /\ L1Inv' /\ LockInv'
  BY <1>1, <1>2, <1>3 DEF IInv, CacheType, Names, LoadInv, L1Inv, LockInv, WasTheBucket, Bucket, Now
<1>9. ActiveKept /\ ReadsKept(w)
  BY <1>1, <1>2, <1>3 DEF IInv, CacheType, Names, KeysInv, NamesOK, ActiveKept, ReadsKept
<1> QED
  BY <1>5, <1>6, <1>7, <1>8, <1>9 DEF IInv, KeysInv

\* The version that becomes the active one is one load, and nobody has it as an old one.
LEMMA ActivateKeeps ==
    ASSUME IInv, NEW w \in Workers, Activate(w)
    PROVE  IInv' /\ Ordered /\ ReadsKept(w) /\ Shown' = load[w] /\ (Kept' <=> w \in owners)
<1> DEFINE n == key[w]
           s == [snapshots EXCEPT ![n].of = load[w], ![n].locked = (w \in owners)]
<1>1. /\ pc[w] = "index" /\ ids[w] \subseteq snapshots[n].ids /\ Settle(s, n, key, old)
      /\ UNCHANGED <<history, l1, lock, owners, load, ids, faults>>
  BY DEF Activate, IndexComplete, Written, lockVars
<1>2. /\ pc' \in [Workers -> Labels] /\ pc'[w] = "drop"
      /\ \A v \in Workers : v # w => pc'[v] = pc[v]
  BY GotoIs DEF Activate, IInv, Labels
<1>3. /\ n \in Keys /\ n # NoKey /\ snapshots[n].ids = ids[w]
      /\ \A v \in Workers : (v # w => key[v] # n) /\ old[v] # n
  BY <1>1 DEF IInv, CacheType, Names, KeysInv, NamesOK, WriterAlone
<1>4. load[w] \in 1..Now /\ load[w] \in 0..(MaxChanges + 1) /\ ids[w] = Bucket(load[w])
  BY <1>1 DEF IInv, OtherType, LoadInv
<1>5. /\ s \in [Keys -> Contents] /\ \A x \in Keys : x # n => s[x] = snapshots[x]
      /\ s[n].of = load[w] /\ s[n].ids = ids[w] /\ s[n].locked = (w \in owners)
  <2> DEFINE q == w \in owners
             c == [snapshots[n] EXCEPT !.of = load[w], !.locked = q]
  <2>1. snapshots \in [Keys -> Contents] /\ snapshots[n] \in Contents
    BY <1>3 DEF IInv, CacheType
  <2>2. c \in Contents /\ c.of = load[w] /\ c.ids = snapshots[n].ids /\ c.locked = q
    <3>1. q \in BOOLEAN
      OBVIOUS
    <3> HIDE DEF q
    <3> QED
      BY <1>4, <2>1, <3>1 DEF Contents
  <2>3. s = [snapshots EXCEPT ![n] = c]
    BY <1>3, <2>1 DEF Contents
  <2>4. q = (w \in owners)
    OBVIOUS
  <2> HIDE DEF c, s, q
  <2> QED
    BY <1>3, <2>1, <2>2, <2>3, <2>4
<1> HIDE DEF n, s
<1>6. NamesOK(key, old, pc') /\ WriterAlone(s, n, key, old, pc', ids)
  BY <1>1, <1>2, <1>3, <1>5 DEF IInv, CacheType, Names, KeysInv, NamesOK, WriterAlone
<1>7. ActiveWhole(s, n, old, pc') /\ ReadWhole(s, key, pc')
  BY <1>2, <1>3, <1>4, <1>5 DEF IInv, CacheType, Names, KeysInv, NamesOK, ActiveWhole, ReadWhole,
                               Whole
<1>8. /\ CacheType' /\ Counted' /\ KeysInv(snapshots', active', key', old', pc', ids)
      /\ snapshots'[active'] = s[n] /\ active' # NoKey
      /\ \A v \in Workers : key[v] # NoKey => snapshots'[key'[v]] = s[key[v]]
  <2>1. KeysInv(s, n, key, old, pc', ids)
    BY <1>6, <1>7 DEF KeysInv
  <2>2. n \in Names /\ key \in [Workers -> Names] /\ old \in [Workers -> Names]
    BY <1>3 DEF IInv, CacheType, Names
  <2> QED
    BY <1>1, <1>3, <1>5, <2>1, <2>2, SettleKeeps
<1>9. KeysInv(snapshots, active, key, old, pc, ids)'
  BY <1>1, <1>8 DEF KeysInv, NamesOK, WriterAlone, ActiveWhole, ReadWhole, Whole, Bucket, Now
<1>10. OtherType' /\ LoadInv' /\ L1Inv'
  BY <1>1, <1>2 DEF IInv, OtherType, LoadInv, L1Inv, WasTheBucket, Bucket, Now
<1>11. LockInv'
  BY <1>1, <1>2, <1>5, <1>8 DEF IInv, LockInv
<1>12. Ordered
  BY <1>1, <1>5, <1>8 DEF IInv, LockInv, Ordered
<1>13. ReadsKept(w)
  BY <1>3, <1>5, <1>8 DEF IInv, CacheType, Names, KeysInv, NamesOK, ReadsKept
<1>14. Shown' = load[w]
  BY <1>5, <1>8 DEF Shown
<1>15. Kept' <=> w \in owners
  BY <1>5, <1>8 DEF Kept
<1> QED
  BY <1>8, <1>9, <1>10, <1>11, <1>12, <1>13, <1>14, <1>15 DEF IInv

\* A worker that forgets the keys it named leaves the others as they are.
LEMMA ForgetKeeps ==
    ASSUME IInv, NEW w \in Workers, NEW s \in [Keys -> Contents], Forget(w, s),
           \A v \in Workers : pc[v] = "index" /\ v # w => s[key[v]] = snapshots[key[v]],
           active # NoKey => s[active] = snapshots[active],
           \A x \in Keys : s[x] \in {snapshots[x], Absent},
           UNCHANGED <<history, lock>>,
           NEW l \in {"idle", "load"}, Goto(w, l)
    PROVE  /\ CacheType' /\ Counted' /\ KeysInv(snapshots, active, key, old, pc, ids)'
           /\ LoadInv' /\ LockInv' /\ ActiveKept
           /\ pc' \in [Workers -> Labels] /\ owners' \subseteq Workers
           /\ load' \in [Workers -> 0..(MaxChanges + 1)] /\ ids' \in [Workers -> SUBSET Accounts]
           /\ \A v \in Workers : v # w /\ key[v] # NoKey => snapshots'[key'[v]] = s[key[v]]
<1> DEFINE k == [key EXCEPT ![w] = NoKey]
           o == [old EXCEPT ![w] = NoKey]
<1>1. /\ Settle(s, active, k, o) /\ owners' = owners \ {w}
      /\ load' = [load EXCEPT ![w] = 0] /\ ids' = [ids EXCEPT ![w] = {}]
  BY DEF Forget
<1>2. /\ pc' \in [Workers -> Labels] /\ pc'[w] \in {"idle", "load"}
      /\ \A v \in Workers : v # w => pc'[v] = pc[v]
  BY GotoIs DEF IInv, Labels
<1>3. /\ load' \in [Workers -> 0..(MaxChanges + 1)] /\ ids' \in [Workers -> SUBSET Accounts]
      /\ \A v \in Workers : v # w => load'[v] = load[v] /\ ids'[v] = ids[v]
  BY <1>1, SnapshotAssumption DEF IInv, OtherType
<1>4. /\ k \in [Workers -> Names] /\ o \in [Workers -> Names] /\ active \in Names
      /\ k[w] = NoKey /\ o[w] = NoKey
      /\ \A v \in Workers : v # w => k[v] = key[v] /\ o[v] = old[v]
  BY DEF IInv, CacheType, Names
<1> HIDE DEF k, o
<1>5. NamesOK(k, o, pc')
  BY <1>2, <1>4 DEF IInv, KeysInv, NamesOK
<1>6. WriterAlone(s, active, k, o, pc', ids')
  BY <1>2, <1>3, <1>4, <1>5 DEF IInv, KeysInv, NamesOK, WriterAlone
<1>7. ActiveWhole(s, active, o, pc')
  BY <1>2, <1>4 DEF IInv, KeysInv, ActiveWhole, Whole
<1>8. ReadWhole(s, k, pc')
  BY <1>2, <1>4 DEF IInv, CacheType, Names, KeysInv, NamesOK, ReadWhole, Whole
<1>9. /\ CacheType' /\ Counted' /\ KeysInv(snapshots', active', key', old', pc', ids')
      /\ active' = NoKey <=> active = NoKey
      /\ active # NoKey => snapshots'[active'] = s[active]
      /\ \A v \in Workers : v # w /\ key[v] # NoKey => snapshots'[key'[v]] = s[key[v]]
  <2>1. KeysInv(s, active, k, o, pc', ids')
    BY <1>5, <1>6, <1>7, <1>8 DEF KeysInv
  <2> QED
    BY <1>1, <1>4, <2>1, SettleKeeps
<1>10. KeysInv(snapshots, active, key, old, pc, ids)'
  BY <1>9 DEF KeysInv, NamesOK, WriterAlone, ActiveWhole, ReadWhole, Whole, Bucket, Now
<1>11. LoadInv'
  BY <1>2, <1>3 DEF IInv, LoadInv, WasTheBucket, Bucket, Now
<1>12. LockInv'
  BY <1>1, <1>2, <1>3, <1>9 DEF IInv, OtherType, LockInv
<1>13. owners' \subseteq Workers
  BY <1>1 DEF IInv, OtherType
<1> QED
  BY <1>2, <1>3, <1>9, <1>10, <1>11, <1>12, <1>13 DEF ActiveKept

\* What a process keeps in memory was the bucket.
LEMMA RememberKeeps ==
    ASSUME IInv, NEW w \in Workers, Remember(w) \/ UNCHANGED l1, UNCHANGED history,
           l1' = l1 \/ WasTheBucket(ids[w])
    PROVE  /\ L1Inv'
           /\ DOMAIN l1' = Processes
           /\ \A p \in Processes : l1'[p] = NotCached \/ l1'[p] \subseteq Accounts
<1>1. ids[w] \subseteq Accounts
  BY DEF IInv, OtherType
<1>2. CASE l1' = l1
  BY <1>2 DEF IInv, OtherType, L1Inv, WasTheBucket, Bucket, Now
<1>3. CASE Remember(w) /\ WasTheBucket(ids[w])
  <2>1. \/ l1' = [l1 EXCEPT ![Home(w)] = ids[w]]
        \/ l1' = [l1 EXCEPT ![Home(w)] = NotCached]
    BY <1>3 DEF Remember
  <2>2. DOMAIN l1' = Processes
    BY <2>1 DEF IInv, OtherType
  <2>3. \A p \in Processes : l1'[p] \in {l1[p], ids[w], NotCached}
    BY <2>1 DEF IInv, OtherType
  <2>4. \A x : WasTheBucket(x) => WasTheBucket(x)'
    BY DEF WasTheBucket, Bucket, Now
  <2> QED
    BY <1>1, <1>3, <2>2, <2>3, <2>4 DEF IInv, OtherType, L1Inv
<1> QED
  BY <1>2, <1>3

\* The old version is dropped, which nobody is writing and which is not active.
LEMMA DropOldKeeps ==
    ASSUME IInv, NEW w \in Workers, DropOld(w)
    PROVE  IInv' /\ ActiveKept /\ ReadsLost(w)
<1> DEFINE s == [k \in Keys |-> IF k = old[w] /\ old[w] # key[w] THEN Absent ELSE snapshots[k]]
<1>1. /\ pc[w] = "drop" /\ Forget(w, s) /\ Remember(w) /\ Goto(w, "idle")
      /\ UNCHANGED <<history, lock, faults>>
  BY DEF DropOld
<1>2. s \in [Keys -> Contents] /\ \A x \in Keys : s[x] \in {snapshots[x], Absent}
  BY SnapshotAssumption DEF IInv, CacheType, Absent, Contents
<1>3. \A v \in Workers : pc[v] = "index" /\ v # w => s[key[v]] = snapshots[key[v]]
  BY DEF IInv, CacheType, Names, KeysInv, NamesOK, WriterAlone
<1>4. active # NoKey => s[active] = snapshots[active]
  BY <1>1 DEF IInv, CacheType, Names, KeysInv, ActiveWhole
<1> HIDE DEF s
<1>5. /\ CacheType' /\ Counted' /\ KeysInv(snapshots, active, key, old, pc, ids)'
      /\ LoadInv' /\ LockInv' /\ ActiveKept
      /\ pc' \in [Workers -> Labels] /\ owners' \subseteq Workers
      /\ load' \in [Workers -> 0..(MaxChanges + 1)] /\ ids' \in [Workers -> SUBSET Accounts]
      /\ \A v \in Workers : v # w /\ key[v] # NoKey => snapshots'[key'[v]] = s[key[v]]
  BY <1>1, <1>2, <1>3, <1>4, ForgetKeeps
<1>6. WasTheBucket(ids[w])
  BY <1>1 DEF IInv, LoadInv, WasTheBucket
<1>7. /\ L1Inv' /\ DOMAIN l1' = Processes
      /\ \A p \in Processes : l1'[p] = NotCached \/ l1'[p] \subseteq Accounts
  BY <1>1, <1>6, RememberKeeps
<1>8. OtherType'
  BY <1>1, <1>5, <1>7 DEF IInv, OtherType, Now
<1>9. ReadsLost(w)
  BY <1>2, <1>5 DEF IInv, CacheType, Names, KeysInv, NamesOK, ReadsLost, Absent
<1> QED
  BY <1>5, <1>7, <1>8, <1>9 DEF IInv

\* Whatever was written stays when a rebuild fails.
LEMMA RebuildFailsKeeps ==
    ASSUME IInv, NEW w \in Workers, RebuildFails(w)
    PROVE  IInv' /\ ActiveKept /\ ReadsKept(w)
<1>1. /\ pc[w] \in {"load", "version", "index", "drop"} /\ Fault
      /\ IF Role(w) = "request" /\ pc[w] # "load" THEN Remember(w) ELSE UNCHANGED l1
      /\ Forget(w, snapshots) /\ Goto(w, "idle")
      /\ UNCHANGED <<history, lock>>
  BY DEF RebuildFails
<1>2. /\ CacheType' /\ Counted' /\ KeysInv(snapshots, active, key, old, pc, ids)'
      /\ LoadInv' /\ LockInv' /\ ActiveKept
      /\ pc' \in [Workers -> Labels] /\ owners' \subseteq Workers
      /\ load' \in [Workers -> 0..(MaxChanges + 1)] /\ ids' \in [Workers -> SUBSET Accounts]
      /\ ReadsKept(w)
  <2>1. snapshots \in [Keys -> Contents]
    BY DEF IInv, CacheType
  <2> QED
    BY <1>1, <2>1, ForgetKeeps DEF IInv, KeysInv, NamesOK, ReadsKept
<1>3. pc[w] # "load" => WasTheBucket(ids[w])
  BY <1>1 DEF IInv, LoadInv, WasTheBucket
<1>4. /\ L1Inv' /\ DOMAIN l1' = Processes
      /\ \A p \in Processes : l1'[p] = NotCached \/ l1'[p] \subseteq Accounts
  BY <1>1, <1>3, RememberKeeps
<1>5. faults' \in 0..MaxFaults
  BY <1>1, SnapshotAssumption DEF Fault, IInv, OtherType
<1>6. OtherType'
  BY <1>1, <1>2, <1>4, <1>5 DEF IInv, OtherType, Now
<1> QED
  BY <1>2, <1>4, <1>6 DEF IInv

\* A request keeps what it read, or asks the database.
LEMMA MGetKeeps ==
    ASSUME IInv, NEW w \in Workers, MGet(w)
    PROVE  IInv' /\ ActiveKept /\ ReadsKept(w)
<1>1. /\ pc[w] = "mget" /\ (Remember(w) \/ UNCHANGED l1)
      /\ Forget(w, snapshots) /\ \E l \in {"idle", "load"} : Goto(w, l)
      /\ UNCHANGED <<history, lock, faults>>
  BY DEF MGet, Fallback
<1>2. /\ CacheType' /\ Counted' /\ KeysInv(snapshots, active, key, old, pc, ids)'
      /\ LoadInv' /\ LockInv' /\ ActiveKept
      /\ pc' \in [Workers -> Labels] /\ owners' \subseteq Workers
      /\ load' \in [Workers -> 0..(MaxChanges + 1)] /\ ids' \in [Workers -> SUBSET Accounts]
      /\ ReadsKept(w)
  <2>1. snapshots \in [Keys -> Contents]
    BY DEF IInv, CacheType
  <2> QED
    BY <1>1, <2>1, ForgetKeeps DEF IInv, KeysInv, NamesOK, ReadsKept
<1>3. WasTheBucket(ids[w])
  BY <1>1 DEF IInv, LoadInv
<1>4. /\ L1Inv' /\ DOMAIN l1' = Processes
      /\ \A p \in Processes : l1'[p] = NotCached \/ l1'[p] \subseteq Accounts
  BY <1>1, <1>3, RememberKeeps
<1>5. OtherType'
  BY <1>1, <1>2, <1>4 DEF IInv, OtherType, Now
<1> QED
  BY <1>2, <1>4, <1>5 DEF IInv

\* A request reads the active version, which is one load.
LEMMA RequestKeeps ==
    ASSUME IInv, NEW w \in Workers, Request(w)
    PROVE  IInv'
<1>1. /\ pc[w] = "idle" /\ key[w] = NoKey /\ old[w] = NoKey
      /\ UNCHANGED <<history, snapshots, active, l1, lock, owners, load, ids, old, faults>>
      /\ key' = [key EXCEPT ![w] = active]
  BY DEF Request, Free, cacheVars, lockVars, IInv, KeysInv, NamesOK
<1>2. PICK l \in {"idle", "load", "zrange"} : Goto(w, l) /\ (l = "zrange" <=> active # NoKey)
  BY DEF Request, Fallback
<1>3. /\ pc' \in [Workers -> Labels] /\ pc'[w] = l
      /\ \A v \in Workers : v # w => pc'[v] = pc[v]
  BY <1>2, GotoIs DEF IInv, Labels
<1>4. /\ key' \in [Workers -> Names] /\ key'[w] = active
      /\ \A v \in Workers : v # w => key'[v] = key[v]
  BY <1>1 DEF IInv, CacheType
<1>5. CacheType' /\ OtherType'
  BY <1>1, <1>3, <1>4 DEF IInv, CacheType, OtherType, Now
<1>6. Counted'
  <2>1. NoKey \notin Keys
    BY SnapshotAssumption DEF NoKey, Keys
  <2>2. Named(active, key, old)' = Named(active, key, old)
    BY <1>1, <1>4, <2>1 DEF Named
  <2> QED
    BY <1>1, <2>2 DEF IInv, Counted
<1>7. NamesOK(key, old, pc)' /\ WriterAlone(snapshots, active, key, old, pc, ids)'
  BY <1>1, <1>2, <1>3, <1>4 DEF IInv, KeysInv, NamesOK, WriterAlone
<1>8. ActiveWhole(snapshots, active, old, pc)' /\ ReadWhole(snapshots, key, pc)'
  BY <1>1, <1>2, <1>3, <1>4 DEF IInv, KeysInv, ActiveWhole, ReadWhole, Whole, Bucket, Now
<1>9. LoadInv' /\ L1Inv' /\ LockInv'
  BY <1>1, <1>2, <1>3 DEF IInv, OtherType, LoadInv, L1Inv, LockInv, WasTheBucket, Bucket, Now
<1> QED
  BY <1>5, <1>6, <1>7, <1>8, <1>9 DEF IInv, KeysInv

\* It reads all of the version's index, or nothing when that was dropped meanwhile.
LEMMA ZRangeKeeps ==
    ASSUME IInv, NEW w \in Workers, ZRange(w)
    PROVE  IInv' /\ ActiveKept /\ ReadsKept(w)
<1> DEFINE read == snapshots[key[w]].ids
           k == [key EXCEPT ![w] = NoKey]
<1>1. /\ pc[w] = "zrange" /\ key[w] \in Keys /\ old[w] = NoKey
      /\ ids' = [ids EXCEPT ![w] = read] /\ Settle(snapshots, active, k, old)
      /\ UNCHANGED <<history, l1, lock, owners, load, faults>>
  BY DEF ZRange, Written, lockVars, IInv, CacheType, Names, KeysInv, NamesOK
<1>2. PICK l \in {"idle", "load", "mget"} : Goto(w, l) /\ (l = "mget" => read # {})
  BY DEF ZRange, Fallback, Written
<1>3. /\ pc' \in [Workers -> Labels] /\ pc'[w] = l
      /\ \A v \in Workers : v # w => pc'[v] = pc[v]
  BY <1>2, GotoIs DEF IInv, Labels
<1>4. read # {} => WasTheBucket(read)
  BY <1>1 DEF IInv, KeysInv, ReadWhole, Whole, WasTheBucket, Absent
<1>5. read \in SUBSET Accounts
  BY <1>1 DEF IInv, CacheType, Contents
<1> HIDE DEF read
<1>6. /\ ids' \in [Workers -> SUBSET Accounts] /\ ids'[w] = read
      /\ \A v \in Workers : v # w => ids'[v] = ids[v]
  BY <1>1, <1>5 DEF IInv, OtherType
<1>7. /\ k \in [Workers -> Names] /\ k[w] = NoKey
      /\ \A v \in Workers : v # w => k[v] = key[v]
  BY DEF IInv, CacheType, Names
<1> HIDE DEF k
<1>8. NamesOK(k, old, pc')
  BY <1>1, <1>2, <1>3, <1>7 DEF IInv, KeysInv, NamesOK
<1>9. WriterAlone(snapshots, active, k, old, pc', ids')
  BY <1>2, <1>3, <1>6, <1>7, <1>8 DEF IInv, KeysInv, NamesOK, WriterAlone
<1>10. ActiveWhole(snapshots, active, old, pc') /\ ReadWhole(snapshots, k, pc')
  BY <1>2, <1>3, <1>7 DEF IInv, KeysInv, ActiveWhole, ReadWhole
<1>11. /\ CacheType' /\ Counted' /\ KeysInv(snapshots', active', key', old', pc', ids')
       /\ active' = NoKey <=> active = NoKey
       /\ active # NoKey => snapshots'[active'] = snapshots[active]
       /\ \A v \in Workers : k[v] # NoKey => snapshots'[key'[v]] = snapshots[k[v]]
  <2>1. KeysInv(snapshots, active, k, old, pc', ids')
    BY <1>8, <1>9, <1>10 DEF KeysInv
  <2>2. snapshots \in [Keys -> Contents] /\ active \in Names /\ old \in [Workers -> Names]
    BY DEF IInv, CacheType
  <2> QED
    BY <1>1, <1>7, <2>1, <2>2, SettleKeeps
<1>12. KeysInv(snapshots, active, key, old, pc, ids)'
  BY <1>1, <1>11 DEF KeysInv, NamesOK, WriterAlone, ActiveWhole, ReadWhole, Whole, Bucket, Now
<1>13. OtherType'
  BY <1>1, <1>3, <1>6 DEF IInv, OtherType, Now
<1>14. LoadInv' /\ L1Inv'
  BY <1>1, <1>2, <1>3, <1>4, <1>6 DEF IInv, LoadInv, L1Inv, WasTheBucket, Bucket, Now
<1>15. LockInv'
  BY <1>1, <1>2, <1>3, <1>11 DEF IInv, OtherType, LockInv
<1>16. ReadsKept(w)
  BY <1>7, <1>11 DEF IInv, KeysInv, NamesOK, ReadsKept
<1> QED
  BY <1>11, <1>12, <1>13, <1>14, <1>15, <1>16 DEF IInv, ActiveKept

-----------------------------------------------------------------------------
(* The theorems *)

\* At first nothing is cached.
LEMMA InitIInv == Init => IInv
<1> SUFFICES ASSUME Init PROVE IInv
  OBVIOUS
<1>1. NoKey \notin Keys
  BY SnapshotAssumption DEF NoKey, Keys
<1>2. CacheType
  BY SnapshotAssumption DEF Init, CacheType, Contents, Absent, Names
<1>3. OtherType
  <2>1. history \in Seq(SUBSET Accounts) /\ Now = 1
    BY DEF Init, Now
  <2>2. /\ DOMAIN l1 = Processes /\ \A p \in Processes : l1[p] = NotCached
        /\ pc \in [Workers -> Labels] /\ ids \in [Workers -> SUBSET Accounts]
    BY DEF Init, Labels
  <2>3. load \in [Workers -> 0..(MaxChanges + 1)] /\ faults \in 0..MaxFaults
    BY SnapshotAssumption DEF Init
  <2>4. lock \in BOOLEAN /\ owners \subseteq Workers
    BY DEF Init
  <2> QED
    BY <2>1, <2>2, <2>3, <2>4, SnapshotAssumption DEF OtherType
<1>4. Counted
  <2>1. Named(active, key, old) = {} /\ 1..0 = {}
    BY <1>1 DEF Init, Named
  <2>2. 0 \in 0..MaxKeys /\ \A x \in Keys : snapshots[x] = Absent
    BY SnapshotAssumption DEF Init
  <2> QED
    BY <2>1, <2>2 DEF Counted
<1>5. KeysInv(snapshots, active, key, old, pc, ids)
  BY DEF Init, KeysInv, NamesOK, WriterAlone, ActiveWhole, ReadWhole
<1>6. LoadInv /\ L1Inv /\ LockInv
  BY DEF Init, LoadInv, L1Inv, LockInv
<1> QED
  BY <1>2, <1>3, <1>4, <1>5, <1>6 DEF IInv

\* Every step keeps the invariant.
LEMMA NextKeeps ==
    ASSUME IInv, [Next]_vars
    PROVE  IInv'
<1>1. CASE UNCHANGED vars
  BY <1>1 DEF vars, cacheVars, lockVars, writeVars, IInv, CacheType, OtherType, Counted, Named,
              KeysInv, NamesOK, WriterAlone, ActiveWhole, ReadWhole, Whole, LoadInv, L1Inv, LockInv,
              WasTheBucket, Bucket, Now
<1>2. ASSUME NEW w \in Workers, Step(w) PROVE IInv'
  BY <1>2, LoadKeeps, NewVersionKeeps, WriteIndexKeeps, ActivateKeeps, DropOldKeeps, ZRangeKeeps,
     MGetKeeps
  DEF Step
<1> QED
  BY <1>1, <1>2, ChangeKeeps, RebuildKeeps, RebuildFailsKeeps, RequestKeeps, ExpiryKeeps DEF Next

\* Along every behaviour of the rebuilds, the requests and the expiries; the rest follows.
THEOREM SnapshotInvariance == Spec => []IInv
BY InitIInv, NextKeeps, PTL DEF Spec

\* SetSnapshot: the active version is one load of the database and complete, while other writers
\* add members, switch versions and drop old ones in between.  GetSnapshot, the copy in memory and
\* the fallback to the database: a request is given the bucket as it was at some time.
THEOREM RequestsAreServedWhole == Spec => []Inv
<1>1. IInv => TypeOK
  BY DEF IInv, CacheType, OtherType, Contents, Names, TypeOK
<1>2. IInv => ActiveIsKept
  BY DEF IInv, KeysInv, ActiveWhole, Whole, ActiveIsKept
<1>3. IInv => ServedWhole
  BY DEF IInv, LoadInv, L1Inv, ServedWhole
<1>4. IInv => Inv
  BY <1>1, <1>2, <1>3 DEF Inv
<1> QED
  BY <1>4, SnapshotInvariance, PTL

\* Every step that does not activate a version keeps the active one.
LEMMA StepOrdered ==
    ASSUME IInv, [Next]_vars
    PROVE  Ordered
<1>1. ActiveKept => Ordered
  <2>1. active # NoKey => snapshots[active].of \in Nat
    BY SnapshotAssumption DEF IInv, CacheType, Names, Contents
  <2> QED
    BY <2>1 DEF ActiveKept, Ordered
<1>2. ASSUME NEW w \in Workers, Step(w) PROVE Ordered
  <2>1. CASE Activate(w)
    BY <2>1, ActivateKeeps
  <2>2. CASE Load(w)
    BY <1>1, <2>2 DEF Load, cacheVars, ActiveKept
  <2> QED
    BY <1>1, <1>2, <2>1, <2>2, NewVersionKeeps, WriteIndexKeeps, DropOldKeeps, ZRangeKeeps,
       MGetKeeps
    DEF Step
<1>3. ASSUME NEW w \in Workers, RebuildFails(w) PROVE Ordered
  BY <1>1, <1>3, RebuildFailsKeeps
<1>4. CASE UNCHANGED <<snapshots, active>>
  BY <1>1, <1>4 DEF ActiveKept
<1> QED
  BY <1>2, <1>3, <1>4
  DEF Next, Change, Rebuild, Request, L1Expires, LockExpires, vars, cacheVars

\* TryLockBucket: of the rebuilds that hold the lock to their end, none replaces what a later one
\* of them has loaded.
THEOREM NewerStays == Spec => NoneOverwritesNewer
<1>1. ASSUME IInv, [Next]_vars, NEW k \in Keys, NEW m \in Keys,
             active = k, active' = m, snapshots[k].locked, snapshots'[m].locked
      PROVE  snapshots[k].of =< snapshots'[m].of
  <2>1. k # NoKey
    BY SnapshotAssumption DEF Keys, NoKey
  <2> QED
    BY <1>1, <2>1, StepOrdered DEF Ordered
<1>2. IInv /\ [Next]_vars =>
        [\A k, m \in Keys :
            (active = k /\ active' = m /\ snapshots[k].locked /\ snapshots'[m].locked)
                => snapshots[k].of =< snapshots'[m].of]_vars
  BY <1>1
<1> QED
  BY <1>2, SnapshotInvariance, PTL DEF Spec, NoneOverwritesNewer

-----------------------------------------------------------------------------
(* The register that the snapshots implement *)

\* A step that leaves active what is active leaves the register as it is.
LEMMA ShownStays ==
    ASSUME ActiveKept
    PROVE  Shown' = Shown /\ Kept' = Kept
BY DEF ActiveKept, Shown, Kept

\* It is a request that reads.
RequestsRead == \A w \in Workers : pc[w] \in {"zrange", "mget"} => Role(w) = "request"

\* No rebuild begins to read.
LEMMA StepRequestsRead ==
    ASSUME IInv, RequestsRead, [Next]_vars
    PROVE  RequestsRead'
<1>1. pc \in [Workers -> Labels]
  BY DEF IInv, OtherType
<1>2. ASSUME NEW w \in Workers, Request(w) PROVE RequestsRead'
  BY <1>1, <1>2 DEF Request, Free, Fallback, Goto, RequestsRead, Role
<1>3. ASSUME NEW w \in Workers, Rebuild(w) \/ RebuildFails(w) PROVE RequestsRead'
  BY <1>1, <1>3 DEF Rebuild, RebuildFails, Goto, RequestsRead, Role
<1>4. ASSUME NEW w \in Workers, Step(w) PROVE RequestsRead'
  <2>1. CASE Load(w) \/ NewVersion(w) \/ WriteIndex(w) \/ Activate(w) \/ DropOld(w)
    BY <1>1, <2>1
    DEF Load, NewVersion, WriteIndex, Activate, DropOld, Goto, RequestsRead, Role
  <2>2. CASE ZRange(w) \/ MGet(w)
    BY <1>1, <2>2 DEF ZRange, MGet, Fallback, Goto, RequestsRead, Role
  <2> QED
    BY <1>4, <2>1, <2>2 DEF Step
<1>5. CASE UNCHANGED pc
  BY <1>5 DEF RequestsRead
<1> QED
  BY <1>2, <1>3, <1>4, <1>5 DEF Next, Change, L1Expires, LockExpires, vars

\* What the other requests have begun to read stays so when their versions do ...
LEMMA OthersRead ==
    ASSUME IInv, NEW w \in Workers, NEW v \in Workers, v # w, ReadsKept(w),
           pc'[v] = pc[v], ids'[v] = ids[v]
    PROVE  Reading(v)' = Reading(v)
BY DEF Reading, Written, ReadsKept

\* ... and is lost when they are dropped.
LEMMA OthersLose ==
    ASSUME IInv, NEW w \in Workers, NEW v \in Workers, v # w, ReadsLost(w),
           pc'[v] = pc[v], ids'[v] = ids[v]
    PROVE  Reading(v)' \in {Reading(v), NotCached}
BY DEF Reading, Written, ReadsLost

\* Nor do the others load or write.
LEMMA OthersLoaded ==
    ASSUME NEW v \in Workers, pc'[v] = pc[v], load'[v] = load[v]
    PROVE  Loaded(v)' = Loaded(v)
BY DEF Loaded

\* Nothing of the register changes.
LEMMA RegisterStays ==
    ASSUME history' = history, l1' = l1, Shown' = Shown, Kept' = Kept,
           \A v \in Workers : Reading(v)' = Reading(v) /\ Loaded(v)' = Loaded(v)
    PROVE  UNCHANGED Register!vars
BY DEF Register!vars

\* The database changes, and nothing else.
LEMMA ChangeIsEdit ==
    ASSUME IInv, NEW a \in Accounts, Change(a)
    PROVE  Register!Next
<1> DEFINE b == IF a \in Bucket(Now) THEN Bucket(Now) \ {a} ELSE Bucket(Now) \cup {a}
<1>1. history \in Seq(SUBSET Accounts) /\ Now \in 1..(MaxChanges + 1)
  BY DEF IInv, OtherType
<1>2. b \in SUBSET Accounts /\ history' = Append(history, b)
  BY <1>1 DEF Change, Bucket, Now
<1>3. /\ l1' = l1 /\ Shown' = Shown /\ Kept' = Kept
      /\ \A v \in Workers : Reading(v)' = Reading(v) /\ Loaded(v)' = Loaded(v)
  BY DEF Change, cacheVars, writeVars, Shown, Kept, Reading, Written, Loaded
<1> HIDE DEF b
<1>4. Register!Edit
  BY <1>2, <1>3 DEF Register!Edit
<1> QED
  BY <1>4 DEF Register!Next

\* Before it activates its version, a writer does nothing that a reader could see ...
LEMMA WritingIsHidden ==
    ASSUME IInv, NEW w \in Workers, Rebuild(w) \/ NewVersion(w) \/ WriteIndex(w)
    PROVE  UNCHANGED Register!vars
<1>1. /\ history' = history /\ l1' = l1 /\ load' = load
      /\ pc[w] \notin {"zrange", "mget"} /\ pc'[w] \notin {"zrange", "mget"}
      /\ pc[w] \in {"version", "index", "drop"} <=> pc'[w] \in {"version", "index", "drop"}
      /\ \A v \in Workers : v # w => pc'[v] = pc[v] /\ ids'[v] = ids[v]
  BY DEF Rebuild, Free, NewVersion, WriteIndex, Goto, cacheVars, writeVars, IInv, OtherType
<1>2. ActiveKept /\ ReadsKept(w)
  <2>1. CASE Rebuild(w)
    BY <2>1 DEF Rebuild, cacheVars, writeVars, ActiveKept, ReadsKept
  <2>2. CASE NewVersion(w) \/ WriteIndex(w)
    BY <2>2, NewVersionKeeps, WriteIndexKeeps
  <2> QED
    BY <2>1, <2>2
<1>3. Reading(w)' = Reading(w) /\ Loaded(w)' = Loaded(w)
  BY <1>1 DEF Reading, Loaded
<1>4. \A v \in Workers : v # w => Reading(v)' = Reading(v) /\ Loaded(v)' = Loaded(v)
  BY <1>1, <1>2, OthersRead, OthersLoaded
<1> QED
  BY <1>1, <1>2, <1>3, <1>4, ShownStays, RegisterStays

\* ... but to load what the database holds.
LEMMA LoadIsLoad ==
    ASSUME IInv, NEW w \in Workers, Load(w)
    PROVE  Register!Next
<1>1. /\ history' = history /\ l1' = l1 /\ UNCHANGED <<snapshots, active, key>>
      /\ pc[w] = "load" /\ pc'[w] = "version" /\ load'[w] = Now
      /\ \A v \in Workers : v # w => pc'[v] = pc[v] /\ ids'[v] = ids[v] /\ load'[v] = load[v]
  BY DEF Load, Goto, cacheVars, IInv, OtherType
<1>2. Shown' = Shown /\ Kept' = Kept
  BY <1>1 DEF Shown, Kept
<1>3. \A v \in Workers : Reading(v)' = Reading(v)
  BY <1>1 DEF Reading, Written
<1>4. Loaded(w)' = Now /\ \A v \in Workers : v # w => Loaded(v)' = Loaded(v)
  BY <1>1 DEF Loaded
<1>5. [v \in Workers |-> Loaded(v)'] = [[v \in Workers |-> Loaded(v)] EXCEPT ![w] = Len(history)]
  BY <1>4 DEF Now
<1>6. Register!Load(w)
  BY <1>1, <1>2, <1>3, <1>5 DEF Register!Load
<1> QED
  BY <1>6 DEF Register!Next

\* The pointer is set: the load appears at once, and is not older than what it replaces if both
\* writers kept the lock.
LEMMA ActivateIsPublish ==
    ASSUME IInv, NEW w \in Workers, Activate(w)
    PROVE  Register!Next
<1>1. /\ history' = history /\ l1' = l1 /\ load' = load /\ pc[w] = "index" /\ pc'[w] = "drop"
      /\ \A v \in Workers : v # w => pc'[v] = pc[v] /\ ids'[v] = ids[v]
  BY DEF Activate, Goto, IInv, OtherType
<1>2. Ordered /\ ReadsKept(w) /\ Shown' = load[w] /\ (Kept' <=> w \in owners) /\ IInv'
  BY ActivateKeeps
<1>3. Loaded(w) = load[w] /\ load[w] # 0
  BY <1>1 DEF IInv, LoadInv, OtherType, Loaded
<1>4. Reading(w)' = Reading(w) /\ Loaded(w)' = Loaded(w)
  BY <1>1 DEF Reading, Loaded
<1>5. \A v \in Workers : Reading(v)' = Reading(v) /\ Loaded(v)' = Loaded(v)
  BY <1>1, <1>2, <1>4, OthersRead, OthersLoaded
<1>6. Kept /\ Kept' => Shown =< Shown'
  BY <1>2 DEF Ordered, Shown, Kept
<1> DEFINE k == Kept'
<1>7. k \in BOOLEAN
  BY DEF Kept
<1>8. Register!Publish(w, k)
  BY <1>1, <1>2, <1>3, <1>5, <1>6 DEF Register!Publish
<1> HIDE DEF k
<1> QED
  BY <1>7, <1>8 DEF Register!Next

\* A writer that fails before it has loaded leaves no trace.
LEMMA EarlyFailureIsHidden ==
    ASSUME IInv, NEW w \in Workers, RebuildFails(w), pc[w] = "load"
    PROVE  UNCHANGED Register!vars
<1>1. /\ history' = history /\ l1' = l1 /\ pc'[w] = "idle"
      /\ \A v \in Workers : v # w => pc'[v] = pc[v] /\ ids'[v] = ids[v] /\ load'[v] = load[v]
  BY DEF RebuildFails, Forget, Goto, IInv, OtherType
<1>2. ActiveKept /\ ReadsKept(w)
  BY RebuildFailsKeeps
<1>3. Reading(w)' = Reading(w) /\ Loaded(w)' = Loaded(w)
  BY <1>1 DEF Reading, Loaded
<1>4. \A v \in Workers : v # w => Reading(v)' = Reading(v) /\ Loaded(v)' = Loaded(v)
  BY <1>1, <1>2, OthersRead, OthersLoaded
<1> QED
  BY <1>1, <1>2, <1>3, <1>4, ShownStays, RegisterStays

\* A writer that is done, or fails later, leaves the register as it is; what it deletes may be
\* what a request was about to read.
LEMMA EndingIsLeave ==
    ASSUME IInv, NEW w \in Workers, DropOld(w) \/ RebuildFails(w), pc[w] # "load"
    PROVE  Register!Next
<1> DEFINE lost == {v \in Workers : Reading(v)' = NotCached}
<1>1. /\ history' = history /\ pc[w] \in {"version", "index", "drop"} /\ pc'[w] = "idle"
      /\ Remember(w) \/ l1' = l1
      /\ \A v \in Workers : v # w => pc'[v] = pc[v] /\ ids'[v] = ids[v] /\ load'[v] = load[v]
  BY DEF DropOld, RebuildFails, Forget, Goto, IInv, OtherType
<1>2. ActiveKept /\ ReadsLost(w)
  BY DropOldKeeps, RebuildFailsKeeps DEF ReadsKept, ReadsLost
<1>3. Loaded(w) = load[w] /\ Loaded(w) # 0 /\ ids[w] = history[Loaded(w)]
  BY <1>1 DEF Loaded, IInv, LoadInv, OtherType, Bucket
<1>4. Reading(w)' = NotCached /\ Loaded(w)' = 0
  BY <1>1 DEF Reading, Loaded
<1>5. \A v \in Workers : Reading(v)' \in {Reading(v), NotCached}
  BY <1>1, <1>2, <1>4, OthersLose
<1>6. \A v \in Workers : v # w => Loaded(v)' = Loaded(v)
  BY <1>1, OthersLoaded
<1>7. /\ [v \in Workers |-> Reading(v)'] =
             [v \in Workers |-> IF v \in lost THEN NotCached
                                ELSE [u \in Workers |-> Reading(u)][v]]
      /\ [v \in Workers |-> Loaded(v)'] = [[v \in Workers |-> Loaded(v)] EXCEPT ![w] = 0]
  BY <1>4, <1>5, <1>6
<1>8. UNCHANGED l1 \/ Register!Keep(w, NotCached) \/ Register!Keep(w, history[Loaded(w)])
  BY <1>1, <1>3 DEF Remember, Home, Register!Keep
<1>9. lost \in SUBSET Workers
  OBVIOUS
<1> HIDE DEF lost
<1>10. Register!Leave(w, lost)
  BY <1>1, <1>2, <1>3, <1>7, <1>8, ShownStays DEF Register!Leave
<1> QED
  BY <1>9, <1>10 DEF Register!Next

\* A request begins with what is active; a snapshot without accounts is as good as none.
LEMMA RequestIsBegin ==
    ASSUME IInv, NEW w \in Workers, Request(w)
    PROVE  Register!Next \/ UNCHANGED Register!vars
<1>1. /\ history' = history /\ l1' = l1 /\ snapshots' = snapshots /\ active' = active /\ ids' = ids
      /\ load' = load
      /\ pc[w] = "idle" /\ key' = [key EXCEPT ![w] = active]
      /\ \A v \in Workers : v # w => pc'[v] = pc[v] /\ key'[v] = key[v]
      /\ pc'[w] \in {"idle", "load", "zrange"} /\ (pc'[w] = "zrange" <=> active # NoKey)
      /\ key'[w] = active
  BY DEF Request, Free, Fallback, Goto, cacheVars, IInv, CacheType, OtherType
<1>2. Shown' = Shown /\ Kept' = Kept
  BY <1>1 DEF Shown, Kept
<1>3. /\ \A v \in Workers : v # w => Reading(v)' = Reading(v)
      /\ \A v \in Workers : Loaded(v)' = Loaded(v)
  BY <1>1 DEF Reading, Written, Loaded
<1>4. Reading(w) = NotCached
  BY <1>1 DEF Reading
<1>5. CASE Reading(w)' = NotCached
  BY <1>1, <1>2, <1>3, <1>4, <1>5, RegisterStays
<1>6. CASE Reading(w)' # NotCached
  <2>1. active # NoKey /\ Reading(w)' = snapshots[active].ids
    BY <1>1, <1>6 DEF Reading, Written
  <2>2. Shown # 0 /\ snapshots[active].ids = history[Shown]
    BY <2>1 DEF IInv, KeysInv, ActiveWhole, Whole, Bucket, Shown
  <2>3. /\ [v \in Workers |-> Reading(v)'] =
               [[v \in Workers |-> Reading(v)] EXCEPT ![w] = history[Shown]]
        /\ [v \in Workers |-> Loaded(v)'] = [v \in Workers |-> Loaded(v)]
    BY <1>3, <2>1, <2>2
  <2>4. Register!Begin(w)
    BY <1>1, <1>2, <1>4, <2>2, <2>3 DEF Register!Begin
  <2> QED
    BY <2>4 DEF Register!Next
<1> QED
  BY <1>5, <1>6

\* The index of the version is read, or is no longer there: then nothing was being read.
LEMMA ZRangeIsHidden ==
    ASSUME IInv, NEW w \in Workers, ZRange(w)
    PROVE  UNCHANGED Register!vars
<1>1. /\ history' = history /\ l1' = l1 /\ load' = load
      /\ pc[w] = "zrange" /\ ids'[w] = Written(w)
      /\ \A v \in Workers : v # w => pc'[v] = pc[v] /\ ids'[v] = ids[v]
      /\ Written(w) = {} => pc'[w] \in {"idle", "load"}
      /\ Written(w) # {} => pc'[w] = "mget"
  BY DEF ZRange, Fallback, Goto, IInv, OtherType
<1>2. ActiveKept /\ ReadsKept(w)
  BY ZRangeKeeps
<1>3. Reading(w)' = Reading(w) /\ Loaded(w)' = Loaded(w)
  BY <1>1 DEF Reading, Loaded
<1>4. \A v \in Workers : v # w => Reading(v)' = Reading(v) /\ Loaded(v)' = Loaded(v)
  BY <1>1, <1>2, OthersRead, OthersLoaded
<1> QED
  BY <1>1, <1>2, <1>3, <1>4, ShownStays, RegisterStays

\* The request has all entries, and its process keeps what it has read, or it misses one.
LEMMA MGetIsFinish ==
    ASSUME IInv, RequestsRead, NEW w \in Workers, MGet(w)
    PROVE  Register!Next
<1>1. /\ history' = history /\ pc[w] = "mget" /\ pc'[w] \in {"idle", "load"}
      /\ Remember(w) \/ l1' = l1
      /\ \A v \in Workers : v # w => pc'[v] = pc[v] /\ ids'[v] = ids[v] /\ load'[v] = load[v]
  BY DEF MGet, Fallback, Forget, Goto, IInv, OtherType
<1>2. ActiveKept /\ ReadsKept(w)
  BY MGetKeeps
<1>3. Reading(w) = ids[w] /\ Reading(w)' = NotCached /\ Loaded(w)' = Loaded(w)
  BY <1>1 DEF Reading, Loaded
<1>4. \A v \in Workers : v # w => Reading(v)' = Reading(v) /\ Loaded(v)' = Loaded(v)
  BY <1>1, <1>2, OthersRead, OthersLoaded
<1>5. /\ [v \in Workers |-> Reading(v)'] =
             [[v \in Workers |-> Reading(v)] EXCEPT ![w] = NotCached]
      /\ [v \in Workers |-> Loaded(v)'] = [v \in Workers |-> Loaded(v)]
  BY <1>3, <1>4
<1>6. UNCHANGED l1 \/ Register!Keep(w, Reading(w))
  BY <1>1, <1>3 DEF RequestsRead, Remember, Home, Register!Keep
<1>7. Reading(w) # NotCached
  BY <1>3, NotCachedAssumption DEF IInv, OtherType
<1>8. Register!Finish(w)
  BY <1>1, <1>2, <1>5, <1>6, <1>7, ShownStays DEF Register!Finish
<1> QED
  BY <1>8 DEF Register!Next

\* What a process keeps in memory expires ...
LEMMA L1ExpiresIsExpire ==
    ASSUME IInv, NEW p \in Processes, L1Expires(p)
    PROVE  Register!Next
<1>1. /\ history' = history /\ UNCHANGED <<snapshots, active, pc, load, ids, key>>
      /\ l1' = [l1 EXCEPT ![p] = NotCached]
  BY DEF L1Expires, writeVars
<1>2. /\ Shown' = Shown /\ Kept' = Kept
      /\ \A v \in Workers : Reading(v)' = Reading(v) /\ Loaded(v)' = Loaded(v)
  BY <1>1 DEF Shown, Kept, Reading, Written, Loaded
<1>3. Register!Expire(p)
  BY <1>1, <1>2 DEF Register!Expire
<1> QED
  BY <1>3 DEF Register!Next

\* ... and the lock, which is not part of the register.
LEMMA LockExpiryIsHidden ==
    ASSUME LockExpires \/ UNCHANGED vars
    PROVE  UNCHANGED Register!vars
<1>1. UNCHANGED <<history, snapshots, active, l1, pc, load, ids, key>>
  BY DEF LockExpires, vars, cacheVars, writeVars
<1>2. /\ Shown' = Shown /\ Kept' = Kept
      /\ \A v \in Workers : Reading(v)' = Reading(v) /\ Loaded(v)' = Loaded(v)
  BY <1>1 DEF Shown, Kept, Reading, Written, Loaded
<1> QED
  BY <1>1, <1>2, RegisterStays

\* Every step of the cache is one of the register, or none.
LEMMA RegisterStep ==
    ASSUME IInv, RequestsRead, [Next]_vars
    PROVE  [Register!Next]_(Register!vars)
<1>1. ASSUME NEW w \in Workers, Step(w) PROVE [Register!Next]_(Register!vars)
  <2>1. DropOld(w) => pc[w] # "load"
    BY DEF DropOld
  <2> QED
    BY <1>1, <2>1, LoadIsLoad, WritingIsHidden, ActivateIsPublish, EndingIsLeave, ZRangeIsHidden,
       MGetIsFinish
    DEF Step
<1>2. ASSUME NEW w \in Workers, Rebuild(w) \/ RebuildFails(w) \/ Request(w)
      PROVE  [Register!Next]_(Register!vars)
  BY <1>2, WritingIsHidden, EarlyFailureIsHidden, EndingIsLeave, RequestIsBegin
<1> QED
  BY <1>1, <1>2, ChangeIsEdit, L1ExpiresIsExpire, LockExpiryIsHidden DEF Next

\* SetSnapshot and GetSnapshot implement a register of loads: a snapshot appears at once and
\* whole, and a request returns the one that was active when it began, or nothing of it.
THEOREM RegisterImplemented == Spec => ImplementsRegister
<1>1. Init => RequestsRead
  BY DEF Init, RequestsRead
<1>2. IInv /\ RequestsRead /\ [Next]_vars => RequestsRead'
  BY StepRequestsRead
<1>3. Init => Register!Init
  BY DEF Init, Register!Init, Shown, Kept, Reading, Loaded
<1>4. IInv /\ RequestsRead /\ [Next]_vars => [Register!Next]_(Register!vars)
  BY RegisterStep
<1> QED
  BY <1>1, <1>2, <1>3, <1>4, SnapshotInvariance, PTL DEF Spec, ImplementsRegister, Register!Spec

-----------------------------------------------------------------------------
(* The outbox: an instance with constants and variables of its own *)

CONSTANTS Events, FullRebuild, NoDedup, Consumers, Rebuilders, Changes, Failures

VARIABLES version, announce, dedup, stream, delivered, held, shown, at, todo, loaded, seen,
          missed, failures

Outbox == INSTANCE SchedulerOutbox
          WITH MaxChanges <- Changes, MaxFaults <- Failures, lock <- held, pc <- at,
               load <- loaded, faults <- failures

\* What SchedulerOutbox assumes of its constants; the prover takes an instance's assumption from
\* the hypotheses only.
OutboxConstants ==
    /\ NoDedup \subseteq Events
    /\ Consumers \cap Rebuilders = {}
    /\ Changes \in Nat /\ Failures \in Nat

(* The inductive invariant of the outbox *)

\* Nothing was loaded that the database did not hold yet.
NotAhead ==
    /\ shown =< version
    /\ \A w \in Outbox!Workers : loaded[w] =< version

\* An outbox worker has a batch from Poll to Acknowledge.  It has seen none of it until the
\* first event makes it rebuild, and a batch with the full rebuild is nothing else.
BatchOrder ==
    \A c \in Consumers :
        /\ todo[c] # {} /\ ~seen[c] => at[c] = "handle"
        /\ seen[c] => at[c] # "idle"
        /\ FullRebuild \in todo[c] => ~seen[c] /\ todo[c] = {FullRebuild}

\* An outbox worker will load the database, or is about to write what it holds; if it dies
\* before that it will read the batch again.
WillApply(c) ==
    /\ delivered[c] # {}
    /\ \/ at[c] = "idle"
       \/ ~seen[c] /\ todo[c] # {}
       \/ seen[c] /\ at[c] \in {"lock", "load"}
       \/ seen[c] /\ at[c] = "set" /\ loaded[c] = version

\* A change that the snapshot does not have yet and that was not missed is on its way: its
\* event, or an earlier one, is announced, in the stream or with a worker that will apply it.
OnItsWay ==
    \/ missed \/ shown = version
    \/ announce # {} \/ stream # {}
    \/ \E c \in Consumers : WillApply(c)

OutboxInv == Outbox!TypeOK /\ NotAhead /\ BatchOrder /\ OnItsWay

-----------------------------------------------------------------------------
(* The well-formed state *)

\* A worker goes to one of its labels.
LEMMA WorkerGoes ==
    ASSUME Outbox!TypeOK, NEW w \in Outbox!Workers, NEW label \in Outbox!Labels,
           Outbox!Goto(w, label)
    PROVE  /\ at' \in [Outbox!Workers -> Outbox!Labels] /\ at'[w] = label
           /\ \A v \in Outbox!Workers \ {w} : at'[v] = at[v]
BY DEF Outbox!Goto, Outbox!TypeOK

\* The bound on the failures holds.
LEMMA FaultIs ==
    ASSUME OutboxConstants, Outbox!TypeOK, Outbox!Fault \/ UNCHANGED failures
    PROVE  failures' \in 0..Failures
BY DEF OutboxConstants, Outbox!Fault, Outbox!TypeOK

\* A rebuild that ends goes on with the batch it was for, if any.
LEMMA BackIs ==
    ASSUME Outbox!TypeOK, NEW w \in Outbox!Workers
    PROVE  /\ Outbox!Back(w) \in {"handle", "idle"} /\ Outbox!Back(w) \in Outbox!Labels
           /\ Outbox!Back(w) = "handle" <=> w \in Consumers /\ seen[w]
BY DEF Outbox!Back, Outbox!Labels

\* The repository's steps leave the workers alone, except that the stream may be lost.
LEMMA RepositoryKeeps ==
    ASSUME OutboxConstants, OutboxInv, NEW e \in Events,
           Outbox!Change(e) \/ Outbox!Announce(e) \/ Outbox!Unannounced(e) \/ Outbox!DedupExpires(e)
    PROVE  OutboxInv'
<1>1. UNCHANGED <<delivered, held, shown, at, todo, seen, loaded>> /\ version =< version'
  BY DEF OutboxConstants, Outbox!Change, Outbox!Announce, Outbox!Unannounced, Outbox!DedupExpires,
      Outbox!workerVars, OutboxInv, Outbox!TypeOK
<1>2. CASE Outbox!Change(e)
  <2>1. /\ UNCHANGED <<dedup, stream, missed, failures>>
        /\ version' \in 0..Changes /\ version =< version'
        /\ announce' = announce \cup {e}
    BY <1>2 DEF OutboxConstants, Outbox!Change, OutboxInv, Outbox!TypeOK
  <2>2. Outbox!TypeOK'
    BY <1>1, <2>1 DEF OutboxInv, Outbox!TypeOK
  <2>3. NotAhead'
    BY <1>1, <2>1 DEF OutboxConstants, OutboxInv, Outbox!TypeOK, NotAhead
  <2>4. BatchOrder' /\ OnItsWay'
    BY <1>1, <2>1 DEF OutboxInv, BatchOrder, OnItsWay
  <2> QED
    BY <2>2, <2>3, <2>4 DEF OutboxInv
<1>3. ASSUME version' = version, announce' \subseteq Events, dedup' \subseteq Events,
             stream' \subseteq Events, missed' \in BOOLEAN, failures' \in 0..Failures, OnItsWay'
      PROVE  OutboxInv'
  BY <1>1, <1>3 DEF OutboxInv, Outbox!TypeOK, NotAhead, BatchOrder
<1>4. CASE Outbox!Announce(e)
  <2>1. /\ version' = version /\ announce' \subseteq Events /\ dedup' \subseteq Events
        /\ stream' \subseteq Events /\ missed' \in BOOLEAN
    BY <1>4 DEF Outbox!Announce, Outbox!Publish, Outbox!Append, OutboxInv, Outbox!TypeOK
  <2>2. failures' \in 0..Failures
    BY <1>4, FaultIs DEF Outbox!Announce, Outbox!Publish, OutboxInv
  <2>3. OnItsWay'
    <3>1. CASE missed' \/ stream' # {}
      BY <3>1 DEF OnItsWay
    <3>2. CASE Outbox!Ahead(e) /\ UNCHANGED stream
      <4>1. \A c \in Consumers : FullRebuild \in todo[c] => ~seen[c]
        BY DEF OutboxInv, BatchOrder
      <4>2. e \in stream \/ \E c \in Consumers : delivered[c] # {} /\ ~seen[c] /\ todo[c] # {}
        BY <3>2, <4>1 DEF Outbox!Ahead
      <4> QED
        BY <1>1, <3>2, <4>2 DEF OnItsWay, WillApply
    <3> QED
      BY <1>4, <3>1, <3>2 DEF Outbox!Announce, Outbox!Publish, Outbox!Append
  <2> QED
    BY <1>3, <2>1, <2>2, <2>3
<1>5. CASE Outbox!Unannounced(e)
  <2>1. /\ version' = version /\ announce' \subseteq Events /\ missed'
        /\ UNCHANGED <<dedup, stream>> /\ failures' \in 0..Failures
    BY <1>5, FaultIs DEF Outbox!Unannounced, OutboxInv, Outbox!TypeOK
  <2> QED
    BY <1>3, <1>5, <2>1 DEF Outbox!Unannounced, OutboxInv, Outbox!TypeOK, OnItsWay
<1>6. CASE Outbox!DedupExpires(e)
  <2>1. /\ UNCHANGED <<version, announce, stream, missed, failures>> /\ dedup' \subseteq Events
    BY <1>6 DEF Outbox!DedupExpires, OutboxInv, Outbox!TypeOK
  <2>2. OnItsWay'
    BY <1>1, <2>1 DEF OutboxInv, OnItsWay, WillApply
  <2> QED
    BY <1>3, <2>1, <2>2 DEF OutboxInv, Outbox!TypeOK
<1> QED
  BY <1>2, <1>4, <1>5, <1>6

\* What is lost with the stream counts as missed.
LEMMA StreamLostKeeps ==
    ASSUME OutboxConstants, OutboxInv, Outbox!StreamLost
    PROVE  OutboxInv'
<1>1. failures' \in 0..Failures
  BY FaultIs DEF Outbox!StreamLost, OutboxInv
<1>2. Outbox!TypeOK'
  BY <1>1 DEF Outbox!StreamLost, Outbox!workerVars, OutboxInv, Outbox!TypeOK
<1> QED
  BY <1>2 DEF Outbox!StreamLost, Outbox!workerVars, OutboxInv, NotAhead, BatchOrder, OnItsWay

\* A step of one worker keeps the batches and the loads of the others, and so what they will
\* apply.
LEMMA WorkerKeeps ==
    ASSUME OutboxConstants, OutboxInv, Outbox!TypeOK', NEW w \in Outbox!Workers,
           UNCHANGED <<version, announce>>,
           \A v \in Outbox!Workers \ {w} : at'[v] = at[v] /\ loaded'[v] = loaded[v],
           \A c \in Consumers \ {w} :
                delivered'[c] = delivered[c] /\ todo'[c] = todo[c] /\ seen'[c] = seen[c],
           shown' =< version, loaded'[w] =< version,
           w \in Consumers =>
                /\ todo'[w] # {} /\ ~seen'[w] => at'[w] = "handle"
                /\ seen'[w] => at'[w] # "idle"
                /\ FullRebuild \in todo'[w] => ~seen'[w] /\ todo'[w] = {FullRebuild},
           \/ missed' \/ shown' = version
           \/ w \in Consumers /\ WillApply(w)'
           \/ /\ ~missed => ~missed' \* nothing is lost: what was on its way without w still is
              /\ missed => missed'
              /\ shown = version => shown' = version
              /\ stream # {} => stream' # {}
              /\ ~(w \in Consumers /\ WillApply(w))
    PROVE  OutboxInv'
<1>1. NotAhead'
  BY DEF OutboxInv, NotAhead
<1>2. BatchOrder'
  BY DEF OutboxInv, BatchOrder, Outbox!Workers
<1>3. \A c \in Consumers \ {w} : WillApply(c)' <=> WillApply(c)
  BY DEF WillApply, Outbox!Workers
<1>4. OnItsWay'
  BY <1>3 DEF OutboxInv, OnItsWay
<1> QED
  BY <1>1, <1>2, <1>4 DEF OutboxInv

-----------------------------------------------------------------------------
(* The outbox workers *)

\* A batch that is read is going to be applied.
LEMMA PollKeeps ==
    ASSUME OutboxConstants, OutboxInv, NEW c \in Consumers, Outbox!Poll(c)
    PROVE  OutboxInv'
<1> DEFINE entries == IF delivered[c] # {} THEN delivered[c] ELSE stream
<1>1. /\ entries # {} /\ entries \subseteq Events /\ c \in Outbox!Workers /\ at[c] = "idle"
      /\ Outbox!Goto(c, "handle")
      /\ delivered' = [delivered EXCEPT ![c] = entries]
      /\ todo' = [todo EXCEPT ![c] = Outbox!Batch(entries)]
      /\ stream' \subseteq Events
      /\ UNCHANGED <<version, announce, dedup, held, shown, seen, loaded, missed, failures>>
  BY DEF Outbox!Poll, OutboxInv, Outbox!TypeOK, Outbox!Workers
<1> HIDE DEF entries
<1>2. /\ Outbox!Batch(entries) # {} /\ Outbox!Batch(entries) \subseteq Events
      /\ FullRebuild \in Outbox!Batch(entries) => Outbox!Batch(entries) = {FullRebuild}
  BY <1>1 DEF Outbox!Batch
<1>3. /\ at' \in [Outbox!Workers -> Outbox!Labels] /\ at'[c] = "handle"
      /\ \A v \in Outbox!Workers \ {c} : at'[v] = at[v]
  BY <1>1, WorkerGoes DEF OutboxInv, Outbox!Labels
<1>4. /\ delivered' \in [Consumers -> SUBSET Events] /\ delivered'[c] # {}
      /\ todo' \in [Consumers -> SUBSET Events] /\ todo'[c] = Outbox!Batch(entries)
      /\ \A d \in Consumers \ {c} : delivered'[d] = delivered[d] /\ todo'[d] = todo[d]
  BY <1>1, <1>2 DEF OutboxInv, Outbox!TypeOK
<1>5. Outbox!TypeOK'
  BY <1>1, <1>3, <1>4 DEF OutboxInv, Outbox!TypeOK
<1>6. ~seen[c]
  BY <1>1 DEF OutboxInv, BatchOrder
<1>7. WillApply(c)'
  BY <1>1, <1>2, <1>4, <1>6 DEF WillApply
<1>8. shown' =< version /\ loaded'[c] =< version
  BY <1>1 DEF OutboxInv, NotAhead
<1> QED
  BY <1>1, <1>2, <1>3, <1>4, <1>5, <1>6, <1>7, <1>8, WorkerKeeps

\* The first event of a batch begins the rebuild; an event that fails is missed.
LEMMA HandleKeeps ==
    ASSUME OutboxConstants, OutboxInv, NEW c \in Consumers, Outbox!Handle(c)
    PROVE  OutboxInv'
<1>1. /\ at[c] = "handle" /\ c \in Outbox!Workers
      /\ UNCHANGED <<version, announce, dedup, stream, delivered, held, shown, loaded>>
  BY DEF Outbox!Handle, Outbox!outboxVars, Outbox!Workers
<1>2. PICK e \in todo[c] :
        /\ todo' = [todo EXCEPT ![c] = @ \ {e}]
        /\ \/ /\ seen' = [seen EXCEPT ![c] = TRUE]
              /\ Outbox!Goto(c, IF seen[c] THEN "handle" ELSE "lock")
              /\ UNCHANGED <<missed, failures>>
           \/ Outbox!Fault /\ missed' = TRUE /\ UNCHANGED <<seen, at>>
  BY DEF Outbox!Handle
<1>3. /\ todo' \in [Consumers -> SUBSET Events] /\ todo'[c] = todo[c] \ {e}
      /\ \A d \in Consumers \ {c} : todo'[d] = todo[d]
  BY <1>2 DEF OutboxInv, Outbox!TypeOK
<1>4. shown' =< version /\ loaded'[c] =< version
  BY <1>1 DEF OutboxInv, NotAhead
<1>5. FullRebuild \notin todo'[c]
  BY <1>2, <1>3 DEF OutboxInv, BatchOrder
<1>6. CASE seen' = [seen EXCEPT ![c] = TRUE] /\ UNCHANGED <<missed, failures>>
           /\ Outbox!Goto(c, IF seen[c] THEN "handle" ELSE "lock")
  <2>1. /\ seen' \in [Consumers -> BOOLEAN] /\ seen'[c]
        /\ \A d \in Consumers \ {c} : seen'[d] = seen[d]
    BY <1>6 DEF OutboxInv, Outbox!TypeOK
  <2>2. /\ at' \in [Outbox!Workers -> Outbox!Labels]
        /\ at'[c] = (IF seen[c] THEN "handle" ELSE "lock")
        /\ \A v \in Outbox!Workers \ {c} : at'[v] = at[v]
    BY <1>1, <1>6, WorkerGoes DEF OutboxInv, Outbox!Labels
  <2>3. Outbox!TypeOK'
    BY <1>1, <1>3, <1>6, <2>1, <2>2 DEF OutboxInv, Outbox!TypeOK
  <2>4. CASE seen[c]
    <3>1. ~WillApply(c)
      BY <1>1, <2>4 DEF WillApply
    <3> QED
      BY <1>1, <1>3, <1>4, <1>5, <1>6, <2>1, <2>2, <2>3, <2>4, <3>1, WorkerKeeps
  <2>5. CASE ~seen[c]
    <3>1. delivered[c] # {} => WillApply(c)'
      BY <1>1, <2>1, <2>2, <2>5 DEF WillApply
    <3>2. delivered[c] = {} => ~WillApply(c)
      BY DEF WillApply
    <3> QED
      BY <1>1, <1>3, <1>4, <1>5, <1>6, <2>1, <2>2, <2>3, <2>5, <3>1, <3>2, WorkerKeeps
  <2> QED
    BY <2>4, <2>5
<1>7. CASE Outbox!Fault /\ missed' = TRUE /\ UNCHANGED <<seen, at>>
  <2>1. failures' \in 0..Failures
    BY <1>7, FaultIs DEF OutboxInv
  <2>2. Outbox!TypeOK'
    BY <1>1, <1>3, <1>7, <2>1 DEF OutboxInv, Outbox!TypeOK
  <2> QED
    BY <1>1, <1>3, <1>4, <1>5, <1>7, <2>2, WorkerKeeps
<1> QED
  BY <1>2, <1>6, <1>7

\* A batch is acknowledged when its rebuild is through.
LEMMA AcknowledgeKeeps ==
    ASSUME OutboxConstants, OutboxInv, NEW c \in Consumers, Outbox!Acknowledge(c)
    PROVE  OutboxInv'
<1>1. /\ at[c] = "handle" /\ todo[c] = {} /\ c \in Outbox!Workers
      /\ seen' = [seen EXCEPT ![c] = FALSE]
      /\ UNCHANGED <<version, announce, dedup, stream, held, shown, todo, loaded, missed>>
  BY DEF Outbox!Acknowledge, Outbox!Workers
<1>2. PICK label \in {"idle", "lock"} : Outbox!Goto(c, label)
  BY DEF Outbox!Acknowledge
<1>3. /\ at' \in [Outbox!Workers -> Outbox!Labels] /\ at'[c] = label
      /\ \A v \in Outbox!Workers \ {c} : at'[v] = at[v]
  BY <1>1, <1>2, WorkerGoes DEF OutboxInv, Outbox!Labels
<1>4. /\ delivered' \in [Consumers -> SUBSET Events]
      /\ \A d \in Consumers \ {c} : delivered'[d] = delivered[d]
  BY DEF Outbox!Acknowledge, OutboxInv, Outbox!TypeOK
<1>5. /\ seen' \in [Consumers -> BOOLEAN] /\ ~seen'[c]
      /\ \A d \in Consumers \ {c} : seen'[d] = seen[d]
  BY <1>1 DEF OutboxInv, Outbox!TypeOK
<1>6. failures' \in 0..Failures
  BY FaultIs DEF Outbox!Acknowledge, OutboxInv
<1>7. Outbox!TypeOK'
  BY <1>1, <1>3, <1>4, <1>5, <1>6 DEF OutboxInv, Outbox!TypeOK
<1>8. ~WillApply(c)
  BY <1>1 DEF WillApply
<1>9. shown' =< version /\ loaded'[c] =< version
  BY <1>1 DEF OutboxInv, NotAhead
<1> QED
  BY <1>1, <1>3, <1>4, <1>5, <1>7, <1>8, <1>9, WorkerKeeps

\* A worker that dies reads the batch again.
LEMMA CrashKeeps ==
    ASSUME OutboxConstants, OutboxInv, NEW c \in Consumers, Outbox!Crash(c)
    PROVE  OutboxInv'
<1>1. /\ c \in Outbox!Workers /\ Outbox!Goto(c, "idle")
      /\ todo' = [todo EXCEPT ![c] = {}] /\ seen' = [seen EXCEPT ![c] = FALSE]
      /\ loaded' = [loaded EXCEPT ![c] = 0]
      /\ UNCHANGED <<version, announce, dedup, stream, delivered, held, shown, missed>>
  BY DEF Outbox!Crash, Outbox!outboxVars, Outbox!Workers
<1>2. /\ at' \in [Outbox!Workers -> Outbox!Labels] /\ at'[c] = "idle"
      /\ \A v \in Outbox!Workers \ {c} : at'[v] = at[v]
  BY <1>1, WorkerGoes DEF OutboxInv, Outbox!Labels
<1>3. /\ todo' \in [Consumers -> SUBSET Events] /\ todo'[c] = {}
      /\ seen' \in [Consumers -> BOOLEAN] /\ ~seen'[c]
      /\ \A d \in Consumers \ {c} : todo'[d] = todo[d] /\ seen'[d] = seen[d]
  BY <1>1 DEF OutboxInv, Outbox!TypeOK
<1>4. /\ loaded' \in [Outbox!Workers -> 0..Changes] /\ loaded'[c] = 0
      /\ \A v \in Outbox!Workers \ {c} : loaded'[v] = loaded[v]
  BY <1>1 DEF OutboxConstants, OutboxInv, Outbox!TypeOK
<1>5. failures' \in 0..Failures
  BY FaultIs DEF Outbox!Crash, OutboxInv
<1>6. Outbox!TypeOK'
  BY <1>1, <1>2, <1>3, <1>4, <1>5 DEF OutboxInv, Outbox!TypeOK
<1>7. WillApply(c) => WillApply(c)'
  BY <1>1, <1>2 DEF WillApply
<1>8. shown' =< version /\ loaded'[c] =< version
  BY <1>1, <1>4 DEF OutboxConstants, OutboxInv, Outbox!TypeOK, NotAhead
<1> QED
  BY <1>1, <1>2, <1>3, <1>4, <1>6, <1>7, <1>8, WorkerKeeps

-----------------------------------------------------------------------------
(* The rebuilds *)

\* Steps of a rebuild leave the outbox alone.
LEMMA RebuildsKeep ==
    ASSUME OutboxConstants, OutboxInv, Outbox!TypeOK', NEW w \in Outbox!Workers,
           UNCHANGED <<version, Outbox!outboxVars, todo, seen>>,
           \A v \in Outbox!Workers \ {w} : at'[v] = at[v] /\ loaded'[v] = loaded[v],
           shown' =< version, loaded'[w] =< version,
           at[w] # "handle",
           at[w] = "idle" => w \notin Consumers,
           w \in Consumers /\ seen[w] => at'[w] # "idle",
           \/ missed' \/ shown' = version
           \/ w \in Consumers /\ WillApply(w)'
           \/ /\ missed' = missed
              /\ shown = version => shown' = version
              /\ ~(w \in Consumers /\ WillApply(w))
    PROVE  OutboxInv'
<1>1. w \in Consumers => (todo[w] # {} => seen[w])
  BY DEF OutboxInv, BatchOrder
<1>2. w \in Consumers => (FullRebuild \in todo[w] => ~seen[w] /\ todo[w] = {FullRebuild})
  BY DEF OutboxInv, BatchOrder
<1>3. UNCHANGED <<announce, stream, delivered>>
  BY DEF Outbox!outboxVars
<1> QED
  BY <1>1, <1>2, <1>3, WorkerKeeps

\* A full rebuild begins.
LEMMA BeginKeeps ==
    ASSUME OutboxConstants, OutboxInv, NEW w \in Rebuilders, Outbox!BeginFull(w)
    PROVE  OutboxInv'
<1>1. w \in Outbox!Workers /\ w \notin Consumers
  BY DEF OutboxConstants, Outbox!Workers
<1>2. /\ at[w] = "idle" /\ Outbox!Goto(w, "lock")
      /\ UNCHANGED <<version, Outbox!outboxVars, held, shown, todo, seen, loaded, missed, failures>>
  BY DEF Outbox!BeginFull
<1>3. /\ at' \in [Outbox!Workers -> Outbox!Labels] /\ \A v \in Outbox!Workers \ {w} : at'[v] = at[v]
  BY <1>1, <1>2, WorkerGoes DEF OutboxInv, Outbox!Labels
<1>4. Outbox!TypeOK'
  BY <1>2, <1>3 DEF Outbox!outboxVars, OutboxInv, Outbox!TypeOK
<1>5. shown' =< version /\ loaded'[w] =< version
  BY <1>1, <1>2 DEF OutboxInv, NotAhead
<1> QED
  BY <1>1, <1>2, <1>3, <1>4, <1>5, RebuildsKeep

\* A worker whose rebuild does not take place goes back, and what it had seen is missed.
LEMMA SkipKeeps ==
    ASSUME OutboxConstants, OutboxInv, NEW w \in Outbox!Workers, at[w] \in {"lock", "load", "set"},
           Outbox!Goto(w, Outbox!Back(w)), Outbox!Skipped(w), Outbox!Fault \/ UNCHANGED failures,
           loaded' = loaded \/ loaded' = [loaded EXCEPT ![w] = 0],
           UNCHANGED <<version, Outbox!outboxVars, held, shown, todo, seen>>
    PROVE  OutboxInv'
<1>1. Outbox!Back(w) \in Outbox!Labels /\ (Outbox!Back(w) = "handle" <=> w \in Consumers /\ seen[w])
      /\ Outbox!Back(w) \in {"handle", "idle"}
  BY BackIs DEF OutboxInv
<1>2. /\ at' \in [Outbox!Workers -> Outbox!Labels] /\ at'[w] = Outbox!Back(w)
      /\ \A v \in Outbox!Workers \ {w} : at'[v] = at[v]
  BY <1>1, WorkerGoes DEF OutboxInv
<1>3. missed' \in BOOLEAN
  BY DEF Outbox!Skipped
<1>4. missed' \/ (missed' = missed /\ Outbox!Back(w) # "handle")
  BY DEF Outbox!Skipped, OutboxInv, Outbox!TypeOK
<1>5. failures' \in 0..Failures
  BY FaultIs DEF OutboxInv
<1>6. /\ loaded' \in [Outbox!Workers -> 0..Changes] /\ loaded'[w] \in {0, loaded[w]}
      /\ \A v \in Outbox!Workers \ {w} : loaded'[v] = loaded[v]
  BY DEF OutboxConstants, OutboxInv, Outbox!TypeOK
<1>7. Outbox!TypeOK'
  BY <1>2, <1>3, <1>5, <1>6 DEF Outbox!outboxVars, OutboxInv, Outbox!TypeOK
<1>8. shown' =< version /\ loaded'[w] =< version
  BY <1>6 DEF OutboxConstants, OutboxInv, Outbox!TypeOK, NotAhead
<1>9. w \in Consumers /\ ~seen[w] => ~WillApply(w)
  BY DEF OutboxInv, BatchOrder, WillApply
<1> QED
  BY <1>1, <1>2, <1>4, <1>6, <1>7, <1>8, <1>9, RebuildsKeep

\* TryLockBucket: the rebuild goes on, or is skipped while another has the lock.
LEMMA LockKeeps ==
    ASSUME OutboxConstants, OutboxInv, NEW w \in Outbox!Workers, Outbox!TryLock(w)
    PROVE  OutboxInv'
<1>1. /\ at[w] = "lock"
      /\ UNCHANGED <<version, Outbox!outboxVars, shown, todo, seen, loaded, failures>>
  BY DEF Outbox!TryLock
<1>2. CASE held' = TRUE /\ Outbox!Goto(w, "load") /\ UNCHANGED missed
  <2>1. /\ at' \in [Outbox!Workers -> Outbox!Labels] /\ at'[w] = "load"
        /\ \A v \in Outbox!Workers \ {w} : at'[v] = at[v]
    BY <1>2, WorkerGoes DEF OutboxInv, Outbox!Labels
  <2>2. Outbox!TypeOK'
    BY <1>1, <1>2, <2>1 DEF Outbox!outboxVars, OutboxInv, Outbox!TypeOK
  <2>3. shown' =< version /\ loaded'[w] =< version
    BY <1>1 DEF OutboxInv, NotAhead
  <2>4. w \in Consumers => (todo[w] # {} => seen[w])
    BY <1>1 DEF OutboxInv, BatchOrder
  <2>5. w \in Consumers /\ WillApply(w) => WillApply(w)'
    BY <1>1, <2>1, <2>4 DEF Outbox!outboxVars, WillApply
  <2> QED
    BY <1>1, <1>2, <2>1, <2>2, <2>3, <2>5, RebuildsKeep
<1>3. CASE Outbox!Goto(w, Outbox!Back(w)) /\ Outbox!Skipped(w) /\ UNCHANGED held
  BY <1>1, <1>3, SkipKeeps
<1> QED
  BY <1>2, <1>3 DEF Outbox!TryLock

\* The accounts are loaded as they are.
LEMMA LoadsKeep ==
    ASSUME OutboxConstants, OutboxInv, NEW w \in Outbox!Workers, Outbox!Load(w)
    PROVE  OutboxInv'
<1>1. /\ at[w] = "load" /\ loaded' = [loaded EXCEPT ![w] = version] /\ Outbox!Goto(w, "set")
      /\ UNCHANGED <<version, Outbox!outboxVars, held, shown, todo, seen, missed, failures>>
  BY DEF Outbox!Load
<1>2. /\ at' \in [Outbox!Workers -> Outbox!Labels] /\ at'[w] = "set"
      /\ \A v \in Outbox!Workers \ {w} : at'[v] = at[v]
  BY <1>1, WorkerGoes DEF OutboxInv, Outbox!Labels
<1>3. /\ loaded' \in [Outbox!Workers -> 0..Changes] /\ loaded'[w] = version
      /\ \A v \in Outbox!Workers \ {w} : loaded'[v] = loaded[v]
  BY <1>1 DEF OutboxInv, Outbox!TypeOK
<1>4. Outbox!TypeOK'
  BY <1>1, <1>2, <1>3 DEF Outbox!outboxVars, OutboxInv, Outbox!TypeOK
<1>5. shown' =< version /\ loaded'[w] =< version
  BY <1>1, <1>3 DEF OutboxInv, Outbox!TypeOK, NotAhead
<1>6. w \in Consumers => (todo[w] # {} => seen[w])
  BY <1>1 DEF OutboxInv, BatchOrder
<1>7. w \in Consumers /\ WillApply(w) => WillApply(w)'
  BY <1>1, <1>2, <1>3, <1>6 DEF Outbox!outboxVars, WillApply
<1> QED
  BY <1>1, <1>2, <1>3, <1>4, <1>5, <1>7, RebuildsKeep

\* The snapshot becomes what the worker loaded: the current state, or a state of before, with
\* the change still on its way.
LEMMA SetKeeps ==
    ASSUME OutboxConstants, OutboxInv, NEW w \in Outbox!Workers, Outbox!Set(w)
    PROVE  OutboxInv'
<1>1. /\ at[w] = "set" /\ shown' = loaded[w] /\ loaded' = [loaded EXCEPT ![w] = 0]
      /\ missed' = (loaded[w] # version /\ (missed \/ loaded[w] < shown))
      /\ Outbox!Goto(w, Outbox!Back(w))
      /\ UNCHANGED <<version, Outbox!outboxVars, held, todo, seen, failures>>
  BY DEF Outbox!Set
<1>2. Outbox!Back(w) \in Outbox!Labels /\ (Outbox!Back(w) = "handle" <=> w \in Consumers /\ seen[w])
      /\ Outbox!Back(w) \in {"handle", "idle"}
  BY BackIs DEF OutboxInv
<1>3. /\ at' \in [Outbox!Workers -> Outbox!Labels] /\ at'[w] = Outbox!Back(w)
      /\ \A v \in Outbox!Workers \ {w} : at'[v] = at[v]
  BY <1>1, <1>2, WorkerGoes DEF OutboxInv
<1>4. /\ loaded' \in [Outbox!Workers -> 0..Changes] /\ loaded'[w] = 0
      /\ \A v \in Outbox!Workers \ {w} : loaded'[v] = loaded[v]
  BY <1>1 DEF OutboxConstants, OutboxInv, Outbox!TypeOK
<1>5. shown' \in 0..Changes /\ missed' \in BOOLEAN
  BY <1>1 DEF OutboxInv, Outbox!TypeOK
<1>6. Outbox!TypeOK'
  BY <1>1, <1>3, <1>4, <1>5 DEF Outbox!outboxVars, OutboxInv, Outbox!TypeOK
<1>7. shown' =< version /\ loaded'[w] =< version
  BY <1>1, <1>4 DEF OutboxConstants, OutboxInv, Outbox!TypeOK, NotAhead
<1>8. ~missed' /\ loaded[w] # version => ~missed /\ ~(loaded[w] < shown)
  BY <1>1
<1>9. loaded[w] # version /\ shown = version => loaded[w] < shown
  BY DEF OutboxConstants, OutboxInv, Outbox!TypeOK, NotAhead
<1>10. w \in Consumers => (todo[w] # {} => seen[w])
  BY <1>1 DEF OutboxInv, BatchOrder
<1>11. w \in Consumers /\ loaded[w] # version => ~WillApply(w)
  BY <1>1, <1>10 DEF WillApply
<1>12. \/ missed' \/ shown' = version
       \/ /\ missed' = missed
          /\ shown = version => shown' = version
          /\ ~(w \in Consumers /\ WillApply(w))
  BY <1>1, <1>5, <1>8, <1>9, <1>11 DEF OutboxInv, Outbox!TypeOK
<1> QED
  BY <1>1, <1>2, <1>3, <1>4, <1>6, <1>7, <1>12, RebuildsKeep

-----------------------------------------------------------------------------
(* Every step *)

\* At first the snapshot is current and no worker busy.
LEMMA OutboxInit ==
    ASSUME OutboxConstants, Outbox!Init
    PROVE  OutboxInv
<1>1. 0 \in 0..Changes /\ 0 \in 0..Failures
  BY DEF OutboxConstants
<1>2. held \in BOOLEAN /\ missed \in BOOLEAN
  BY DEF Outbox!Init
<1>3. Outbox!TypeOK
  BY <1>1, <1>2 DEF Outbox!Init, Outbox!TypeOK, Outbox!Labels
<1> QED
  BY <1>3 DEF Outbox!Init, OutboxInv, NotAhead, BatchOrder, OnItsWay, Outbox!Workers

\* Every step keeps the invariant.
LEMMA OutboxNext ==
    ASSUME OutboxConstants, OutboxInv, [Outbox!Next]_(Outbox!vars)
    PROVE  OutboxInv'
<1>1. CASE UNCHANGED Outbox!vars
  BY <1>1
  DEF Outbox!vars, Outbox!outboxVars, Outbox!workerVars, OutboxInv, Outbox!TypeOK,
      NotAhead, BatchOrder, OnItsWay, WillApply
<1>2. CASE Outbox!LockExpires
  <2>1. UNCHANGED <<version, Outbox!outboxVars, shown, Outbox!workerVars, missed, failures>>
        /\ held' \in BOOLEAN
    BY <1>2 DEF Outbox!LockExpires
  <2>2. Outbox!TypeOK'
    BY <2>1 DEF Outbox!outboxVars, Outbox!workerVars, OutboxInv, Outbox!TypeOK
  <2> QED
    BY <2>1, <2>2
    DEF Outbox!outboxVars, Outbox!workerVars, OutboxInv, NotAhead, BatchOrder, OnItsWay, WillApply
<1>3. ASSUME NEW w \in Outbox!Workers, Outbox!RebuildFails(w) PROVE OutboxInv'
  BY <1>3, SkipKeeps DEF Outbox!RebuildFails
<1> QED
  BY <1>1, <1>2, <1>3, RepositoryKeeps, StreamLostKeeps, PollKeeps, HandleKeeps,
     AcknowledgeKeeps, CrashKeeps, BeginKeeps, LockKeeps, LoadsKeep, SetKeeps
  DEF Outbox!Next, Outbox!Rebuild

\* Along every behaviour of the repository, the outbox workers and the rebuilds.
THEOREM OutboxInvariance ==
    ASSUME OutboxConstants
    PROVE  Outbox!Spec => []OutboxInv
<1>1. Outbox!Init => OutboxInv
  BY OutboxInit
<1>2. OutboxInv /\ [Outbox!Next]_(Outbox!vars) => OutboxInv'
  BY OutboxNext
<1> QED
  BY <1>1, <1>2, PTL DEF Outbox!Spec

\* Once every change is announced and every event handled the snapshot is current, unless a
\* change was missed.
THEOREM AppliedInTheEnd ==
    ASSUME OutboxConstants
    PROVE  Outbox!Spec => []Outbox!Inv
<1>1. OutboxInv => Outbox!Inv
  BY DEF OutboxInv, OnItsWay, WillApply, Outbox!Inv, Outbox!AppliedUnlessMissed, Outbox!Quiet
<1>2. Outbox!Spec => []OutboxInv
  BY OutboxInvariance
<1> QED
  BY <1>1, <1>2, PTL

=============================================================================

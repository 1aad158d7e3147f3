-------------------------- MODULE TokenRefreshProofs --------------------------
(***************************************************************************)
(* Proofs about TokenRefresh, for any number of processes, of requests and *)
(* of refresh loops in them, of tokens and of faults.                      *)
(***************************************************************************)
EXTENDS TokenRefresh, FiniteSetTheorems, TLAPS

-----------------------------------------------------------------------------
(* The inductive invariant *)

Labels == {"idle", "mutex", "lock", "reread", "refresh", "recover", "persist", "return", "wait",
           "version", "set", "writeBack", "invalidate", "disable"}

Outcomes == {"none", "held", "current", "refreshed", "invalid", "failed"}

\* TypeOK in the parts about the account, the lock and the callers.
AccountType ==
    /\ newest \in 0..issued /\ db \in 0..newest /\ issued \in Tokens
    /\ status \in {"active", "error"}
    /\ age \in [Tokens -> {"fresh", "soon", "late"}]
    /\ cached \in Tokens \cup {NoToken}
    /\ lost \in BOOLEAN /\ raced \in BOOLEAN
    /\ faults \in 0..MaxFaults

LockType ==
    /\ lock \in Callers \cup {NoCaller} /\ acquired \subseteq Callers
    /\ mutex \in [Processes -> Callers \cup {NoCaller}]
    /\ astray \in BOOLEAN

CallerType ==
    /\ pc \in [Callers -> Labels]
    /\ mine \in [Callers -> Tokens \cup {NoToken}]
    /\ got \in [Callers -> Tokens \cup {NoToken}] /\ unread \subseteq Callers
    /\ outcome \in [Callers -> Outcomes]
    /\ tries \in [Refreshers -> 0..MaxRetries]

\* A caller that is doing something has an account of some age, and an outcome only when it
\* returns; the database has the newest token unless one was lost.
MineKnown ==
    /\ ~lost => db = newest
    /\ \A c \in Callers :
        /\ pc[c] # "idle" => mine[c] \in 0..newest
        /\ outcome[c] # "none" => pc[c] = "return"

\* So is the token that it tries, and the one that it comes back with.
GotKnown ==
    \A c \in Callers :
        pc[c] \in {"refresh", "recover"} \/ outcome[c] \in {"refreshed", "current"} =>
            got[c] \in 0..newest

\* A token that is in no copy of the account yet is the provider's newest, and one caller has
\* it, with the lock or without.
PersistAlone ==
    \A c \in Callers : pc[c] = "persist" =>
        /\ got[c] = issued /\ newest < issued
        /\ \A d \in Callers : pc[d] = "persist" => d = c

\* The last token stays fresh, and only a token that is not fresh is used.
UsedWhenOld ==
    /\ age[MaxTokens] = "fresh"
    /\ \A r \in Requests : pc[r] = "writeBack" => mine[r] < MaxTokens
    /\ \A c \in Callers : pc[c] = "refresh" => age[got[c]] # "fresh"

TypeInv ==
    /\ AccountType /\ LockType /\ CallerType
    /\ MineKnown /\ GotKnown /\ PersistAlone /\ UsedWhenOld

\* Between the acquisition of the lock and the outcome.
Critical == {"reread", "refresh", "recover", "persist"}

\* The callers that will delete the key of the lock have set it, and only they refresh.
LockHeld ==
    ~astray =>
        /\ \A c \in acquired : lock = c
        /\ \A c \in Callers : pc[c] \in Critical => c \in acquired

\* While nothing is lost the newest token is stored or about to be, and whoever is refused
\* used an older one.
Alive ==
    ~lost /\ ~astray =>
        /\ status = "active"
        /\ \A c \in Callers : outcome[c] # "invalid" /\ pc[c] # "disable"
        /\ \A c \in Callers : pc[c] = "recover" => got[c] # issued
        /\ db = issued \/ \E c \in Callers : pc[c] = "persist"

\* A caller with the newest token in the database that has yet to reach the cache.
Brings(c) ==
    \/ outcome[c] = "refreshed" /\ got[c] = db
    \/ pc[c] \in {"invalidate", "version", "set"} /\ mine[c] = db

CacheFollows ==
    ~raced =>
        /\ cached # NoToken /\ cached < db => \E c \in Callers : Brings(c)
        /\ \A r \in Requests : pc[r] = "set" => mine[r] >= db

IInv == TypeInv /\ LockHeld /\ Alive /\ CacheFollows

-----------------------------------------------------------------------------
(* The steps *)

\* The bound on the faults holds.
LEMMA FaultsType ==
    ASSUME AccountType, Fault \/ UNCHANGED faults
    PROVE  faults' \in 0..MaxFaults
BY TokenAssumption DEF Fault, AccountType

\* The token read under the lock is an old or the current one; it is refreshed when due.
LEMMA RereadEffect ==
    ASSUME IInv, NEW c \in Callers, Reread(c)
    PROVE  \E token \in 0..newest :
                /\ got' = [got EXCEPT ![c] = token]
                /\ \/ Goto(c, "refresh") /\ NeedsRefresh(c, token) /\ UNCHANGED outcome
                   \/ End(c, "current")
<1>1. mine[c] \in 0..newest /\ db \in 0..newest
  BY DEF Reread, IInv, TypeInv, AccountType, MineKnown
<1> QED
  BY <1>1 DEF Reread

\* A caller gets the mutex of its process, which nobody has.
LEMMA LockMutexKeeps ==
    ASSUME IInv, NEW c \in Callers, LockMutex(c)
    PROVE  IInv'
<1> USE TokenAssumption DEF Callers
<1>1. AccountType'
  BY DEF LockMutex, accountVars, providerVars, cacheVars, IInv, TypeInv, AccountType
<1>2. LockType'
  BY DEF LockMutex, IInv, TypeInv, LockType
<1>3. CallerType'
  BY DEF LockMutex, Goto, IInv, TypeInv, CallerType, Labels
<1>4. MineKnown'
  BY DEF LockMutex, accountVars, Goto, IInv, TypeInv, MineKnown
<1>5. GotKnown'
  BY DEF LockMutex, accountVars, Goto, IInv, TypeInv, GotKnown
<1>6. PersistAlone'
  BY DEF LockMutex, accountVars, providerVars, Goto, IInv, TypeInv, PersistAlone
<1>7. UsedWhenOld'
  BY DEF LockMutex, providerVars, Goto, IInv, TypeInv, UsedWhenOld
<1>8. LockHeld'
  BY DEF LockMutex, Goto, IInv, LockHeld, Critical
<1>9. Alive'
  BY DEF LockMutex, accountVars, providerVars, Goto, IInv, Alive
<1>10. CacheFollows'
  BY DEF LockMutex, accountVars, cacheVars, Goto, IInv, CacheFollows, Brings
<1> QED
  BY <1>1, <1>2, <1>3, <1>4, <1>5, <1>6, <1>7, <1>8, <1>9, <1>10 DEF IInv, TypeInv

\* AcquireRefreshLock: the lock is got, is held by another, or Redis fails.
LEMMA AcquireKeeps ==
    ASSUME IInv, NEW c \in Callers, Acquire(c)
    PROVE  IInv'
<1> USE TokenAssumption DEF Callers
<1>1. AccountType'
  BY DEF Acquire, accountVars, providerVars, cacheVars, Fault, IInv, TypeInv, AccountType
<1>2. LockType'
  BY DEF Acquire, IInv, TypeInv, LockType
<1>3. CallerType'
  BY DEF Acquire, Goto, End, IInv, TypeInv, CallerType, Labels, Outcomes
<1>4. MineKnown'
  BY DEF Acquire, accountVars, Goto, End, IInv, TypeInv, CallerType, MineKnown
<1>5. GotKnown'
  BY DEF Acquire, accountVars, Goto, End, IInv, TypeInv, CallerType, GotKnown
<1>6. PersistAlone'
  BY DEF Acquire, accountVars, providerVars, Goto, End, IInv, TypeInv, CallerType, PersistAlone
<1>7. UsedWhenOld'
  BY DEF Acquire, providerVars, Goto, End, IInv, TypeInv, CallerType, UsedWhenOld
<1>8. LockHeld'
  BY DEF Acquire, Goto, End, IInv, TypeInv, CallerType, LockType, LockHeld, Critical
<1>9. Alive'
  BY DEF Acquire, accountVars, providerVars, Goto, End, IInv, TypeInv, CallerType, Alive
<1>10. CacheFollows'
  BY DEF Acquire, accountVars, cacheVars, Goto, End, IInv, TypeInv, CallerType, MineKnown,
         CacheFollows, Brings
<1> QED
  BY <1>1, <1>2, <1>3, <1>4, <1>5, <1>6, <1>7, <1>8, <1>9, <1>10 DEF IInv, TypeInv

\* GetByID under the lock.
LEMMA RereadKeeps ==
    ASSUME IInv, NEW c \in Callers, Reread(c)
    PROVE  IInv'
<1> USE TokenAssumption DEF Callers
<1>1. AccountType'
  BY DEF Reread, accountVars, providerVars, cacheVars, Fault, IInv, TypeInv, AccountType
<1>2. LockType'
  BY DEF Reread, lockVars, IInv, TypeInv, LockType
<1>3. CallerType'
  <2>1. UNCHANGED <<mine, tries>>
    BY DEF Reread
  <2>2. PICK token \in 0..newest : /\ got' = [got EXCEPT ![c] = token]
                               /\ \/ Goto(c, "refresh") /\ UNCHANGED outcome
                                  \/ End(c, "current")
    BY RereadEffect
  <2>3. token \in Tokens
    BY DEF IInv, TypeInv, AccountType, Tokens
  <2>4. unread' \in {unread, unread \cup {c}}
    BY DEF Reread
  <2> QED
    BY <2>1, <2>2, <2>3, <2>4 DEF Goto, End, IInv, TypeInv, CallerType, Labels, Outcomes
<1>4. MineKnown'
  <2>1. UNCHANGED <<mine, db, newest, lost>>
    BY DEF Reread, accountVars
  <2> QED
    BY <2>1 DEF Reread, Goto, End, IInv, TypeInv, CallerType, MineKnown
<1>5. GotKnown'
  BY DEF Reread, accountVars, Goto, End, IInv, TypeInv, CallerType, AccountType, MineKnown,
         GotKnown
<1>6. PersistAlone'
  BY DEF Reread, accountVars, providerVars, Goto, End, IInv, TypeInv, CallerType, PersistAlone
<1>7. UsedWhenOld'
  BY DEF Reread, providerVars, Goto, End, NeedsRefresh, IInv, TypeInv, CallerType, UsedWhenOld
<1>8. LockHeld'
  BY DEF Reread, lockVars, Goto, End, IInv, TypeInv, CallerType, LockHeld, Critical
<1>9. Alive'
  BY DEF Reread, accountVars, providerVars, lockVars, Goto, End, IInv, TypeInv, CallerType,
         Alive
<1>10. CacheFollows'
  <2>1. UNCHANGED <<db, cached, raced, mine>>
    BY DEF Reread, accountVars, cacheVars
  <2>2. \A d \in Callers : Brings(d) => Brings(d)'
    BY <2>1 DEF Reread, Goto, End, IInv, TypeInv, CallerType, MineKnown, Brings
  <2>3. \A r \in Requests : pc'[r] = "set" => pc[r] = "set"
    BY RereadEffect DEF Goto, End, IInv, TypeInv, CallerType
  <2> QED
    BY <2>1, <2>2, <2>3 DEF IInv, CacheFollows
<1> QED
  BY <1>1, <1>2, <1>3, <1>4, <1>5, <1>6, <1>7, <1>8, <1>9, <1>10 DEF IInv, TypeInv

\* Refresh: the provider takes a token once; it answers, refuses it, or the call fails.
LEMMA RefreshKeeps ==
    ASSUME IInv, NEW c \in Callers, Refresh(c)
    PROVE  IInv'
<1> USE TokenAssumption DEF Callers
<1>1. AccountType'
  <2>1. lost' \in BOOLEAN /\ UNCHANGED <<db, newest, status, age, cacheVars>>
    BY DEF Refresh, IInv, TypeInv, AccountType
  <2>2. faults' \in 0..MaxFaults
    BY FaultsType DEF Refresh, IInv, TypeInv
  <2>3. issued' \in {issued, issued + 1} /\ issued' \in Tokens
    BY DEF Refresh, IInv, TypeInv, AccountType, Tokens, UsedWhenOld
  <2>4. newest' \in 0..issued'
    BY <2>1, <2>3 DEF IInv, TypeInv, AccountType, Tokens
  <2> QED
    BY <2>1, <2>2, <2>3, <2>4 DEF IInv, TypeInv, AccountType, cacheVars
<1>2. LockType'
  BY DEF Refresh, lockVars, IInv, TypeInv, LockType
<1>3. CallerType'
  <2>1. got' = [got EXCEPT ![c] = issued'] \/ UNCHANGED got
    BY DEF Refresh
  <2>2. got' \in [Callers -> Tokens \cup {NoToken}]
    BY <1>1, <2>1 DEF IInv, TypeInv, CallerType, AccountType
  <2> QED
    BY <2>2 DEF Refresh, Goto, End, IInv, TypeInv, CallerType, Labels, Outcomes
<1>4. MineKnown'
  BY DEF Refresh, Goto, End, IInv, TypeInv, CallerType, MineKnown
<1>5. GotKnown'
  BY DEF Refresh, Goto, End, IInv, TypeInv, CallerType, MineKnown, GotKnown
<1>6. PersistAlone'
  BY DEF Refresh, Goto, End, IInv, TypeInv, CallerType, AccountType, GotKnown, PersistAlone
<1>7. UsedWhenOld'
  BY DEF Refresh, Goto, End, IInv, TypeInv, CallerType, UsedWhenOld
<1>8. LockHeld'
  BY DEF Refresh, lockVars, Goto, End, IInv, TypeInv, CallerType, LockHeld, Critical
<1>9. Alive'
  BY DEF Refresh, lockVars, Goto, End, IInv, TypeInv, CallerType, LockHeld, Alive, Critical
<1>10. CacheFollows'
  BY DEF Refresh, cacheVars, Goto, End, IInv, TypeInv, CallerType, MineKnown, CacheFollows,
         Brings
<1> QED
  BY <1>1, <1>2, <1>3, <1>4, <1>5, <1>6, <1>7, <1>8, <1>9, <1>10 DEF IInv, TypeInv

\* A refused caller reads the row again: another may have refreshed.
LEMMA RecoverKeeps ==
    ASSUME IInv, NEW c \in Callers, Recover(c)
    PROVE  IInv'
<1> USE TokenAssumption DEF Callers
<1>1. AccountType'
  BY DEF Recover, accountVars, providerVars, cacheVars, Fault, IInv, TypeInv, AccountType
<1>2. LockType'
  BY DEF Recover, IInv, TypeInv, LockType
<1>3. CallerType'
  <2>1. db \in Tokens
    BY DEF IInv, TypeInv, AccountType, Tokens
  <2> QED
    BY <2>1 DEF Recover, Goto, End, IInv, TypeInv, CallerType, Labels, Outcomes
<1>4. MineKnown'
  BY DEF Recover, accountVars, End, Goto, IInv, TypeInv, CallerType, MineKnown
<1>5. GotKnown'
  BY DEF Recover, accountVars, End, Goto, IInv, TypeInv, CallerType, AccountType, GotKnown
<1>6. PersistAlone'
  BY DEF Recover, accountVars, providerVars, End, Goto, IInv, TypeInv, CallerType, PersistAlone
<1>7. UsedWhenOld'
  BY DEF Recover, providerVars, End, Goto, IInv, TypeInv, CallerType, UsedWhenOld
<1>8. LockHeld'
  BY DEF Recover, End, Goto, IInv, TypeInv, CallerType, LockHeld, Critical
<1>9. Alive'
  BY DEF Recover, accountVars, providerVars, End, Goto, IInv, TypeInv, CallerType, LockHeld,
         Alive, Critical
<1>10. CacheFollows'
  BY DEF Recover, accountVars, cacheVars, End, Goto, IInv, TypeInv, CallerType, MineKnown,
         CacheFollows, Brings
<1> QED
  BY <1>1, <1>2, <1>3, <1>4, <1>5, <1>6, <1>7, <1>8, <1>9, <1>10 DEF IInv, TypeInv

\* persistAccountCredentials, which may fail and then loses the new token.
LEMMA PersistKeeps ==
    ASSUME IInv, NEW c \in Callers, Persist(c)
    PROVE  IInv'
<1> USE TokenAssumption DEF Callers
<1>1. AccountType'
  <2>1. lost' \in BOOLEAN /\ raced' \in BOOLEAN
    BY DEF Persist, IInv, TypeInv, AccountType
  <2>2. faults' \in 0..MaxFaults
    BY FaultsType DEF Persist, IInv, TypeInv
  <2>3. db' \in 0..newest' /\ newest' \in 0..issued'
    BY DEF Persist, providerVars, IInv, TypeInv, AccountType, PersistAlone, Tokens
  <2>4. cached' \in Tokens \cup {NoToken}
    BY DEF Persist, IInv, TypeInv, AccountType
  <2> QED
    BY <2>2, <2>3 DEF Persist, accountVars, providerVars, IInv, TypeInv, AccountType
<1>2. LockType'
  BY DEF Persist, lockVars, IInv, TypeInv, LockType
<1>0. /\ pc[c] = "persist" /\ got[c] = issued /\ issued \in Tokens /\ newest < issued
      /\ mine[c] \in 0..newest /\ outcome[c] = "none"
      /\ mine' \in {mine, [mine EXCEPT ![c] = got[c]]}
      /\ \E s \in {"refreshed", "failed"} : End(c, s)
      /\ newest' \in {newest, got[c]} /\ (newest' = newest => UNCHANGED mine)
      /\ UNCHANGED <<status, providerVars, cached, lockVars, unread, got, tries>>
  <2>1. /\ pc[c] = "persist" /\ got[c] = issued /\ issued \in Tokens /\ newest < issued
        /\ mine[c] \in 0..newest /\ outcome[c] = "none"
    BY DEF Persist, IInv, TypeInv, AccountType, MineKnown, PersistAlone
  <2>2. mine' \in {mine, [mine EXCEPT ![c] = got[c]]}
    BY DEF Persist, Has
  <2>3. \E s \in {"refreshed", "failed"} : End(c, s)
    BY DEF Persist
  <2>4. newest' \in {newest, got[c]} /\ (newest' = newest => UNCHANGED mine)
    BY <2>1 DEF Persist, IInv, TypeInv, AccountType
  <2>5. UNCHANGED <<status, providerVars, cached, lockVars, unread, got, tries>>
    BY DEF Persist
  <2> QED
    BY <2>1, <2>2, <2>3, <2>4, <2>5
<1>3. CallerType'
  BY <1>0 DEF End, Goto, IInv, TypeInv, CallerType, Labels, Outcomes
<1>4. MineKnown'
  <2>1. ~lost' => db' = newest'
    BY <1>0 DEF Persist, IInv, TypeInv, MineKnown
  <2>2. \A d \in Callers : pc'[d] # "idle" => pc[d] # "idle"
    BY <1>0 DEF End, Goto, IInv, TypeInv, CallerType
  <2>3. \A d \in Callers : mine'[d] = mine[d] \/ (mine'[d] = issued /\ newest' = issued)
    BY <1>0 DEF IInv, TypeInv, CallerType
  <2>4. newest \in Int /\ newest =< newest' /\ newest' \in Int
    BY <1>0 DEF IInv, TypeInv, AccountType, Tokens
  <2>5. \A d \in Callers : pc'[d] # "idle" => mine'[d] \in 0..newest'
    BY <1>0, <2>2, <2>3, <2>4 DEF IInv, TypeInv, MineKnown, Tokens
  <2>6. \A d \in Callers : outcome'[d] # "none" => pc'[d] = "return"
    BY <1>0 DEF End, Goto, IInv, TypeInv, CallerType, MineKnown
  <2> QED
    BY <2>1, <2>5, <2>6 DEF MineKnown
<1>5. GotKnown'
  BY <1>0 DEF End, Goto, Persist, IInv, TypeInv, CallerType, AccountType, GotKnown, PersistAlone,
         Tokens
<1>6. PersistAlone'
  BY DEF Persist, End, Goto, IInv, TypeInv, CallerType, PersistAlone
<1>7. UsedWhenOld'
  <2>1. \A d \in Callers : pc'[d] # "return" => pc'[d] = pc[d] /\ mine'[d] = mine[d]
    BY <1>0 DEF End, Goto, IInv, TypeInv, CallerType
  <2> QED
    BY <1>0, <2>1 DEF providerVars, IInv, TypeInv, UsedWhenOld
<1>8. LockHeld'
  BY DEF Persist, lockVars, End, Goto, IInv, TypeInv, CallerType, LockHeld, Critical
<1>9. Alive'
  BY DEF Persist, providerVars, lockVars, End, Goto, IInv, TypeInv, CallerType, PersistAlone,
         Alive
<1>10. CacheFollows'
  <2>1. \A d \in Callers : d # c => pc'[d] = pc[d] /\ mine'[d] = mine[d]
                                   /\ outcome'[d] = outcome[d]
    BY <1>0 DEF End, Goto, IInv, TypeInv, CallerType
  <2>2. pc'[c] = "return"
    BY <1>0 DEF End, Goto, IInv, TypeInv, CallerType
  <2>3. CASE UNCHANGED <<db, raced>>
    <3>1. \A d \in Callers : Brings(d) => Brings(d)'
      BY <1>0, <2>1, <2>3 DEF Brings
    <3> QED
      BY <1>0, <2>1, <2>2, <2>3, <3>1 DEF IInv, CacheFollows
  <2>4. CASE db' = got[c] /\ End(c, "refreshed")
             /\ raced' = (raced \/ \E r \in Requests : pc[r] = "set")
    <3>1. Brings(c)'
      BY <1>0, <2>4 DEF Brings, End, IInv, TypeInv, CallerType
    <3>2. ~raced' => \A r \in Requests : pc'[r] # "set"
      BY <2>1, <2>2, <2>4
    <3> QED
      BY <3>1, <3>2 DEF CacheFollows
  <2>5. CASE raced'
    BY <2>5 DEF CacheFollows
  <2> QED
    BY <2>3, <2>4, <2>5 DEF Persist
<1> QED
  BY <1>1, <1>2, <1>3, <1>4, <1>5, <1>6, <1>7, <1>8, <1>9, <1>10 DEF IInv, TypeInv

\* A request misses the cache: it refreshes the token, or checks the one it has.
LEMMA AskKeeps ==
    ASSUME IInv, NEW c \in Requests, Ask(c)
    PROVE  IInv'
<1> USE TokenAssumption DEF Callers
<1>1. AccountType'
  BY DEF Ask, accountVars, providerVars, cacheVars, Fault, IInv, TypeInv, AccountType
<1>2. LockType'
  BY DEF Ask, lockVars, IInv, TypeInv, LockType
<1>3. PICK token \in 0..newest, label \in {"mutex", "version"} :
            /\ pc[c] = "idle" /\ outcome[c] = "none"
            /\ pc' = [pc EXCEPT ![c] = label] /\ mine' = [mine EXCEPT ![c] = token]
            /\ UNCHANGED <<accountVars, providerVars, cacheVars, lockVars, unread, got, outcome,
                           tries>>
  BY DEF Ask, Has, Goto, IInv, TypeInv, MineKnown
<1>4. CallerType'
  BY <1>3 DEF IInv, TypeInv, CallerType, AccountType, Tokens, Labels
<1>5. MineKnown'
  BY <1>3 DEF accountVars, IInv, TypeInv, CallerType, MineKnown
<1>6. GotKnown'
  BY <1>3 DEF accountVars, IInv, TypeInv, CallerType, GotKnown
<1>7. PersistAlone'
  BY <1>3 DEF accountVars, providerVars, IInv, TypeInv, CallerType, PersistAlone
<1>8. UsedWhenOld'
  BY <1>3 DEF providerVars, IInv, TypeInv, CallerType, UsedWhenOld
<1>9. LockHeld'
  BY <1>3 DEF lockVars, IInv, TypeInv, CallerType, LockHeld, Critical
<1>10. Alive'
  BY <1>3 DEF accountVars, providerVars, lockVars, IInv, TypeInv, CallerType, Alive
<1>11. CacheFollows'
  BY <1>3 DEF accountVars, cacheVars, IInv, TypeInv, CallerType, CacheFollows, Brings
<1> QED
  BY <1>1, <1>2, <1>4, <1>5, <1>6, <1>7, <1>8, <1>9, <1>10, <1>11 DEF IInv, TypeInv

\* A request that waited for the lock of another looks into the cache again.
LEMMA WaitKeeps ==
    ASSUME IInv, NEW c \in Requests, Wait(c)
    PROVE  IInv'
<1> USE TokenAssumption DEF Callers
<1>1. AccountType'
  BY DEF Wait, accountVars, providerVars, cacheVars, Fault, IInv, TypeInv, AccountType
<1>2. LockType'
  BY DEF Wait, lockVars, IInv, TypeInv, LockType
<1>3. CallerType'
  BY DEF Wait, Done, Has, Goto, IInv, TypeInv, CallerType, Labels
<1>4. MineKnown'
  BY DEF Wait, accountVars, Done, Has, Goto, IInv, TypeInv, CallerType, MineKnown
<1>5. GotKnown'
  BY DEF Wait, accountVars, Done, Goto, IInv, TypeInv, CallerType, GotKnown
<1>6. PersistAlone'
  BY DEF Wait, accountVars, providerVars, Done, Goto, IInv, TypeInv, CallerType, PersistAlone
<1>7. UsedWhenOld'
  BY DEF Wait, providerVars, Done, Has, Goto, IInv, TypeInv, CallerType, UsedWhenOld
<1>8. LockHeld'
  BY DEF Wait, lockVars, Done, Goto, IInv, TypeInv, CallerType, LockHeld, Critical
<1>9. Alive'
  BY DEF Wait, accountVars, providerVars, lockVars, Done, Goto, IInv, TypeInv, CallerType, Alive
<1>10. CacheFollows'
  BY DEF Wait, accountVars, cacheVars, Done, Has, Goto, IInv, TypeInv, CallerType, CacheFollows,
         Brings
<1> QED
  BY <1>1, <1>2, <1>3, <1>4, <1>5, <1>6, <1>7, <1>8, <1>9, <1>10 DEF IInv, TypeInv

\* CheckTokenVersion: the token is compared with that of the row.
LEMMA VersionKeeps ==
    ASSUME IInv, NEW c \in Requests, Version(c)
    PROVE  IInv'
<1> USE TokenAssumption DEF Callers
<1>1. AccountType'
  <2>1. lost' \in BOOLEAN /\ raced' \in BOOLEAN
    BY DEF Version, accountVars, IInv, TypeInv, AccountType
  <2>2. faults' \in 0..MaxFaults
    BY FaultsType DEF Version, IInv, TypeInv
  <2>3. db' \in 0..newest' /\ newest' \in 0..issued'
    BY DEF Version, accountVars, providerVars, IInv, TypeInv, AccountType
  <2>4. cached' \in Tokens \cup {NoToken}
    BY DEF Version, IInv, TypeInv, AccountType
  <2> QED
    BY <2>2 DEF Version, accountVars, providerVars, IInv, TypeInv, AccountType
<1>2. LockType'
  BY DEF Version, lockVars, IInv, TypeInv, LockType
<1>3. CallerType'
  BY DEF Version, Done, Has, Goto, IInv, TypeInv, CallerType, Labels
<1>4. MineKnown'
  BY DEF Version, accountVars, Done, Has, Goto, IInv, TypeInv, CallerType, MineKnown
<1>5. GotKnown'
  BY DEF Version, accountVars, Done, Goto, IInv, TypeInv, CallerType, GotKnown
<1>6. PersistAlone'
  BY DEF Version, accountVars, providerVars, Done, Goto, IInv, TypeInv, CallerType, PersistAlone
<1>7. UsedWhenOld'
  BY DEF Version, providerVars, Done, Has, Goto, IInv, TypeInv, CallerType, UsedWhenOld
<1>8. LockHeld'
  BY DEF Version, lockVars, Done, Goto, IInv, TypeInv, CallerType, LockHeld, Critical
<1>9. Alive'
  BY DEF Version, accountVars, providerVars, lockVars, Done, Goto, IInv, TypeInv, CallerType,
         Alive
<1>10. CacheFollows'
  <2>1. CASE raced'
    BY <2>1 DEF CacheFollows
  <2>2. CASE UNCHANGED raced /\ db > mine[c] /\ Done(c)
    <3>1. UNCHANGED <<db, cached, got, outcome>>
      BY DEF Version, accountVars
    <3>2. mine[c] # db
      BY <2>2 DEF IInv, TypeInv, AccountType
    <3>3. \A d \in Callers : Brings(d) => Brings(d)'
      BY <2>2, <3>1, <3>2 DEF Done, Goto, Has, Brings
    <3>4. \A r \in Requests : pc'[r] = "set" => pc[r] = "set" /\ mine'[r] = mine[r]
      BY <2>2 DEF Done, Goto, Has, IInv, TypeInv, CallerType
    <3> QED
      BY <2>2, <3>1, <3>3, <3>4 DEF IInv, CacheFollows
  <2>3. CASE UNCHANGED raced /\ db =< mine[c] /\ Goto(c, "set") /\ UNCHANGED mine
    <3>1. UNCHANGED <<db, cached, got, outcome>>
      BY DEF Version, accountVars
    <3>2. mine[c] >= db
      BY <2>3 DEF Version, IInv, TypeInv, AccountType, MineKnown
    <3>3. \A d \in Callers : Brings(d) => Brings(d)'
      BY <2>3, <3>1 DEF Goto, Brings
    <3>4. \A r \in Requests : pc'[r] = "set" => pc[r] = "set" \/ r = c
      BY <2>3 DEF Goto
    <3> QED
      BY <2>3, <3>1, <3>2, <3>3, <3>4 DEF IInv, CacheFollows
  <2> QED
    BY <2>1, <2>2, <2>3 DEF Version
<1> QED
  BY <1>1, <1>2, <1>3, <1>4, <1>5, <1>6, <1>7, <1>8, <1>9, <1>10 DEF IInv, TypeInv

\* A request writes the token to the cache.
LEMMA SetCacheKeeps ==
    ASSUME IInv, NEW c \in Requests, SetCache(c)
    PROVE  IInv'
<1> USE TokenAssumption DEF Callers
<1>1. AccountType'
  <2>1. lost' \in BOOLEAN /\ raced' \in BOOLEAN
    BY DEF SetCache, accountVars, IInv, TypeInv, AccountType
  <2>2. faults' \in 0..MaxFaults
    BY FaultsType DEF SetCache, IInv, TypeInv
  <2>3. db' \in 0..newest' /\ newest' \in 0..issued'
    BY DEF SetCache, accountVars, providerVars, IInv, TypeInv, AccountType
  <2>4. cached' \in Tokens \cup {NoToken}
    BY DEF SetCache, cacheVars, IInv, TypeInv, AccountType, CallerType
  <2> QED
    BY <2>2, <2>4 DEF SetCache, accountVars, providerVars, IInv, TypeInv, AccountType
<1>2. LockType'
  BY DEF SetCache, lockVars, IInv, TypeInv, LockType
<1>3. CallerType'
  BY DEF SetCache, Done, Has, Goto, IInv, TypeInv, CallerType, Labels
<1>4. MineKnown'
  BY DEF SetCache, accountVars, Done, Has, Goto, IInv, TypeInv, CallerType, MineKnown
<1>5. GotKnown'
  BY DEF SetCache, accountVars, Done, Goto, IInv, TypeInv, GotKnown
<1>6. PersistAlone'
  BY DEF SetCache, accountVars, providerVars, Done, Goto, IInv, TypeInv, PersistAlone
<1>7. UsedWhenOld'
  BY DEF SetCache, providerVars, Done, Has, Goto, IInv, TypeInv, CallerType, UsedWhenOld
<1>8. LockHeld'
  BY DEF SetCache, lockVars, Done, Goto, IInv, LockHeld, Critical
<1>9. Alive'
  BY DEF SetCache, accountVars, providerVars, lockVars, Done, Goto, IInv, Alive
<1>10. CacheFollows'
  <2>1. \A r \in Requests : pc'[r] = "set" => pc[r] = "set" /\ mine'[r] = mine[r]
    BY DEF SetCache, Done, Has, Goto, IInv, TypeInv, CallerType
  <2>2. mine[c] \in 0..newest /\ db \in 0..newest /\ newest \in Int /\ UNCHANGED db
    BY DEF SetCache, accountVars, IInv, TypeInv, AccountType, MineKnown, Tokens
  <2>3. CASE raced'
    BY <2>3 DEF CacheFollows
  <2>4. CASE cached' = mine[c] /\ UNCHANGED raced /\ ~raced
    <3>1. ~(mine[c] < db)
      BY <2>2, <2>4 DEF SetCache, IInv, CacheFollows
    <3> QED
      BY <2>1, <2>2, <2>4, <3>1 DEF IInv, CacheFollows
  <2> QED
    BY <2>3, <2>4 DEF SetCache
<1> QED
  BY <1>1, <1>2, <1>3, <1>4, <1>5, <1>6, <1>7, <1>8, <1>9, <1>10 DEF IInv, TypeInv

\* A 401 invalidates the cache; the request has a copy of the account of some age.
LEMMA UnauthorizedKeeps ==
    ASSUME IInv, NEW c \in Requests, Unauthorized(c)
    PROVE  IInv'
<1> USE TokenAssumption DEF Callers
<1>1. AccountType'
  BY DEF Unauthorized, accountVars, providerVars, Fault, IInv, TypeInv, AccountType
<1>2. LockType'
  BY DEF Unauthorized, lockVars, IInv, TypeInv, LockType
<1>3. CallerType'
  BY DEF Unauthorized, Has, Goto, IInv, TypeInv, CallerType, AccountType, Tokens, Labels
<1>4. MineKnown'
  BY DEF Unauthorized, accountVars, Has, Goto, IInv, TypeInv, CallerType, MineKnown
<1>5. GotKnown'
  BY DEF Unauthorized, accountVars, Goto, IInv, TypeInv, GotKnown
<1>6. PersistAlone'
  BY DEF Unauthorized, accountVars, providerVars, Goto, IInv, TypeInv, PersistAlone
<1>7. UsedWhenOld'
  BY DEF Unauthorized, providerVars, Has, Goto, IInv, TypeInv, CallerType, UsedWhenOld
<1>8. LockHeld'
  BY DEF Unauthorized, lockVars, Goto, IInv, LockHeld, Critical
<1>9. Alive'
  BY DEF Unauthorized, accountVars, providerVars, lockVars, Goto, IInv, Alive
<1>10. CacheFollows'
  <2>1. \A r \in Requests : pc'[r] = "set" => pc[r] = "set" /\ mine'[r] = mine[r]
    BY DEF Unauthorized, Has, Goto, IInv, TypeInv, CallerType
  <2>2. UNCHANGED db /\ (raced' \/ (~raced /\ cached' = NoToken))
    BY DEF Unauthorized, accountVars
  <2> QED
    BY <2>1, <2>2 DEF IInv, CacheFollows
<1> QED
  BY <1>1, <1>2, <1>3, <1>4, <1>5, <1>6, <1>7, <1>8, <1>9, <1>10 DEF IInv, TypeInv

\* The copy is written over whatever is there; an older token is lost or nothing changes.
LEMMA WriteBackKeeps ==
    ASSUME IInv, NEW c \in Requests, WriteBack(c)
    PROVE  IInv'
<1> USE TokenAssumption DEF Callers
<1>0. /\ mine[c] \in 0..newest /\ mine[c] \in Tokens /\ mine[c] # MaxTokens
      /\ UNCHANGED <<newest, status, issued, cached, lockVars, got, outcome>>
  BY DEF WriteBack, IInv, TypeInv, AccountType, MineKnown, UsedWhenOld, Tokens
<1>written. /\ db \in 0..newest /\ age \in [Tokens -> {"fresh", "soon", "late"}]
      /\ \/ /\ db' = mine[c] /\ age' = [age EXCEPT ![mine[c]] = "late"]
            /\ lost' = (lost \/ mine[c] < db)
         \/ UNCHANGED <<db, age, lost>>
  BY DEF WriteBack, IInv, TypeInv, AccountType
<1>kept. ~lost' => ~lost /\ db' = db
  <2>1. ~lost => db = newest
    BY DEF IInv, TypeInv, MineKnown
  <2>2. CASE UNCHANGED <<db, age, lost>>
    BY <2>2
  <2>3. CASE db' = mine[c] /\ lost' = (lost \/ mine[c] < db) /\ ~lost'
    <3>1. ~lost /\ ~(mine[c] < db)
      BY <2>3
    <3> QED
      BY <1>0, <2>1, <2>3, <3>1 DEF IInv, TypeInv, AccountType, Tokens
  <2> QED
    BY <1>written, <2>2, <2>3
<1>1. AccountType'
  <2>1. faults' \in 0..MaxFaults
    BY FaultsType DEF WriteBack, IInv, TypeInv
  <2>2. /\ db' \in 0..newest /\ lost' \in BOOLEAN /\ raced' \in BOOLEAN
        /\ age' \in [Tokens -> {"fresh", "soon", "late"}]
    BY <1>0 DEF WriteBack, IInv, TypeInv, AccountType
  <2> QED
    BY <1>0, <2>1, <2>2 DEF IInv, TypeInv, AccountType
<1>2. LockType'
  BY <1>0 DEF lockVars, IInv, TypeInv, LockType
<1>3. CallerType'
  BY DEF WriteBack, Done, Has, Goto, IInv, TypeInv, CallerType, Labels
<1>4. MineKnown'
  <2>1. ~lost' => db' = newest'
    BY <1>0, <1>kept DEF IInv, TypeInv, MineKnown
  <2> QED
    BY <1>0, <2>1 DEF WriteBack, Done, Has, Goto, IInv, TypeInv, CallerType, MineKnown
<1>5. GotKnown'
  BY <1>0 DEF WriteBack, Done, Goto, IInv, TypeInv, CallerType, GotKnown
<1>6. PersistAlone'
  BY <1>0 DEF WriteBack, Done, Goto, IInv, TypeInv, CallerType, PersistAlone
<1>7. UsedWhenOld'
  <2>1. \A t \in Tokens : age'[t] = "fresh" => age[t] = "fresh"
    BY <1>0 DEF WriteBack, IInv, TypeInv, AccountType
  <2>2. age'[MaxTokens] = "fresh"
    BY <1>0, <1>written DEF IInv, TypeInv, UsedWhenOld, Tokens
  <2>3. \A d \in Callers : pc[d] = "refresh" => got[d] \in Tokens
    BY DEF IInv, TypeInv, AccountType, GotKnown, Tokens
  <2>4. \A d \in Callers : pc'[d] # "idle" => pc'[d] = pc[d] /\ mine'[d] = mine[d]
    BY DEF WriteBack, Done, Has, Goto, IInv, TypeInv, CallerType
  <2> QED
    BY <1>0, <2>1, <2>2, <2>3, <2>4 DEF IInv, TypeInv, UsedWhenOld
<1>8. LockHeld'
  BY <1>0 DEF WriteBack, lockVars, Done, Goto, IInv, TypeInv, CallerType, LockHeld, Critical
<1>9. Alive'
  <2> QED
    BY <1>0, <1>kept DEF WriteBack, lockVars, Done, Goto, IInv, TypeInv, CallerType, Alive
<1>10. CacheFollows'
  <2>1. ~raced' => ~raced /\ db' = db
    BY DEF WriteBack
  <2>2. \A d \in Callers : pc'[d] = IF d = c THEN "idle" ELSE pc[d]
    BY DEF WriteBack, Done, Goto, IInv, TypeInv, CallerType
  <2>3. \A d \in Callers : d # c => mine'[d] = mine[d]
    BY DEF WriteBack, Done, Has, IInv, TypeInv, CallerType
  <2>4. pc[c] = "writeBack" /\ outcome[c] = "none"
    BY DEF WriteBack, IInv, TypeInv, MineKnown
  <2>5. ~raced' => \A d \in Callers : Brings(d) => Brings(d)'
    BY <1>0, <2>1, <2>2, <2>3, <2>4 DEF Brings
  <2> QED
    BY <1>0, <2>1, <2>2, <2>3, <2>5 DEF IInv, CacheFollows
<1> QED
  BY <1>1, <1>2, <1>3, <1>4, <1>5, <1>6, <1>7, <1>8, <1>9, <1>10 DEF IInv, TypeInv

\* The background loop takes the account up.
LEMMA ListKeeps ==
    ASSUME IInv, NEW c \in Refreshers, List(c)
    PROVE  IInv'
<1> USE TokenAssumption DEF Callers
<1>1. AccountType'
  BY DEF List, accountVars, providerVars, cacheVars, IInv, TypeInv, AccountType
<1>2. LockType'
  BY DEF List, lockVars, IInv, TypeInv, LockType
<1>3. CallerType'
  BY DEF List, Has, Goto, IInv, TypeInv, CallerType, AccountType, Tokens, Labels
<1>4. MineKnown'
  BY DEF List, accountVars, Has, Goto, IInv, TypeInv, CallerType, AccountType, MineKnown
<1>5. GotKnown'
  BY DEF List, accountVars, Goto, IInv, TypeInv, GotKnown
<1>6. PersistAlone'
  BY DEF List, accountVars, providerVars, Goto, IInv, TypeInv, PersistAlone
<1>7. UsedWhenOld'
  BY DEF List, providerVars, Has, Goto, IInv, TypeInv, CallerType, UsedWhenOld
<1>8. LockHeld'
  BY DEF List, lockVars, Goto, IInv, LockHeld, Critical
<1>9. Alive'
  BY DEF List, accountVars, providerVars, lockVars, Goto, IInv, Alive
<1>10. CacheFollows'
  BY DEF List, accountVars, cacheVars, Has, Goto, IInv, CacheFollows, Brings
<1> QED
  BY <1>1, <1>2, <1>3, <1>4, <1>5, <1>6, <1>7, <1>8, <1>9, <1>10 DEF IInv, TypeInv

\* The background loop deletes the cached token after its refresh.
LEMMA InvalidateKeeps ==
    ASSUME IInv, NEW c \in Refreshers, Invalidate(c)
    PROVE  IInv'
<1> USE TokenAssumption DEF Callers
<1>1. AccountType'
  <2>1. lost' \in BOOLEAN /\ raced' \in BOOLEAN
    BY DEF Invalidate, accountVars, IInv, TypeInv, AccountType
  <2>2. faults' \in 0..MaxFaults
    BY FaultsType DEF Invalidate, IInv, TypeInv
  <2>3. db' \in 0..newest' /\ newest' \in 0..issued'
    BY DEF Invalidate, accountVars, providerVars, IInv, TypeInv, AccountType
  <2>4. cached' \in Tokens \cup {NoToken}
    BY DEF Invalidate, IInv, TypeInv, AccountType
  <2> QED
    BY <2>2 DEF Invalidate, accountVars, providerVars, IInv, TypeInv, AccountType
<1>2. LockType'
  BY DEF Invalidate, lockVars, IInv, TypeInv, LockType
<1>3. CallerType'
  BY DEF Invalidate, Done, Has, Goto, IInv, TypeInv, CallerType, Labels
<1>4. MineKnown'
  BY DEF Invalidate, accountVars, Done, Has, Goto, IInv, TypeInv, CallerType, MineKnown
<1>5. GotKnown'
  BY DEF Invalidate, accountVars, Done, Goto, IInv, TypeInv, GotKnown
<1>6. PersistAlone'
  BY DEF Invalidate, accountVars, providerVars, Done, Goto, IInv, TypeInv, PersistAlone
<1>7. UsedWhenOld'
  BY DEF Invalidate, providerVars, Done, Has, Goto, IInv, TypeInv, CallerType, UsedWhenOld
<1>8. LockHeld'
  BY DEF Invalidate, lockVars, Done, Goto, IInv, LockHeld, Critical
<1>9. Alive'
  BY DEF Invalidate, accountVars, providerVars, lockVars, Done, Goto, IInv, Alive
<1>10. CacheFollows'
  BY DEF Invalidate, accountVars, Done, Has, Goto, IInv, CacheFollows
<1> QED
  BY <1>1, <1>2, <1>3, <1>4, <1>5, <1>6, <1>7, <1>8, <1>9, <1>10 DEF IInv, TypeInv

\* SetError: the background loop gives the account up.
LEMMA DisableKeeps ==
    ASSUME IInv, NEW c \in Refreshers, Disable(c)
    PROVE  IInv'
<1> USE TokenAssumption DEF Callers
<1>1. AccountType'
  BY DEF Disable, providerVars, cacheVars, Fault, IInv, TypeInv, AccountType
<1>2. LockType'
  BY DEF Disable, lockVars, IInv, TypeInv, LockType
<1>3. CallerType'
  BY DEF Disable, Done, Has, Goto, IInv, TypeInv, CallerType, Labels
<1>4. MineKnown'
  BY DEF Disable, Done, Has, Goto, IInv, TypeInv, CallerType, MineKnown
<1>5. GotKnown'
  BY DEF Disable, Done, Goto, IInv, TypeInv, GotKnown
<1>6. PersistAlone'
  BY DEF Disable, providerVars, Done, Goto, IInv, TypeInv, PersistAlone
<1>7. UsedWhenOld'
  BY DEF Disable, providerVars, Done, Has, Goto, IInv, TypeInv, CallerType, UsedWhenOld
<1>8. LockHeld'
  BY DEF Disable, lockVars, Done, Goto, IInv, LockHeld, Critical
<1>9. Alive'
  BY DEF Disable, lockVars, IInv, Alive
<1>10. CacheFollows'
  BY DEF Disable, cacheVars, Done, Has, Goto, IInv, CacheFollows, Brings
<1> QED
  BY <1>1, <1>2, <1>3, <1>4, <1>5, <1>6, <1>7, <1>8, <1>9, <1>10 DEF IInv, TypeInv

-----------------------------------------------------------------------------
(* The deferred calls, and crashes *)

\* What a caller takes along from its refresh.
LEMMA ReturnEffect ==
    ASSUME IInv, NEW c \in Callers, Return(c)
    PROVE  /\ pc[c] = "return" /\ mine[c] \in 0..newest
           /\ pc' = [pc EXCEPT ![c] = After(c)]
           /\ After(c) \in {"idle", "mutex", "wait", "version", "invalidate", "disable"}
           /\ mine' = [mine EXCEPT ![c] = mine'[c]]
           /\ got' = [got EXCEPT ![c] = NoToken]
           /\ outcome' = [outcome EXCEPT ![c] = "none"]
           /\ acquired' = acquired \ {c} /\ unread' = unread \ {c}
           /\ IF After(c) = "idle" THEN mine'[c] = NoToken
              ELSE IF outcome[c] \in {"refreshed", "current"}
              THEN mine'[c] = got[c] /\ got[c] \in 0..newest
              ELSE mine'[c] = mine[c]
           /\ UNCHANGED <<accountVars, providerVars, cacheVars, astray>>
<1>1. pc[c] = "return" /\ mine[c] \in 0..newest
  BY DEF Return, IInv, TypeInv, MineKnown
<1>2. After(c) \in {"idle", "mutex", "wait", "version", "invalidate", "disable"}
  BY DEF After
<1>3. /\ pc' = [pc EXCEPT ![c] = After(c)]
      /\ got' = [got EXCEPT ![c] = NoToken]
      /\ outcome' = [outcome EXCEPT ![c] = "none"]
      /\ acquired' = acquired \ {c} /\ unread' = unread \ {c}
      /\ UNCHANGED <<accountVars, providerVars, cacheVars, astray>>
  BY DEF Return, Returned, Goto
<1>4. mine' = [mine EXCEPT ![c] =
                    IF After(c) = "idle" THEN NoToken
                    ELSE IF outcome[c] \in {"refreshed", "current"} THEN got[c] ELSE mine[c]]
  BY DEF Return, Returned, Has
<1>5. outcome[c] \in {"refreshed", "current"} => got[c] \in 0..newest
  BY DEF IInv, TypeInv, GotKnown
<1>6. mine \in [Callers -> Tokens \cup {NoToken}]
  BY DEF IInv, TypeInv, CallerType
<1> HIDE DEF After
<1> QED
  BY <1>1, <1>2, <1>3, <1>4, <1>5, <1>6

\* The lock and the mutex are given back.
LEMMA ReturnKeeps ==
    ASSUME IInv, NEW c \in Callers, Return(c)
    PROVE  IInv'
<1> USE TokenAssumption DEF Callers
<1>1. AccountType'
  <2>1. faults' \in 0..MaxFaults
    BY FaultsType DEF Return, IInv, TypeInv
  <2> QED
    BY <2>1 DEF Return, accountVars, providerVars, cacheVars, IInv, TypeInv, AccountType
<1>2. LockType'
  BY DEF Return, Returned, IInv, TypeInv, LockType
<1>3. CallerType'
  <2>1. tries' \in [Refreshers -> 0..MaxRetries]
    BY DEF Return, Returned, After, IInv, TypeInv, CallerType
  <2>2. mine' \in [Callers -> Tokens \cup {NoToken}]
    BY ReturnEffect DEF IInv, TypeInv, CallerType
  <2> QED
    BY <2>1, ReturnEffect DEF IInv, TypeInv, CallerType, Labels, Outcomes
<1>4. MineKnown'
  BY ReturnEffect DEF accountVars, IInv, TypeInv, CallerType, MineKnown
<1>5. GotKnown'
  BY ReturnEffect DEF accountVars, IInv, TypeInv, CallerType, GotKnown
<1>6. PersistAlone'
  BY ReturnEffect DEF accountVars, providerVars, IInv, TypeInv, CallerType, PersistAlone
<1>7. UsedWhenOld'
  BY ReturnEffect DEF providerVars, IInv, TypeInv, CallerType, UsedWhenOld
<1>8. LockHeld'
  <2> SUFFICES ASSUME ~astray
               PROVE  /\ \A d \in acquired' : lock' = d
                      /\ \A d \in Callers : pc'[d] \in Critical => d \in acquired'
    BY ReturnEffect DEF LockHeld
  <2>1. \A d \in acquired' : d \in acquired /\ d # c /\ lock = d
    BY ReturnEffect DEF IInv, LockHeld
  <2>2. c \in acquired => acquired' = {}
    BY <2>1 DEF IInv, LockHeld
  <2>3. \A d \in Callers : pc'[d] \in Critical => d \in acquired'
    BY ReturnEffect DEF IInv, TypeInv, CallerType, LockHeld, Critical
  <2>4. lock' = lock \/ c \in acquired
    BY DEF Return
  <2> QED
    BY <2>1, <2>2, <2>3, <2>4
<1>9. Alive'
  <2>1. ~lost /\ ~astray => After(c) # "disable"
    BY DEF After, IInv, Alive
  <2> QED
    BY <2>1, ReturnEffect DEF accountVars, providerVars, IInv, TypeInv, CallerType, Alive
<1>10. CacheFollows'
  <2>1. UNCHANGED <<db, cached, raced>>
    BY ReturnEffect DEF accountVars, cacheVars
  <2>2. \A r \in Requests : pc'[r] = "set" => pc[r] = "set" /\ mine'[r] = mine[r]
    BY ReturnEffect DEF IInv, TypeInv, CallerType
  <2>3. Brings(c) => Brings(c)'
    <3> SUFFICES ASSUME Brings(c) PROVE Brings(c)'
      OBVIOUS
    <3>1. outcome[c] = "refreshed" /\ got[c] = db
      BY ReturnEffect DEF Brings
    <3>2. After(c) \in {"invalidate", "version"}
      BY <3>1 DEF After
    <3> QED
      BY <2>1, <3>2, ReturnEffect DEF Brings, IInv, TypeInv, CallerType
  <2>4. \A d \in Callers \ {c} : Brings(d) => Brings(d)'
    BY <2>1, ReturnEffect DEF Brings, IInv, TypeInv, CallerType
  <2> QED
    BY <2>1, <2>2, <2>3, <2>4 DEF IInv, CacheFollows
<1> QED
  BY <1>1, <1>2, <1>3, <1>4, <1>5, <1>6, <1>7, <1>8, <1>9, <1>10 DEF IInv, TypeInv

\* A process dies; its mutex goes with it, the lock in Redis stays.
LEMMA CrashKeeps ==
    ASSUME IInv, NEW p \in Processes, Crash(p)
    PROVE  IInv'
<1> USE TokenAssumption DEF Callers
<1> DEFINE dead == {c \in Callers : ProcessOf[c] = p}
<1>0. /\ \A c \in Callers \ dead : /\ pc'[c] = pc[c] /\ got'[c] = got[c] /\ mine'[c] = mine[c]
                                   /\ outcome'[c] = outcome[c]
      /\ \A c \in dead : /\ pc'[c] = "idle" /\ got'[c] = NoToken /\ mine'[c] = NoToken
                         /\ outcome'[c] = "none"
      /\ acquired' = acquired \ dead /\ unread' = unread \ dead
      /\ lost' = (lost \/ \E c \in dead : pc[c] = "persist")
      /\ raced' = (raced \/ \E c \in dead : Underway(c))
      /\ UNCHANGED <<db, newest, status, providerVars, cached, lock, astray>>
  BY DEF Crash
<1>1. AccountType'
  <2>1. faults' \in 0..MaxFaults
    BY FaultsType DEF Crash, IInv, TypeInv
  <2>2. lost' \in BOOLEAN /\ raced' \in BOOLEAN
    BY <1>0
  <2> QED
    BY <1>0, <2>1 DEF providerVars, IInv, TypeInv, AccountType
<1>2. LockType'
  BY DEF Crash, IInv, TypeInv, LockType
<1>3. CallerType'
  BY DEF Crash, IInv, TypeInv, CallerType, Labels, Outcomes
<1> HIDE DEF dead
<1>4. MineKnown'
  BY <1>0 DEF IInv, TypeInv, MineKnown
<1>5. GotKnown'
  BY <1>0 DEF IInv, TypeInv, GotKnown
<1>6. PersistAlone'
  BY <1>0 DEF providerVars, IInv, TypeInv, PersistAlone
<1>7. UsedWhenOld'
  BY <1>0 DEF providerVars, IInv, TypeInv, UsedWhenOld
<1>8. LockHeld'
  BY <1>0 DEF IInv, LockHeld, Critical
<1>9. Alive'
  BY <1>0 DEF providerVars, IInv, Alive
<1>10. CacheFollows'
  <2>1. \A c \in Callers : Brings(c) => Brings(c)' \/ raced'
    BY <1>0 DEF Brings, Underway
  <2>2. \A r \in Requests : pc'[r] = "set" => pc[r] = "set" /\ mine'[r] = mine[r]
    BY <1>0
  <2>3. ~raced' => ~raced
    BY <1>0
  <2> QED
    BY <1>0, <2>1 DEF IInv, CacheFollows
<1> QED
  BY <1>1, <1>2, <1>3, <1>4, <1>5, <1>6, <1>7, <1>8, <1>9, <1>10 DEF IInv, TypeInv

\* A step of neither a caller nor the account keeps what it does not touch.
LEMMA TimeKeeps ==
    ASSUME IInv,
           (\E token \in Tokens : Ages(token)) \/ CacheExpires \/ LockExpires \/ UNCHANGED vars
    PROVE  IInv'
<1>1. UNCHANGED <<accountVars, issued, raced, acquired, mutex, callerVars, faults>>
  BY DEF Ages, CacheExpires, LockExpires, vars, providerVars, cacheVars, lockVars
<1>2. /\ age' \in [Tokens -> {"fresh", "soon", "late"}]
      /\ age'[MaxTokens] = "fresh"
      /\ \A t \in Tokens : age'[t] = "fresh" => age[t] = "fresh"
  <2>1. CASE \E token \in Tokens : Ages(token)
    <3>1. PICK token \in Tokens : Ages(token)
      BY <2>1
    <3>2. age[token] \in {"fresh", "soon"} /\ token # MaxTokens
      BY <3>1, TokenAssumption DEF Ages, IInv, TypeInv, AccountType
    <3>3. Older[age[token]] \in {"soon", "late"}
      BY <3>2 DEF Older
    <3>4. age' = [age EXCEPT ![token] = Older[age[token]]]
      BY <3>1 DEF Ages
    <3> HIDE DEF Older
    <3> QED
      BY <3>2, <3>3, <3>4 DEF IInv, TypeInv, AccountType, UsedWhenOld
  <2>2. CASE UNCHANGED age
    BY <2>2 DEF IInv, TypeInv, AccountType, UsedWhenOld
  <2> QED
    BY <2>1, <2>2 DEF CacheExpires, LockExpires, vars, providerVars
<1>3. cached' \in {cached, NoToken}
  BY DEF Ages, CacheExpires, LockExpires, vars, cacheVars
<1>4. /\ lock' \in {lock, NoCaller} /\ astray' \in BOOLEAN
      /\ ~astray' => ~astray /\ (lock' = lock \/ lock \notin acquired)
  BY DEF Ages, CacheExpires, LockExpires, vars, lockVars, IInv, TypeInv, LockType
<1>5. AccountType' /\ LockType' /\ CallerType'
  BY <1>1, <1>2, <1>3, <1>4
  DEF IInv, TypeInv, AccountType, LockType, CallerType, accountVars, callerVars
<1>6. MineKnown' /\ GotKnown' /\ PersistAlone'
  BY <1>1 DEF IInv, TypeInv, MineKnown, GotKnown, PersistAlone, accountVars, callerVars
<1>7. UsedWhenOld'
  <2>1. \A c \in Callers : pc[c] = "refresh" => got[c] \in Tokens
    BY TokenAssumption DEF IInv, TypeInv, AccountType, GotKnown, Tokens
  <2> QED
    BY <1>1, <1>2, <2>1 DEF IInv, TypeInv, UsedWhenOld, callerVars
<1>8. LockHeld'
  BY <1>1, <1>4 DEF IInv, LockHeld, callerVars
<1>9. Alive'
  BY <1>1, <1>4 DEF IInv, Alive, accountVars, callerVars
<1>10. CacheFollows'
  BY <1>1, <1>3 DEF IInv, CacheFollows, Brings, accountVars, callerVars
<1> QED
  BY <1>5, <1>6, <1>7, <1>8, <1>9, <1>10 DEF IInv, TypeInv

-----------------------------------------------------------------------------
(* The theorems *)

\* At first the row has the first token and the cache is empty.
LEMMA InitIInv == Init => IInv
<1> SUFFICES ASSUME Init PROVE IInv
  OBVIOUS
<1> USE TokenAssumption
<1>1. /\ 0 \in 0..0 /\ 0 \in Tokens /\ 0 \in 0..MaxFaults /\ 0 \in 0..MaxRetries
      /\ MaxTokens \in Tokens
  BY DEF Tokens
<1>2. AccountType /\ LockType /\ CallerType
  BY <1>1 DEF Init, AccountType, LockType, CallerType, Labels, Outcomes
<1>3. MineKnown /\ GotKnown /\ PersistAlone /\ UsedWhenOld
  BY <1>1 DEF Init, MineKnown, GotKnown, PersistAlone, UsedWhenOld, Callers
<1>4. LockHeld /\ Alive
  BY DEF Init, LockHeld, Alive, Critical
<1>5. CacheFollows
  BY DEF Init, CacheFollows, Callers
<1> QED
  BY <1>2, <1>3, <1>4, <1>5 DEF IInv, TypeInv

\* Every step keeps the invariant.
LEMMA NextKeeps ==
    ASSUME IInv, [Next]_vars
    PROVE  IInv'
<1>1. ASSUME NEW c \in Callers, RefreshStep(c) PROVE IInv'
  BY <1>1, LockMutexKeeps, AcquireKeeps, RereadKeeps, RefreshKeeps, RecoverKeeps, PersistKeeps,
     ReturnKeeps
  DEF RefreshStep
<1>2. ASSUME NEW r \in Requests, Ask(r) \/ Unauthorized(r) \/ RequestStep(r) PROVE IInv'
  BY <1>2, AskKeeps, WaitKeeps, VersionKeeps, SetCacheKeeps, UnauthorizedKeeps, WriteBackKeeps
  DEF RequestStep
<1>3. ASSUME NEW b \in Refreshers, LoopStep(b) PROVE IInv'
  BY <1>3, ListKeeps, InvalidateKeeps, DisableKeeps DEF LoopStep
<1>4. ASSUME NEW p \in Processes, Crash(p) PROVE IInv'
  BY <1>4, CrashKeeps
<1>5. CASE (\E token \in Tokens : Ages(token)) \/ CacheExpires \/ LockExpires \/ UNCHANGED vars
  BY <1>5, TimeKeeps
<1> QED
  BY <1>1, <1>2, <1>3, <1>4, <1>5 DEF Next

\* Along every behaviour of the requests, the loops, Redis and the provider.
THEOREM Invariance == Spec => []IInv
<1>1. Init => IInv
  BY InitIInv
<1>2. IInv /\ [Next]_vars => IInv'
  BY NextKeeps
<1> QED
  BY <1>1, <1>2, PTL DEF Spec

\* RefreshIfNeeded, with a lock in Redis that holds no token and that its deferred release
\* deletes whoever has set it: the state stays well formed and one caller at a time uses the
\* refresh token, unless the lock expired under a refresh or Redis failed.
THEOREM OneRefreshes == Spec => []Inv
<1>1. IInv => TypeOK
  BY DEF IInv, TypeInv, AccountType, LockType, CallerType, TypeOK, Labels, Outcomes
<1>2. IInv => RefreshAlone
  <2> SUFFICES ASSUME IInv, ~astray PROVE Cardinality(Refreshing) =< 1
    BY DEF RefreshAlone
  <2>1. Refreshing \subseteq {lock}
    BY DEF Refreshing, IInv, LockHeld, Critical
  <2>2. IsFiniteSet({lock}) /\ Cardinality({lock}) = 1
    BY FS_Singleton
  <2>3. IsFiniteSet(Refreshing) /\ Cardinality(Refreshing) =< Cardinality({lock})
    BY <2>1, <2>2, FS_Subset
  <2> QED
    BY <2>2, <2>3
<1>3. IInv => Inv
  BY <1>1, <1>2 DEF Inv
<1> QED
  BY <1>3, Invariance, PTL

\* tryRecoverFromRefreshRace: a refused refresh token is no reason to disable an account while
\* no token was lost or overwritten, the lock was what it should be and the account could be
\* read again: another caller has a newer token, and has stored it.
THEOREM DisabledAreDead == Spec => []DisabledIfDead
<1>1. IInv => DisabledIfDead
  BY DEF IInv, Alive, DisabledIfDead
<1> QED
  BY <1>1, Invariance, PTL

\* CheckTokenVersion: an old token in the cache is about to be replaced, unless the check and
\* the write of some request are on both sides of a refresh, a 401 changed the token, or a call
\* failed.
THEOREM CacheStaysCurrent == Spec => []CacheIsCurrent
<1>1. ASSUME NEW c \in Callers, Brings(c) PROVE Underway(c)
  BY <1>1 DEF Brings, Underway
<1>2. IInv => CacheIsCurrent
  BY <1>1 DEF IInv, CacheFollows, CacheIsCurrent
<1> QED
  BY <1>2, Invariance, PTL

\* The provider is at most one token ahead of the copies of the account: it gives the next one
\* for the newest only, which is then stored, or lost for good.
OneAhead == issued =< newest + 1

\* Every step keeps that.
LEMMA NextOneAhead == IInv /\ OneAhead /\ [Next]_vars => OneAhead'
<1> SUFFICES ASSUME IInv, OneAhead, [Next]_vars PROVE OneAhead'
  OBVIOUS
<1> USE DEF OneAhead
<1>1. ASSUME NEW c \in Callers, Refresh(c) PROVE OneAhead'
  <2>1. got[c] \in 0..newest /\ newest \in 0..issued /\ UNCHANGED newest
    BY <1>1 DEF Refresh, IInv, TypeInv, GotKnown, AccountType
  <2>2. issued' = issued \/ (got[c] = issued /\ issued' = issued + 1)
    BY <1>1 DEF Refresh
  <2> QED
    BY <2>1, <2>2 DEF IInv, TypeInv, AccountType, Tokens
<1>2. ASSUME NEW c \in Callers, Persist(c) PROVE OneAhead'
  BY <1>2 DEF Persist, providerVars, IInv, TypeInv, PersistAlone, AccountType, Tokens
<1>3. CASE UNCHANGED <<newest, issued>>
  BY <1>3
<1> QED
  BY <1>1, <1>2, <1>3
  DEF Next, RefreshStep, RequestStep, LoopStep, LockMutex, Acquire, Reread, Recover, Return, Ask,
      Unauthorized, WriteBack, Wait, Version, SetCache, List, Invalidate, Disable, Ages,
      CacheExpires, LockExpires, Crash, accountVars, providerVars, vars

\* Who has a token that is not stored yet has the newest one, whatever became of the lock: a
\* refresh never overwrites a newer token, and it skips none unless one was lost.  The other
\* write of the credentials is that of a request's copy after a 401.
THEOREM TokensAreStoredInOrder == Spec => StoredInOrder
<1> DEFINE InOrder ==
        db' # db =>
            \/ db' = issued /\ db' > newest /\ (db' = db + 1 \/ lost)
            \/ \E r \in Requests : pc[r] = "writeBack" /\ db' = mine[r]
<1>1. Init => OneAhead
  BY DEF Init, OneAhead
<1>2. IInv /\ OneAhead /\ [Next]_vars => [InOrder]_vars
  <2> SUFFICES ASSUME IInv, OneAhead, [Next]_vars, db' # db
               PROVE  \/ db' = issued /\ db' > newest /\ (db' = db + 1 \/ lost)
                      \/ \E r \in Requests : pc[r] = "writeBack" /\ db' = mine[r]
    OBVIOUS
  <2>1. (\E c \in Callers : Persist(c)) \/ (\E r \in Requests : WriteBack(r))
    BY DEF Next, RefreshStep, RequestStep, LoopStep, LockMutex, Acquire, Reread, Refresh, Recover,
           Return, Ask, Unauthorized, Wait, Version, SetCache, List, Invalidate, Disable, Ages,
           CacheExpires, LockExpires, Crash, accountVars, vars
  <2>2. CASE \E r \in Requests : WriteBack(r)
    BY <2>2 DEF WriteBack
  <2>3. ASSUME NEW c \in Callers, Persist(c)
        PROVE  db' = issued /\ db' > newest /\ (db' = db + 1 \/ lost)
    <3>1. db' = got[c] /\ got[c] = issued /\ newest < issued
      BY <2>3 DEF Persist, IInv, TypeInv, PersistAlone
    <3>2. lost \/ db = newest
      BY DEF IInv, TypeInv, MineKnown
    <3> QED
      BY <3>1, <3>2 DEF OneAhead, IInv, TypeInv, AccountType, Tokens
  <2> QED
    BY <2>1, <2>2, <2>3
<1> QED
  BY <1>1, <1>2, NextOneAhead, Invariance, PTL DEF Spec, StoredInOrder

=============================================================================

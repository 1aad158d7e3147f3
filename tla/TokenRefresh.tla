---------------------------- MODULE TokenRefresh ----------------------------
(***************************************************************************)
(* The OAuth token of one Claude account: OAuthRefreshAPI                  *)
(* (backend/internal/service/oauth_refresh_api.go) with its two users, the *)
(* requests that need a token (claude_token_provider.go) and the background*)
(* refresh of each process (token_refresh_service.go), and the cache of    *)
(* access tokens and the lock in Redis (repository/gemini_token_cache.go); *)
(* and what a request does whose token the upstream refuses with a 401     *)
(* (HandleUpstreamError, ratelimit_service.go).                            *)
(*                                                                         *)
(* The provider replaces the refresh token at each use, so a token is the  *)
(* number of refreshes that led to it, which is also its _token_version.   *)
(*                                                                         *)
(* What an administrator writes into the credentials is left out: edits,   *)
(* and the refresh of account_handler.go, which takes neither lock, reads  *)
(* nothing again and keeps the old _token_version.  The properties below   *)
(* are about an account that no administrator refreshes or edits meanwhile.*)
(***************************************************************************)
EXTENDS Integers, FiniteSets

CONSTANTS
    Requests,       \* requests that want an access token
    Refreshers,     \* background refresh loops
    Processes,
    ProcessOf,      \* the process of each request and loop
    NoCaller, NoToken,
    MaxRetries,     \* token_refresh.max_retries
    MaxTokens,      \* bound: the last token the provider issues
    MaxFaults       \* bound: failed calls, a 401 among them, and crashes

Callers == Requests \cup Refreshers
Tokens == 0..MaxTokens

ASSUME TokenAssumption ==
    /\ ProcessOf \in [Callers -> Processes]
    /\ Requests \cap Refreshers = {}
    /\ NoCaller \notin Callers /\ NoToken \notin Int
    /\ MaxRetries \in Nat \ {0} /\ MaxTokens \in Nat /\ MaxFaults \in Nat

VARIABLES
    db,         \* the token in the account's credentials
    newest,     \* the newest one it has had, or a copy of the account in memory
    status,     \* the account's
    issued,     \* the newest token the provider has issued
    age,        \* of each token: fresh, in the loops' window, in the requests' too
    cached,     \* oauth:token, the access token in Redis
    lock,       \* oauth:refresh_lock: who has set it, which its value does not tell
    acquired,   \* the callers whose SetNX succeeded, and who will delete the key
    mutex,      \* localLocks, one in each process
    pc,
    mine,       \* the account each caller has
    unread,     \* the callers that go on with it, as they could not read it again
    got,        \* the token the provider has given it
    outcome,    \* of its RefreshIfNeeded
    tries,      \* of each loop
    lost,       \* a token that was issued was not stored, or was overwritten by an older one
    astray,     \* a refresh ran without the lock, or could not tell a race
    raced,      \* the cached token may be an old one
    faults

accountVars == <<db, newest, status, lost>>
providerVars == <<issued, age>>
cacheVars == <<cached, raced>>
lockVars == <<lock, acquired, mutex, astray>>
callerVars == <<pc, mine, unread, got, outcome, tries>>
vars == <<accountVars, providerVars, cacheVars, lockVars, callerVars, faults>>

Init ==
    /\ db = 0 /\ newest = 0 /\ status = "active" /\ lost = FALSE
    /\ issued = 0 /\ age = [t \in Tokens |-> "fresh"]
    /\ cached = NoToken /\ raced = FALSE
    /\ lock = NoCaller /\ acquired = {} /\ astray = FALSE
    /\ mutex = [p \in Processes |-> NoCaller]
    /\ pc = [c \in Callers |-> "idle"]
    /\ mine = [c \in Callers |-> NoToken] /\ unread = {}
    /\ got = [c \in Callers |-> NoToken]
    /\ outcome = [c \in Callers |-> "none"]
    /\ tries = [c \in Refreshers |-> 0]
    /\ faults = 0

Fault == faults < MaxFaults /\ faults' = faults + 1
Goto(c, label) == pc' = [pc EXCEPT ![c] = label]
Has(c, token) == mine' = [mine EXCEPT ![c] = token]
Done(c) == Goto(c, "idle") /\ Has(c, NoToken)
End(c, result) == outcome' = [outcome EXCEPT ![c] = result] /\ Goto(c, "return")

\* NeedsRefresh, each kind of caller with its window.
NeedsRefresh(c, token) ==
    age[token] \in IF c \in Requests THEN {"late"} ELSE {"soon", "late"}

-----------------------------------------------------------------------------
(* RefreshIfNeeded *)

\* Callers that have read the account and may use its refresh token.
Refreshing == {c \in Callers : pc[c] \in {"refresh", "persist"}}

LockMutex(c) ==
    /\ pc[c] = "mutex" /\ mutex[ProcessOf[c]] = NoCaller
    /\ mutex' = [mutex EXCEPT ![ProcessOf[c]] = c]
    /\ Goto(c, "lock")
    /\ UNCHANGED <<accountVars, providerVars, cacheVars, lock, acquired, astray>>
    /\ UNCHANGED <<mine, unread, got, outcome, tries, faults>>

\* Faulty variant: whoever comes gets the lock.
AcquireAlways(c) ==
    /\ pc[c] = "lock"
    /\ lock' = c /\ acquired' = acquired \cup {c} /\ Goto(c, "reread")
    /\ UNCHANGED <<accountVars, providerVars, cacheVars, mutex, astray>>
    /\ UNCHANGED <<mine, unread, got, outcome, tries, faults>>

\* AcquireRefreshLock: taken, held by another, or Redis fails and it goes without.
Acquire(c) ==
    /\ pc[c] = "lock"
    /\ \/ /\ lock = NoCaller
          /\ lock' = c /\ acquired' = acquired \cup {c} /\ Goto(c, "reread")
          /\ UNCHANGED <<astray, outcome, faults>>
       \/ lock # NoCaller /\ End(c, "held") /\ UNCHANGED <<lock, acquired, astray, faults>>
       \/ /\ Fault /\ astray' = TRUE /\ Goto(c, "reread")
          /\ UNCHANGED <<lock, acquired, outcome>>
    /\ UNCHANGED <<accountVars, providerVars, cacheVars, mutex, mine, unread, got, tries>>

\* The account is read again; when that fails the caller's own copy will do.
Reread(c) ==
    /\ pc[c] = "reread"
    /\ \/ /\ got' = [got EXCEPT ![c] = db] /\ UNCHANGED <<unread, faults>>
          /\ IF NeedsRefresh(c, db) THEN Goto(c, "refresh") /\ UNCHANGED outcome
                                    ELSE End(c, "current")
       \/ /\ Fault /\ got' = [got EXCEPT ![c] = mine[c]] /\ unread' = unread \cup {c}
          /\ IF NeedsRefresh(c, mine[c]) THEN Goto(c, "refresh") /\ UNCHANGED outcome
                                         ELSE End(c, "current")
    /\ UNCHANGED <<accountVars, providerVars, cacheVars, lockVars, mine, tries>>

\* Faulty variant: a failed refresh writes the credentials back as it has read them.
RefreshWritesBack(c) ==
    /\ pc[c] = "refresh"
    /\ \/ /\ got[c] = issued /\ issued' = issued + 1
          /\ got' = [got EXCEPT ![c] = issued'] /\ UNCHANGED faults
       \/ got[c] # issued /\ UNCHANGED <<issued, got, faults>>
       \/ Fault /\ UNCHANGED <<issued, got>>
    /\ Goto(c, "persist")
    /\ UNCHANGED <<accountVars, age, cacheVars, lockVars, mine, unread, outcome, tries>>

\* The provider: a refresh token is good for one use.  The call may fail before or after.
Refresh(c) ==
    /\ pc[c] = "refresh"
    /\ \/ /\ got[c] = issued /\ issued' = issued + 1
          /\ \/ got' = [got EXCEPT ![c] = issued'] /\ Goto(c, "persist")
                /\ UNCHANGED <<outcome, lost, faults>>
             \/ Fault /\ lost' = TRUE /\ End(c, "failed") /\ UNCHANGED got
       \/ /\ got[c] # issued /\ Goto(c, "recover")
          /\ UNCHANGED <<issued, got, outcome, lost, faults>>
       \/ Fault /\ End(c, "failed") /\ UNCHANGED <<issued, got, lost>>
    /\ UNCHANGED <<db, newest, status, age, cacheVars, lockVars, mine, unread, tries>>

\* Faulty variant: a refused refresh token is never a race.
RecoverNever(c) ==
    /\ pc[c] = "recover"
    /\ End(c, "invalid")
    /\ UNCHANGED <<accountVars, providerVars, cacheVars, lockVars>>
    /\ UNCHANGED <<mine, unread, got, tries, faults>>

\* tryRecoverFromRefreshRace
Recover(c) ==
    /\ pc[c] = "recover"
    /\ \/ /\ db # got[c] /\ got' = [got EXCEPT ![c] = db] /\ End(c, "current")
          /\ UNCHANGED <<astray, faults>>
       \/ db = got[c] /\ End(c, "invalid") /\ UNCHANGED <<got, astray, faults>>
       \/ Fault /\ astray' = TRUE /\ End(c, "invalid") /\ UNCHANGED got
    /\ UNCHANGED <<accountVars, providerVars, cacheVars, lock, acquired, mutex>>
    /\ UNCHANGED <<mine, unread, tries>>

\* persistAccountCredentials, in the context of the caller: it fails when the client of a
\* request has gone; or it is written and the answer lost.  Before it is written the account
\* in memory gets the token, which is the caller's own when it could not read another.
Persist(c) ==
    /\ pc[c] = "persist"
    /\ \/ /\ db' = got[c] /\ newest' = got[c] /\ End(c, "refreshed")
          /\ raced' = (raced \/ \E r \in Requests : pc[r] = "set")
          /\ UNCHANGED <<lost, mine, faults>>
       \/ /\ Fault /\ End(c, "failed")
          /\ IF c \in unread THEN Has(c, got[c]) ELSE UNCHANGED mine
          /\ \/ lost' = TRUE /\ UNCHANGED <<db, raced>>
                /\ newest' = IF c \in unread THEN got[c] ELSE newest
             \/ db' = got[c] /\ newest' = got[c] /\ raced' = TRUE /\ UNCHANGED lost
    /\ UNCHANGED <<status, providerVars, cached, lockVars, unread, got, tries>>

\* Where the caller goes on.
After(c) ==
    IF c \in Requests THEN IF outcome[c] = "held" THEN "wait" ELSE "version"
    ELSE CASE outcome[c] = "refreshed" -> "invalidate"
           [] outcome[c] = "invalid" -> "disable"
           [] outcome[c] = "failed" /\ tries[c] < MaxRetries -> "mutex"
           [] OTHER -> "idle"

Returned(c) ==
    /\ Goto(c, After(c))
    /\ Has(c, IF After(c) = "idle" THEN NoToken
              ELSE IF outcome[c] \in {"refreshed", "current"} THEN got[c] ELSE mine[c])
    /\ tries' = [b \in Refreshers |-> IF b # c THEN tries[b]
                                      ELSE IF After(c) = "mutex" THEN tries[b] + 1 ELSE 0]
    /\ got' = [got EXCEPT ![c] = NoToken]
    /\ outcome' = [outcome EXCEPT ![c] = "none"]
    /\ acquired' = acquired \ {c} /\ unread' = unread \ {c}

\* The deferred calls: ReleaseRefreshLock deletes the key, whoever has set it.
Return(c) ==
    /\ pc[c] = "return"
    /\ Returned(c)
    /\ mutex' = [mutex EXCEPT ![ProcessOf[c]] = NoCaller]
    /\ \/ lock' = (IF c \in acquired THEN NoCaller ELSE lock) /\ UNCHANGED faults
       \/ c \in acquired /\ Fault /\ UNCHANGED lock
    /\ UNCHANGED <<accountVars, providerVars, cacheVars, astray>>

-----------------------------------------------------------------------------
(* A request: ClaudeTokenProvider.GetAccessToken *)

\* The token is not in the cache, or the cache cannot be read.  The account is the
\* scheduler's copy, of any age, which may tell an expiry that a 401 has since brought forward.
Ask(r) ==
    /\ pc[r] = "idle"
    /\ \E token \in 0..newest :
        /\ Has(r, token)
        /\ \/ NeedsRefresh(r, token) /\ Goto(r, "mutex")
           \/ Goto(r, "version")
    /\ \/ cached = NoToken /\ UNCHANGED faults
       \/ cached # NoToken /\ Fault
    /\ UNCHANGED <<accountVars, providerVars, cacheVars, lockVars, unread, got, outcome, tries>>

\* Another one refreshes: the cache is read once more after claudeLockWaitTime.
Wait(r) ==
    /\ pc[r] = "wait"
    /\ \/ cached # NoToken /\ Done(r) /\ UNCHANGED faults
       \/ cached = NoToken /\ Goto(r, "version") /\ UNCHANGED <<mine, faults>>
       \/ cached # NoToken /\ Fault /\ Goto(r, "version") /\ UNCHANGED mine
    /\ UNCHANGED <<accountVars, providerVars, cacheVars, lockVars, unread, got, outcome, tries>>

\* Faulty variant: the version is not compared.
VersionUnchecked(r) ==
    /\ pc[r] = "version"
    /\ Goto(r, "set")
    /\ UNCHANGED <<accountVars, providerVars, cacheVars, lockVars>>
    /\ UNCHANGED <<mine, unread, got, outcome, tries, faults>>

\* CheckTokenVersion: a token older than the database's is not cached.
Version(r) ==
    /\ pc[r] = "version"
    /\ \/ db > mine[r] /\ Done(r) /\ UNCHANGED <<raced, faults>>
       \/ db =< mine[r] /\ Goto(r, "set") /\ UNCHANGED <<mine, raced, faults>>
       \/ Fault /\ Goto(r, "set") /\ raced' = TRUE /\ UNCHANGED mine
    /\ UNCHANGED <<accountVars, providerVars, cached, lockVars, unread, got, outcome, tries>>

\* SetAccessToken
SetCache(r) ==
    /\ pc[r] = "set"
    /\ Done(r)
    /\ \/ cached' = mine[r] /\ UNCHANGED <<raced, faults>>
       \/ Fault /\ raced' = TRUE /\ UNCHANGED cached
    /\ UNCHANGED <<accountVars, providerVars, lockVars, unread, got, outcome, tries>>

-----------------------------------------------------------------------------
(* A request that the upstream answers with 401: HandleUpstreamError *)

\* The cached token is invalidated.  The request has its own copy of the account, of any age.
Unauthorized(r) ==
    /\ pc[r] = "idle" /\ Fault
    /\ \E token \in 0..newest : token < MaxTokens /\ Has(r, token)
    /\ Goto(r, "writeBack")
    /\ cached' \in {NoToken, cached}
    /\ raced' = (raced \/ cached' # NoToken)
    /\ UNCHANGED <<accountVars, providerVars, lockVars, unread, got, outcome, tries>>

\* The copy is written back, all its credentials, with expires_at = now: no lock is taken and
\* nothing is read again.
WriteBack(r) ==
    /\ pc[r] = "writeBack"
    /\ Done(r)
    /\ \/ /\ db' = mine[r] /\ age' = [age EXCEPT ![mine[r]] = "late"]
          /\ lost' = (lost \/ mine[r] < db) /\ raced' = (raced \/ mine[r] # db)
          /\ UNCHANGED faults
       \/ Fault /\ UNCHANGED <<db, age, lost, raced>>
    /\ UNCHANGED <<newest, status, issued, cached, lockVars, unread, got, outcome, tries>>

-----------------------------------------------------------------------------
(* A background loop: processRefresh, refreshWithRetry *)

\* ListActive, and the account is in the window.
List(b) ==
    /\ pc[b] = "idle" /\ status = "active" /\ NeedsRefresh(b, db)
    /\ Has(b, db) /\ tries' = [tries EXCEPT ![b] = 1]
    /\ Goto(b, "mutex")
    /\ UNCHANGED <<accountVars, providerVars, cacheVars, lockVars, unread, got, outcome, faults>>

\* postRefreshActions: InvalidateToken
Invalidate(b) ==
    /\ pc[b] = "invalidate"
    /\ Done(b)
    /\ \/ cached' = NoToken /\ UNCHANGED <<raced, faults>>
       \/ Fault /\ raced' = TRUE /\ UNCHANGED cached
    /\ UNCHANGED <<accountVars, providerVars, lockVars, unread, got, outcome, tries>>

\* A refresh token that is refused: SetError.
Disable(b) ==
    /\ pc[b] = "disable"
    /\ Done(b)
    /\ \/ status' = "error" /\ UNCHANGED faults
       \/ Fault /\ UNCHANGED status
    /\ UNCHANGED <<db, newest, lost, providerVars, cacheVars, lockVars>>
    /\ UNCHANGED <<unread, got, outcome, tries>>

-----------------------------------------------------------------------------
(* Time and crashes *)

Older == [fresh |-> "soon", soon |-> "late"]

Ages(token) ==
    /\ token =< issued /\ token < MaxTokens /\ age[token] # "late"
    /\ age' = [age EXCEPT ![token] = Older[@]]
    /\ UNCHANGED <<accountVars, issued, cacheVars, lockVars, callerVars, faults>>

\* The TTL of the cached token.
CacheExpires ==
    /\ cached # NoToken /\ cached' = NoToken
    /\ UNCHANGED <<accountVars, providerVars, raced, lockVars, callerVars, faults>>

\* Faulty variant: a lock without TTL.
LockStays == FALSE /\ UNCHANGED vars

\* defaultRefreshLockTTL, however long a refresh takes.
LockExpires ==
    /\ lock # NoCaller /\ lock' = NoCaller
    /\ astray' = (astray \/ lock \in acquired)
    /\ UNCHANGED <<accountVars, providerVars, cacheVars, acquired, mutex, callerVars, faults>>

\* Whose refresh has yet to reach the cache.
Underway(c) ==
    \/ outcome[c] = "refreshed" \/ pc[c] = "invalidate"
    \/ pc[c] \in {"version", "set"} /\ mine[c] = db

\* A process dies, and the lock it has stays.
Crash(p) ==
    LET dead == {c \in Callers : ProcessOf[c] = p} IN
    /\ Fault
    /\ pc' = [c \in Callers |-> IF c \in dead THEN "idle" ELSE pc[c]]
    /\ got' = [c \in Callers |-> IF c \in dead THEN NoToken ELSE got[c]]
    /\ outcome' = [c \in Callers |-> IF c \in dead THEN "none" ELSE outcome[c]]
    /\ mine' = [c \in Callers |-> IF c \in dead THEN NoToken ELSE mine[c]]
    /\ tries' = [b \in Refreshers |-> IF b \in dead THEN 0 ELSE tries[b]]
    /\ acquired' = acquired \ dead /\ unread' = unread \ dead
    /\ mutex' = [mutex EXCEPT ![p] = NoCaller]
    /\ lost' = (lost \/ \E c \in dead : pc[c] = "persist")
    /\ raced' = (raced \/ \E c \in dead : Underway(c))
    /\ UNCHANGED <<db, newest, status, providerVars, cached, lock, astray>>

-----------------------------------------------------------------------------
RefreshStep(c) ==
    \/ LockMutex(c) \/ Acquire(c) \/ Reread(c) \/ Refresh(c) \/ Recover(c) \/ Persist(c)
    \/ Return(c)

RequestStep(r) == Wait(r) \/ Version(r) \/ SetCache(r) \/ WriteBack(r)

LoopStep(b) == List(b) \/ Invalidate(b) \/ Disable(b)

Next ==
    \/ \E c \in Callers : RefreshStep(c)
    \/ \E r \in Requests : Ask(r) \/ Unauthorized(r) \/ RequestStep(r)
    \/ \E b \in Refreshers : LoopStep(b)
    \/ \E token \in Tokens : Ages(token)
    \/ CacheExpires \/ LockExpires
    \/ \E p \in Processes : Crash(p)

\* Goroutines run, a Go mutex does not starve those who wait, loops come round, keys expire.
Fairness ==
    /\ \A c \in Callers : WF_vars(RefreshStep(c)) /\ SF_vars(LockMutex(c))
    /\ \A r \in Requests : WF_vars(RequestStep(r))
    /\ \A b \in Refreshers : WF_vars(LoopStep(b))
    /\ WF_vars(CacheExpires) /\ WF_vars(LockExpires)

Spec == Init /\ [][Next]_vars /\ Fairness

-----------------------------------------------------------------------------
(* Properties *)

TypeOK ==
    /\ newest \in 0..issued /\ db \in 0..newest /\ issued \in Tokens
    /\ status \in {"active", "error"}
    /\ age \in [Tokens -> {"fresh", "soon", "late"}]
    /\ cached \in Tokens \cup {NoToken}
    /\ lock \in Callers \cup {NoCaller} /\ acquired \subseteq Callers
    /\ mutex \in [Processes -> Callers \cup {NoCaller}]
    /\ pc \in [Callers -> {"idle", "mutex", "lock", "reread", "refresh", "recover", "persist",
                           "return", "wait", "version", "set", "writeBack", "invalidate",
                           "disable"}]
    /\ mine \in [Callers -> Tokens \cup {NoToken}]
    /\ got \in [Callers -> Tokens \cup {NoToken}] /\ unread \subseteq Callers
    /\ outcome \in [Callers -> {"none", "held", "current", "refreshed", "invalid", "failed"}]
    /\ tries \in [Refreshers -> 0..MaxRetries]
    /\ lost \in BOOLEAN /\ astray \in BOOLEAN /\ raced \in BOOLEAN
    /\ faults \in 0..MaxFaults

\* RefreshIfNeeded: the refresh token is used by one caller at a time, between processes and
\* inside one, unless a lock expired under a refresh or Redis failed.  (An administrator's
\* refresh does not go through it.)
RefreshAlone == Cardinality(Refreshing) =< 1 \/ astray

\* The state is well formed, and one caller at a time refreshes.
Inv == TypeOK /\ RefreshAlone

\* persistAccountCredentials writes all credentials of the account, whatever is there by
\* then: a refresh that comes late, outlives its lock or runs beside another never puts
\* back an older token, and skips none as long as none is lost.  Only a 401 (HandleUpstreamError)
\* writes a copy that may be older.
StoredInOrder ==
    [][db' # db =>
        \/ db' = issued /\ db' > newest /\ (db' = db + 1 \/ lost)
        \/ \E r \in Requests : pc[r] = "writeBack" /\ db' = mine[r]]_vars

\* The recovery from a refused refresh token tells a race from a dead account: an account
\* is disabled only when a token of it was lost, by a refresh that was not stored or by a
\* 401 that wrote an older one over it; where a refresh ran without its lock; or where the
\* recovery could not read the account.
DisabledIfDead == status = "error" => lost \/ astray

\* CheckTokenVersion: once a refresh has invalidated the cache, an account read before it
\* does not bring the old token back, unless the check and the write are on both sides of
\* it, a 401 wrote another token back in between, or a call failed.
CacheIsCurrent ==
    cached # NoToken /\ cached < db => raced \/ \E c \in Callers : Underway(c)

\* A token about to expire is replaced, whatever the loops and requests do to each other and
\* whoever died with the lock, or the account is disabled.
TokenIsRenewed == age[db] # "fresh" ~> age[db] = "fresh" \/ status = "error"
=============================================================================

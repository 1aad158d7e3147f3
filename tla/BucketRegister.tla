--------------------------- MODULE BucketRegister ---------------------------
(***************************************************************************)
(* What the snapshots of a bucket amount to for those who read and write   *)
(* them: a register that holds one load of the database at a time.         *)
(* SchedulerSnapshot implements it with versions, an index written account *)
(* by account, and a pointer to the active version.                        *)
(***************************************************************************)
EXTENDS Naturals, Sequences

CONSTANTS
    Accounts,
    Processes,
    Workers,    \* goroutines: a process and a role
    Nothing     \* neither read nor kept

VARIABLES
    history,    \* the accounts in the bucket, after each change of the database
    shown,      \* the load that is in the register, 0 before the first
    kept,       \* it was written by a holder of the lock
    loaded,     \* the load that each worker has to write, or 0
    reading,    \* what each worker has begun to read
    copies      \* what each process keeps in memory

vars == <<history, shown, kept, loaded, reading, copies>>

Init ==
    /\ history = <<Accounts>>
    /\ shown = 0 /\ kept = FALSE
    /\ loaded = [w \in Workers |-> 0]
    /\ reading = [w \in Workers |-> Nothing]
    /\ copies = [p \in Processes |-> Nothing]

\* The process of a worker keeps c.
Keep(w, c) == copies' = [copies EXCEPT ![w[1]] = c]

\* The database changes.
Edit ==
    /\ \E s \in SUBSET Accounts : history' = Append(history, s)
    /\ UNCHANGED <<shown, kept, loaded, reading, copies>>

Load(w) ==
    /\ loaded' = [loaded EXCEPT ![w] = Len(history)]
    /\ UNCHANGED <<history, shown, kept, reading, copies>>

\* A load replaces the one in the register at once; a writer that kept the lock replaces
\* no newer load of one that kept it, too.
Publish(w, k) ==
    /\ loaded[w] # 0
    /\ kept /\ k => shown =< loaded[w]
    /\ shown' = loaded[w] /\ kept' = k
    /\ UNCHANGED <<history, loaded, reading, copies>>

\* A writer is done or gives up.  Its process keeps what it has loaded, or nothing; reads
\* that began before are lost with what it deletes.
Leave(w, lost) ==
    /\ loaded[w] # 0
    /\ loaded' = [loaded EXCEPT ![w] = 0]
    /\ UNCHANGED copies \/ Keep(w, Nothing) \/ Keep(w, history[loaded[w]])
    /\ reading' = [v \in Workers |-> IF v \in lost THEN Nothing ELSE reading[v]]
    /\ UNCHANGED <<history, shown, kept>>

\* A read is given what is in the register when it begins ...
Begin(w) ==
    /\ reading[w] = Nothing
    /\ shown # 0
    /\ reading' = [reading EXCEPT ![w] = history[shown]]
    /\ UNCHANGED <<history, shown, kept, loaded, copies>>

\* ... and hands it to its process, or misses a part.
Finish(w) ==
    /\ reading[w] # Nothing
    /\ UNCHANGED copies \/ Keep(w, reading[w])
    /\ reading' = [reading EXCEPT ![w] = Nothing]
    /\ UNCHANGED <<history, shown, kept, loaded>>

Expire(p) ==
    /\ copies' = [copies EXCEPT ![p] = Nothing]
    /\ UNCHANGED <<history, shown, kept, loaded, reading>>

Next ==
    \/ Edit
    \/ \E w \in Workers :
        \/ Load(w) \/ Begin(w) \/ Finish(w)
        \/ \E k \in BOOLEAN : Publish(w, k)
        \/ \E lost \in SUBSET Workers : Leave(w, lost)
    \/ \E p \in Processes : Expire(p)

Spec == Init /\ [][Next]_vars
=============================================================================

-------------------------- MODULE IdempotencyTable --------------------------
(***************************************************************************)
(* The statements of backend/internal/repository/idempotency_repo.go on the *)
(* row of one (scope, key hash): the table has at most one, its unique index *)
(* sees to it.  The coordinator (Idempotency) and the system operation lock *)
(* (SystemOperationLock) run them.                                         *)
(***************************************************************************)
EXTENDS Integers

RecordStatuses == {"processing", "succeeded", "failed_retryable"}

\* fp is request_fingerprint; locked is 0 for NULL: both are in the past.
RecordsOf(fingerprints) ==
    [id : Nat, fp : fingerprints, status : RecordStatuses, locked : Nat, expires : Nat]

NoRow == [id |-> 0]

NewRow(i, fingerprint, locked, expires) ==
    [id |-> i, fp |-> fingerprint, status |-> "processing", locked |-> locked,
     expires |-> expires]

\* Faulty variant: only the id is compared.
MatchesById(row, i, status, at) == row # NoRow /\ row.id = i

\* The rows the UPDATE of TryReclaim matches: the status is the one that was read
\* and no lock holds.
Matches(row, i, status, at) ==
    row # NoRow /\ row.id = i /\ row.status = status /\ row.locked =< at

\* What it sets: all but the fingerprint.
Reclaimed(row, locked, expires) ==
    [row EXCEPT !.status = "processing", !.locked = locked, !.expires = expires]

\* The rows the UPDATE of ExtendProcessingLock matches.
IsProcessing(row, i, fingerprint) ==
    row # NoRow /\ row.id = i /\ row.status = "processing" /\ row.fp = fingerprint

Extended(row, locked, expires) == [row EXCEPT !.locked = locked, !.expires = expires]

\* MarkSucceeded (locked is NULL) and MarkFailedRetryable find the row by its id,
\* whoever owns it by now; a row that is gone is no error.
Marked(row, i, status, locked, expires) ==
    IF row.id = i
    THEN [row EXCEPT !.status = status, !.locked = locked, !.expires = expires]
    ELSE row

\* The rows DeleteExpired deletes, whatever their status.
IsExpired(row, at) == row # NoRow /\ row.expires =< at
=============================================================================

------------------------------ MODULE Recorder ------------------------------
(* The best-effort recording of finished matches: the queue, writers and     *)
(* retries of server/src/matchHistory/recorder.ts over the transaction of    *)
(* server/src/matchHistory/repository.ts, and the flush at shutdown.         *)
(*                                                                           *)
(* The recorder's code runs in one event loop: what happens between two      *)
(* awaits is one step.  A write waits for the database, which may fail it at *)
(* any point; a COMMIT whose answer is lost leaves the transaction in doubt  *)
(* until the database settles it, perhaps long after the write has been     *)
(* retried.  Matches are numbered in the order they finish; each is handed   *)
(* over once (MatchSync, CompletedOnce).                                     *)
EXTENDS Naturals, Sequences, FiniteSets

CONSTANTS
    Matches,               \* the bound on the matches that finish
    MaxConcurrentWrites,   \* maxConcurrentWrites
    MaxPendingWrites       \* maxPendingWrites

Records == 1 .. Matches
RETRIES == 2      \* RETRY_DELAYS_MS.length

VARIABLES
    handed,      \* how many matches have been handed to record()
    recorder,    \* the recorder
    flush,       \* where flush() is: "idle", "awaiting" or "done"
    awaited,     \* the operations its Promise.all waits for
    reported,    \* the matches whose loss was logged
    stored,      \* the matches in match_history_records, with their participants
    inDoubt,     \* those whose COMMIT was sent and not answered
    failures     \* how many attempts to write each match the database has failed

vars == <<handed, recorder, flush, awaited, reported, stored, inDoubt, failures>>
database == <<stored, inDoubt, failures>>

-----------------------------------------------------------------------------
(* The recorder's functions.                                                 *)

\* activeWrites and the attempt of each persist() under way; delayed are the
\* writes between two attempts
newRecorder ==
    [pending |-> {}, queue |-> <<>>, activeWrites |-> 0,
     attempt |-> [r \in Records |-> 0], inserting |-> {}, delayed |-> {}]

\* how many writes a call of drain() starts
started(rec) ==
    LET idle    == MaxConcurrentWrites - rec.activeWrites
        waiting == Len(rec.queue)
    IN  IF waiting < idle THEN waiting ELSE idle

drain(rec) ==
    LET n == started(rec)
    IN  [rec EXCEPT !.queue = SubSeq(@, n + 1, Len(@)),
                    !.activeWrites = @ + n,
                    !.inserting = @ \cup {rec.queue[i] : i \in 1 .. n}]

hasCapacity(rec) == Cardinality(rec.pending) < MaxPendingWrites

admitted(rec, r) ==
    drain([rec EXCEPT !.pending = @ \cup {r}, !.queue = Append(@, r)])

\* fault: a writer that has failed does not come back
settled_WriterLost(rec, r) ==
    drain([rec EXCEPT !.pending = @ \ {r}, !.inserting = @ \ {r}])

\* persist() is over, either way
settled(rec, r) ==
    drain([rec EXCEPT !.activeWrites = @ - 1, !.pending = @ \ {r},
                      !.inserting = @ \ {r}])

-----------------------------------------------------------------------------
(* Steps of the server's event loop.                                         *)

\* record(): a match has finished
Record ==
    /\ handed < Matches
    /\ handed' = handed + 1
    /\ IF hasCapacity(recorder)
       THEN recorder' = admitted(recorder, handed + 1) /\ UNCHANGED reported
       ELSE reported' = reported \cup {handed + 1} /\ UNCHANGED recorder
    /\ UNCHANGED <<flush, awaited, database>>

\* the answer of insert() arrives and persist() returns
Succeed(r) ==
    /\ recorder' = settled(recorder, r)
    /\ UNCHANGED <<handed, flush, awaited, reported>>

\* insert() rejects; the last rejection is logged
Retry(r) ==
    /\ IF recorder.attempt[r] < RETRIES
       THEN /\ recorder' = [recorder EXCEPT !.inserting = @ \ {r},
                                            !.delayed = @ \cup {r},
                                            !.attempt[r] = @ + 1]
            /\ UNCHANGED reported
       ELSE /\ recorder' = settled(recorder, r)
            /\ reported' = reported \cup {r}
    /\ UNCHANGED <<handed, flush, awaited>>

DelayOver(r) ==
    /\ r \in recorder.delayed
    /\ recorder' = [recorder EXCEPT !.delayed = @ \ {r}, !.inserting = @ \cup {r}]
    /\ UNCHANGED <<handed, flush, awaited, reported, database>>

\* closeServer() calls flush() when every socket is closed
Flush ==
    /\ flush = "idle"
    /\ flush' = IF recorder.pending = {} THEN "done" ELSE "awaiting"
    /\ awaited' = recorder.pending
    /\ UNCHANGED <<handed, recorder, reported, database>>

\* the loop of flush() when its Promise.all resolves
FlushAgain ==
    /\ flush = "awaiting" /\ awaited \cap recorder.pending = {}
    /\ flush' = IF recorder.pending = {} THEN "done" ELSE "awaiting"
    /\ awaited' = recorder.pending
    /\ UNCHANGED <<handed, recorder, reported, database>>

-----------------------------------------------------------------------------
(* The transaction of insert().                                              *)

\* fault: a conflict is not noticed
insertsParticipants_Always(r) == TRUE

\* ON CONFLICT DO NOTHING returns no row for a match that is stored, and insert()
\* returns without its participants
insertsParticipants(r) == r \notin stored

\* the key of match_history_participants
keyViolated(r) == insertsParticipants(r) /\ r \in stored

\* the INSERT waits for a transaction in doubt on the same key
Insert(r) ==
    /\ r \in recorder.inserting /\ r \notin inDoubt
    /\ IF keyViolated(r) THEN Retry(r) ELSE Succeed(r)
    /\ stored' = stored \cup {r}
    /\ UNCHANGED <<inDoubt, failures>>

\* the database is not there, or too slow (query_timeout), before the COMMIT
InsertFails(r) ==
    /\ r \in recorder.inserting
    /\ failures' = [failures EXCEPT ![r] = @ + 1]
    /\ Retry(r)
    /\ UNCHANGED <<stored, inDoubt>>

\* the answer to the COMMIT is lost or late
AnswerLost(r) ==
    /\ r \in recorder.inserting /\ r \notin inDoubt
    /\ failures' = [failures EXCEPT ![r] = @ + 1]
    /\ inDoubt' = inDoubt \cup {r}
    /\ Retry(r)
    /\ UNCHANGED stored

\* the database commits or aborts a transaction in doubt
Settle(r) ==
    /\ r \in inDoubt
    /\ inDoubt' = inDoubt \ {r}
    /\ \/ stored' = stored \cup {r}
       \/ UNCHANGED stored
    /\ UNCHANGED <<handed, recorder, flush, awaited, reported, failures>>

-----------------------------------------------------------------------------
\* n matches have been stored before
InitWith(n) ==
    /\ handed = n /\ recorder = newRecorder
    /\ flush = "idle" /\ awaited = {} /\ reported = {}
    /\ stored = 1 .. n /\ inDoubt = {} /\ failures = [r \in Records |-> 0]

Init == InitWith(0)

Next ==
    \/ Record \/ Flush \/ FlushAgain
    \/ \E r \in Records :
        Insert(r) \/ InsertFails(r) \/ AnswerLost(r) \/ DelayOver(r) \/ Settle(r)

Spec == Init /\ [][Next]_vars

-----------------------------------------------------------------------------
(* Properties.                                                               *)

\* Admitted writes are bounded, each is in one place, and none waits while a
\* writer is idle: no failure, retry or refusal uses up a slot for good.
WritersKept ==
    LET queued == {recorder.queue[i] : i \in DOMAIN recorder.queue}
        active == recorder.inserting \cup recorder.delayed
    IN  /\ Cardinality(recorder.pending) <= MaxPendingWrites
        /\ recorder.pending = queued \cup active /\ queued \cap active = {}
        /\ Cardinality(active) = recorder.activeWrites
        /\ recorder.queue # <<>> => recorder.activeWrites = MaxConcurrentWrites

\* Every match handed over is still to be written, stored or reported, and one
\* that was admitted is reported only when the database has failed all three
\* attempts: an attempt that finds its match stored by a transaction that was in
\* doubt is a success.
Accounted ==
    \A r \in 1 .. handed :
        /\ r \in recorder.pending \cup stored \cup reported
        /\ r \in reported /\ recorder.attempt[r] > 0 => failures[r] = RETRIES + 1

=============================================================================

----------------------------- MODULE Migrations -----------------------------
(* The migration command, server/src/migrations.ts and migrateCli.ts: the    *)
(* numbered files are applied in order, each in a transaction that also      *)
(* inserts its version, under an advisory lock of the database.              *)
(*                                                                           *)
(* Several processes may migrate one database, and each may lose its         *)
(* connection at any point; a lost COMMIT leaves open what the database did. *)
(* Files are numbered as they are sorted.                                    *)
EXTENDS Naturals, FiniteSets

CONSTANTS
    Migrators,   \* the processes that run db:migrate
    Files        \* how many files the directory holds

VARIABLES
    migrator,    \* where each process is, and the versions it has seen applied
    schema       \* the database: the table of versions, the effects of the files, the lock

vars == <<migrator, schema>>

Versions == 1 .. Files
Free == "free"

newMigrator == [at |-> "idle", applied |-> {}]

-----------------------------------------------------------------------------
(* The database.                                                             *)

\* pg_advisory_unlock, or the end of the connection that holds the lock
unlocked(s, m) == IF s.lock = m THEN [s EXCEPT !.lock = Free] ELSE s

\* the files whose version is not in the table
pendingFiles(p) == Versions \ p.applied

\* fault: the directory is not sorted
nextFile_Unsorted(p) == CHOOSE f \in pendingFiles(p) : \A g \in pendingFiles(p) : f >= g

nextFile(p) == CHOOSE f \in pendingFiles(p) : \A g \in pendingFiles(p) : f <= g

\* the end of the transaction: the effects of the file and its version together
committed(s, f) == [s EXCEPT !.applied = @ \cup {f}, !.effect[f] = @ + 1]

\* assertMigrationsCurrent(): the server's only look at the schema
isCurrent(s) == Versions \subseteq s.applied

-----------------------------------------------------------------------------
(* runMigrations(), one step per exchange with the database.                 *)

Begin(m) ==
    /\ migrator[m].at = "idle"
    /\ migrator' = [migrator EXCEPT ![m].at = "locking"]
    /\ UNCHANGED schema

\* where a process goes when it holds the lock and has read the versions
onward(p) == IF pendingFiles(p) = {} THEN "done" ELSE "applying"

\* pg_advisory_lock is granted; CREATE TABLE IF NOT EXISTS and SELECT follow
Lock(m) ==
    /\ migrator[m].at = "locking" /\ schema.lock = Free
    /\ LET p == [migrator[m] EXCEPT !.applied = schema.applied]
       IN  /\ migrator' = [migrator EXCEPT ![m] = [p EXCEPT !.at = onward(p)]]
           /\ schema' = IF onward(p) = "done" THEN schema ELSE [schema EXCEPT !.lock = m]

\* BEGIN, the file, and the INSERT of its version, which fails on the key when the
\* version is there
Apply(m) ==
    /\ migrator[m].at = "applying"
    /\ nextFile(migrator[m]) \notin schema.applied
    /\ migrator' = [migrator EXCEPT ![m].at = "committing"]
    /\ UNCHANGED schema

Commit(m) ==
    /\ migrator[m].at = "committing"
    /\ LET f == nextFile(migrator[m])
           p == [migrator[m] EXCEPT !.applied = @ \cup {f}]
           s == committed(schema, f)
       IN  /\ migrator' = [migrator EXCEPT ![m] = [p EXCEPT !.at = onward(p)]]
           /\ schema' = IF onward(p) = "done" THEN unlocked(s, m) ELSE s

\* a query fails or times out: ROLLBACK, unlock, and the command exits with code 1
Fail(m) ==
    /\ migrator[m].at \in {"locking", "applying", "committing"}
    /\ migrator' = [migrator EXCEPT ![m] = [newMigrator EXCEPT !.at = "failed"]]
    /\ schema' = unlocked(schema, m)

\* the connection is lost; a COMMIT on its way may have been executed
Lose(m) ==
    /\ migrator[m].at \in {"applying", "committing"}
    /\ migrator' = [migrator EXCEPT ![m] = [newMigrator EXCEPT !.at = "failed"]]
    /\ \/ schema' = unlocked(schema, m)
       \/ /\ migrator[m].at = "committing"
          /\ schema' = unlocked(committed(schema, nextFile(migrator[m])), m)

\* the command is run again
Again(m) ==
    /\ migrator[m].at \in {"done", "failed"}
    /\ migrator' = [migrator EXCEPT ![m] = newMigrator]
    /\ UNCHANGED schema

\* n files have been applied before
InitWith(n) ==
    /\ migrator = [m \in Migrators |-> newMigrator]
    /\ schema = [applied |-> 1 .. n, lock |-> Free,
                 effect |-> [f \in Versions |-> IF f <= n THEN 1 ELSE 0]]

Init == InitWith(0)

Next ==
    \E m \in Migrators :
        Begin(m) \/ Lock(m) \/ Apply(m) \/ Commit(m) \/ Fail(m) \/ Lose(m) \/ Again(m)

Spec == Init /\ [][Next]_vars

-----------------------------------------------------------------------------
\* Whatever processes migrate and whatever fails, the files applied are a prefix of
\* the directory, each has taken effect exactly once, and a process that ended well
\* leaves none to be applied.
AppliedInOrder ==
    /\ \E n \in 0 .. Files : schema.applied = 1 .. n
    /\ \A f \in Versions : schema.effect[f] = IF f \in schema.applied THEN 1 ELSE 0
    /\ \A m \in Migrators : migrator[m].at = "done" => isCurrent(schema)
=============================================================================

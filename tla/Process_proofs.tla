--------------------------- MODULE Process_proofs ---------------------------

(* Proofs about the server process, for every number of connections, matches *)
(* and migrating processes, and every limit.                                 *)
EXTENDS Process, FiniteSetTheorems, TLAPS

-----------------------------------------------------------------------------

(* The schema.                                                               *)

MigratorState ==
    [at : {"idle", "locking", "applying", "committing", "done", "failed"},
     applied : SUBSET M!Versions]

SchemaState ==
    [applied : SUBSET M!Versions, lock : Migrators \cup {M!Free},
     effect : [M!Versions -> Nat]]

\* Who is between its lock and its last COMMIT holds the lock, so what it has read
\* is still what the table says, and there is a file left for it.
SchemaInv ==
    /\ migrator \in [Migrators -> MigratorState]
    /\ schema \in SchemaState
    /\ M!AppliedInOrder
    /\ \A m \in Migrators :
         migrator[m].at \in {"applying", "committing"} =>
            /\ schema.lock = m
            /\ migrator[m].applied = schema.applied
            /\ ~M!isCurrent(schema)

\* The file that is applied next is the one after the prefix that is there.
LEMMA NextFile ==
    ASSUME NEW n \in 0 .. Files - 1, NEW p, p.applied = 1 .. n
    PROVE  M!nextFile(p) = n + 1
<1>1. Files \in Nat \ {0}
  BY ProcessAssumption
<1>2. M!pendingFiles(p) = n + 1 .. Files
  BY <1>1 DEF M!pendingFiles, M!Versions
<1>3. /\ n + 1 \in M!pendingFiles(p)
      /\ \A g \in M!pendingFiles(p) : n + 1 <= g
  BY <1>1, <1>2
<1>4. \A f \in M!pendingFiles(p) :
        (\A g \in M!pendingFiles(p) : f <= g) => f = n + 1
  BY <1>1, <1>2, <1>3
<1> QED BY <1>3, <1>4 DEF M!nextFile

\* A COMMIT extends the prefix by one file.
LEMMA Committed ==
    ASSUME SchemaInv, NEW m \in Migrators, migrator[m].at = "committing"
    PROVE  LET f == M!nextFile(migrator[m])
               s == M!committed(schema, f)
           IN  /\ s \in SchemaState /\ s.lock = m
               /\ s.applied = schema.applied \cup {f}
               /\ \E n \in 0 .. Files : s.applied = 1 .. n
               /\ \A g \in M!Versions : s.effect[g] = IF g \in s.applied THEN 1 ELSE 0
<1>1. Files \in Nat \ {0}
  BY ProcessAssumption
<1>2. PICK n \in 0 .. Files : schema.applied = 1 .. n
  BY DEF SchemaInv, M!AppliedInOrder
<1>3. migrator[m].applied = schema.applied /\ schema.lock = m /\ n # Files
  BY <1>2 DEF SchemaInv, M!isCurrent, M!Versions
<1>4. M!nextFile(migrator[m]) = n + 1
  BY <1>1, <1>2, <1>3, NextFile
<1> DEFINE s == M!committed(schema, n + 1)
<1>5. n + 1 \in M!Versions
  BY <1>1, <1>2, <1>3 DEF M!Versions
<1>6. /\ s.applied = schema.applied \cup {n + 1} /\ s.lock = m
      /\ s.effect = [schema.effect EXCEPT ![n + 1] = @ + 1]
      /\ s \in SchemaState
  <2>1. schema \in SchemaState
    BY DEF SchemaInv
  <2>2. s = [schema EXCEPT !.applied = schema.applied \cup {n + 1},
                           !.effect = [schema.effect EXCEPT ![n + 1] = schema.effect[n + 1] + 1]]
    BY DEF M!committed
  <2> HIDE DEF s
  <2>3. [schema.effect EXCEPT ![n + 1] = schema.effect[n + 1] + 1] \in [M!Versions -> Nat]
    BY <1>5, <2>1 DEF SchemaState
  <2> QED BY <1>3, <1>5, <2>1, <2>2, <2>3 DEF SchemaState
<1> HIDE DEF s
<1>7. s.applied = 1 .. n + 1 /\ n + 1 \in 0 .. Files
  BY <1>1, <1>2, <1>3, <1>6
<1>8. \A g \in M!Versions : s.effect[g] = IF g \in s.applied THEN 1 ELSE 0
  BY <1>2, <1>5, <1>6 DEF SchemaInv, SchemaState, M!AppliedInOrder
<1> QED BY <1>4, <1>6, <1>7, <1>8 DEF s

\* What leaves the table and the other processes alone keeps the invariant, if the
\* process that moves is between its lock and its COMMIT only as it was before.
LEMMA MigratorMoves ==
    ASSUME SchemaInv, NEW m \in Migrators, NEW p \in MigratorState,
           migrator' = [migrator EXCEPT ![m] = p], UNCHANGED schema,
           p.at = "done" => M!isCurrent(schema),
           p.at \in {"applying", "committing"} =>
                schema.lock = m /\ p.applied = schema.applied /\ ~M!isCurrent(schema)
    PROVE  SchemaInv'
BY DEF SchemaInv, M!AppliedInOrder, M!isCurrent

\* The process that holds the lock, or nobody, gives it back, and is not at work.
LEMMA LockReturned ==
    ASSUME SchemaInv, NEW m \in Migrators,
           migrator' = [migrator EXCEPT ![m] = [M!newMigrator EXCEPT !.at = "failed"]],
           schema' = M!unlocked(schema, m)
    PROVE  SchemaInv' /\ schema'.applied = schema.applied
<1> DEFINE p == [M!newMigrator EXCEPT !.at = "failed"]
<1>1. p \in MigratorState /\ p.at = "failed"
  BY DEF MigratorState, M!newMigrator
<1>2. /\ schema' \in SchemaState
      /\ schema'.applied = schema.applied /\ schema'.effect = schema.effect
      /\ \A x \in Migrators : x # m /\ schema.lock = x => schema'.lock = x
  BY DEF SchemaInv, SchemaState, M!unlocked, M!Free
<1> HIDE DEF p
<1> QED BY <1>1, <1>2 DEF p, SchemaInv, M!AppliedInOrder, M!isCurrent

\* The steps of a migrating process that leave the table alone.
LEMMA Begins ==
    ASSUME SchemaInv, NEW m \in Migrators, M!Begin(m) \/ M!Apply(m) \/ M!Again(m)
    PROVE  SchemaInv' /\ UNCHANGED schema
<1>1. migrator[m] \in MigratorState
  BY DEF SchemaInv
<1>2. CASE M!Begin(m)
  <2> DEFINE p == [migrator[m] EXCEPT !.at = "locking"]
  <2>1. p \in MigratorState /\ p.at = "locking"
    BY <1>1 DEF MigratorState
  <2>2. migrator' = [migrator EXCEPT ![m] = p] /\ UNCHANGED schema
    BY <1>2 DEF M!Begin
  <2> HIDE DEF p
  <2> QED BY <2>1, <2>2, MigratorMoves
<1>3. CASE M!Apply(m)
  <2> DEFINE p == [migrator[m] EXCEPT !.at = "committing"]
  <2>1. p \in MigratorState /\ p.at = "committing" /\ p.applied = migrator[m].applied
    BY <1>1 DEF MigratorState
  <2>2. migrator' = [migrator EXCEPT ![m] = p] /\ UNCHANGED schema /\ migrator[m].at = "applying"
    BY <1>3 DEF M!Apply
  <2>3. schema.lock = m /\ migrator[m].applied = schema.applied /\ ~M!isCurrent(schema)
    BY <2>2 DEF SchemaInv
  <2> HIDE DEF p
  <2> QED BY <2>1, <2>2, <2>3, MigratorMoves
<1>4. CASE M!Again(m)
  <2>1. M!newMigrator \in MigratorState /\ M!newMigrator.at = "idle"
    BY DEF MigratorState, M!newMigrator
  <2>2. migrator' = [migrator EXCEPT ![m] = M!newMigrator] /\ UNCHANGED schema
    BY <1>4 DEF M!Again
  <2> QED BY <2>1, <2>2, MigratorMoves
<1> QED BY <1>2, <1>3, <1>4 DEF M!Begin, M!Apply, M!Again

\* The lock is taken by one process when nobody holds it, and so when nobody is at work.
LEMMA Locks ==
    ASSUME SchemaInv, NEW m \in Migrators, M!Lock(m)
    PROVE  SchemaInv' /\ schema'.applied = schema.applied
<1> DEFINE read == [migrator[m] EXCEPT !.applied = schema.applied]
           p == [read EXCEPT !.at = M!onward(read)]
<1>1. migrator[m] \in MigratorState /\ schema \in SchemaState
  BY DEF SchemaInv
<1>2. read.applied = schema.applied /\ read \in MigratorState
  BY <1>1 DEF MigratorState, SchemaState
<1>3. M!onward(read) = IF M!isCurrent(schema) THEN "done" ELSE "applying"
  BY <1>1, <1>2 DEF M!onward, M!pendingFiles, M!isCurrent, SchemaState
<1>4. p \in MigratorState /\ p.at = M!onward(read) /\ p.applied = schema.applied
  <2> HIDE DEF read
  <2> QED BY <1>2, <1>3 DEF MigratorState
<1>5. /\ migrator' = [migrator EXCEPT ![m] = p] /\ schema.lock = M!Free
      /\ schema' = IF M!onward(read) = "done" THEN schema ELSE [schema EXCEPT !.lock = m]
  BY DEF M!Lock
<1> HIDE DEF p, read
<1>6. CASE M!isCurrent(schema)
  BY <1>3, <1>4, <1>5, <1>6, MigratorMoves
<1>7. CASE ~M!isCurrent(schema)
  <2>1. /\ schema' \in SchemaState /\ schema'.lock = m
        /\ schema'.applied = schema.applied /\ schema'.effect = schema.effect
    BY <1>1, <1>3, <1>5, <1>7 DEF SchemaState
  <2>2. \A x \in Migrators : migrator[x].at \notin {"applying", "committing"}
    BY <1>5, ProcessAssumption DEF SchemaInv, M!Free
  <2>3. migrator' \in [Migrators -> MigratorState] /\ M!AppliedInOrder'
    BY <1>3, <1>4, <1>5, <1>7, <2>1 DEF SchemaInv, M!AppliedInOrder, M!isCurrent
  <2>4. ~M!isCurrent(schema)'
    BY <1>7, <2>1 DEF M!isCurrent
  <2> QED BY <1>4, <1>5, <2>1, <2>2, <2>3, <2>4 DEF SchemaInv
<1> QED BY <1>5, <1>6, <1>7

\* A COMMIT, answered or not.
LEMMA Commits ==
    ASSUME SchemaInv, NEW m \in Migrators, migrator[m].at = "committing",
           NEW p \in MigratorState, migrator' = [migrator EXCEPT ![m] = p],
           NEW s, s = M!committed(schema, M!nextFile(migrator[m])),
           \/ schema' = s /\ p.at = "applying" /\ p.applied = s.applied /\ ~M!isCurrent(s)
           \/ schema' = M!unlocked(s, m) /\ p.at = "done" /\ M!isCurrent(s)
           \/ schema' = M!unlocked(s, m) /\ p.at = "failed"
    PROVE  SchemaInv' /\ schema.applied \subseteq schema'.applied
<1>1. /\ s \in SchemaState /\ s.lock = m
      /\ schema.applied \subseteq s.applied
      /\ \E n \in 0 .. Files : s.applied = 1 .. n
      /\ \A g \in M!Versions : s.effect[g] = IF g \in s.applied THEN 1 ELSE 0
  BY Committed
<1>2. /\ schema' \in SchemaState
      /\ schema'.applied = s.applied /\ schema'.effect = s.effect
      /\ p.at = "applying" => schema'.lock = m
  BY <1>1 DEF SchemaState, M!unlocked
<1>3. M!isCurrent(schema) => M!isCurrent(schema')
  BY <1>1, <1>2 DEF M!isCurrent
<1>4. M!isCurrent(s) <=> M!isCurrent(schema')
  BY <1>2 DEF M!isCurrent
<1>5. \A x \in Migrators \ {m} : migrator[x].at \notin {"applying", "committing"}
  BY DEF SchemaInv
<1>6. migrator' \in [Migrators -> MigratorState]
  BY DEF SchemaInv
<1>7. M!AppliedInOrder'
  <2>1. \A x \in Migrators : migrator'[x].at = "done" => M!isCurrent(schema')
    BY <1>3, <1>4 DEF SchemaInv, M!AppliedInOrder
  <2> QED BY <1>1, <1>2, <2>1 DEF M!AppliedInOrder, M!isCurrent
<1>8. \A x \in Migrators : migrator'[x].at \in {"applying", "committing"} =>
        x = m /\ p.at = "applying"
  BY <1>5 DEF SchemaInv
<1> QED BY <1>1, <1>2, <1>4, <1>6, <1>7, <1>8 DEF SchemaInv, M!isCurrent

\* Whatever a migrating process does, the files stay in order, and none is taken back.
LEMMA SchemaStep ==
    ASSUME SchemaInv, NEW m \in Migrators,
           M!Begin(m) \/ M!Lock(m) \/ M!Apply(m) \/ M!Commit(m) \/ M!Fail(m) \/ M!Lose(m)
           \/ M!Again(m)
    PROVE  SchemaInv' /\ schema.applied \subseteq schema'.applied
<1>1. CASE M!Begin(m) \/ M!Apply(m) \/ M!Again(m)
  BY <1>1, Begins
<1>2. CASE M!Lock(m)
  BY <1>2, Locks
<1>3. CASE M!Commit(m)
  <2> DEFINE f == M!nextFile(migrator[m])
             q == [migrator[m] EXCEPT !.applied = @ \cup {f}]
             p == [q EXCEPT !.at = M!onward(q)]
             s == M!committed(schema, f)
  <2>1. migrator[m].at = "committing" /\ migrator[m] \in MigratorState
    BY <1>3 DEF SchemaInv, M!Commit
  <2>2. /\ s \in SchemaState /\ s.applied = schema.applied \cup {f}
        /\ migrator[m].applied = schema.applied
    BY <2>1, Committed DEF SchemaInv
  <2> HIDE DEF f, s
  <2>3. q.applied = s.applied /\ q \in MigratorState
    BY <2>1, <2>2 DEF MigratorState, SchemaState
  <2> HIDE DEF q
  <2>4. M!onward(q) = IF M!isCurrent(s) THEN "done" ELSE "applying"
    BY <2>2, <2>3 DEF M!onward, M!pendingFiles, M!isCurrent, SchemaState
  <2>5. p \in MigratorState /\ p.at = M!onward(q) /\ p.applied = s.applied
    BY <2>3, <2>4 DEF MigratorState
  <2>6. /\ migrator' = [migrator EXCEPT ![m] = p]
        /\ schema' = IF M!onward(q) = "done" THEN M!unlocked(s, m) ELSE s
    BY <1>3 DEF M!Commit, p, q, f, s
  <2> HIDE DEF p
  <2> QED BY <2>1, <2>4, <2>5, <2>6, Commits DEF s, f
<1>4. CASE M!Fail(m)
  BY <1>4, LockReturned DEF M!Fail
<1>5. CASE M!Lose(m)
  <2>1. CASE schema' = M!unlocked(schema, m)
    BY <1>5, <2>1, LockReturned DEF M!Lose
  <2>2. CASE /\ migrator[m].at = "committing"
             /\ schema' = M!unlocked(M!committed(schema, M!nextFile(migrator[m])), m)
    <3>1. /\ [M!newMigrator EXCEPT !.at = "failed"] \in MigratorState
          /\ [M!newMigrator EXCEPT !.at = "failed"].at = "failed"
      BY DEF MigratorState, M!newMigrator
    <3>2. migrator' = [migrator EXCEPT ![m] = [M!newMigrator EXCEPT !.at = "failed"]]
      BY <1>5 DEF M!Lose
    <3> QED BY <2>2, <3>1, <3>2, Commits
  <2> QED BY <1>5, <2>1, <2>2 DEF M!Lose
<1> QED BY <1>1, <1>2, <1>3, <1>4, <1>5

-----------------------------------------------------------------------------

(* The recorder.                                                             *)

RecorderState ==
    [pending : SUBSET R!Records, queue : Seq(R!Records), activeWrites : Nat,
     attempt : [R!Records -> 0 .. R!RETRIES],
     inserting : SUBSET R!Records, delayed : SUBSET R!Records]

queuedOf(rec) == {rec.queue[i] : i \in DOMAIN rec.queue}
activeOf(rec) == rec.inserting \cup rec.delayed

\* Each admitted match is in one place, once, and the writers are counted.
WritersSound(rec) ==
    /\ rec \in RecorderState
    /\ \A i, j \in DOMAIN rec.queue : rec.queue[i] = rec.queue[j] => i = j
    /\ rec.pending = queuedOf(rec) \cup activeOf(rec)
    /\ queuedOf(rec) \cap activeOf(rec) = {}
    /\ rec.inserting \cap rec.delayed = {}
    /\ Cardinality(activeOf(rec)) = rec.activeWrites
    /\ rec.activeWrites <= MaxConcurrentWrites

NoneIdle(rec) == rec.queue # <<>> => rec.activeWrites = MaxConcurrentWrites

\* Recorder counts as Process does.
LEMMA SameCardinality == \A S : R!Cardinality(S) = Cardinality(S)
BY DEF R!Cardinality, Cardinality

\* Every set of matches is finite.
LEMMA RecordsFinite ==
    /\ IsFiniteSet(R!Records) /\ R!Records \subseteq Nat
    /\ \A S \in SUBSET R!Records : IsFiniteSet(S) /\ Cardinality(S) \in Nat
<1>1. IsFiniteSet(R!Records)
  BY ProcessAssumption, FS_Interval DEF R!Records
<1>2. R!Records \subseteq Nat
  BY ProcessAssumption DEF R!Records
<1>3. ASSUME NEW S \in SUBSET R!Records
      PROVE  IsFiniteSet(S) /\ Cardinality(S) \in Nat
  <2>1. IsFiniteSet(S)
    BY <1>1, FS_Subset
  <2> QED BY <2>1, FS_CardinalityType
<1> QED BY <1>1, <1>2, <1>3

\* As many different matches leave the queue as a call of drain() starts.
LEMMA FirstOfQueue ==
    ASSUME NEW q \in Seq(R!Records), NEW n \in 0 .. Len(q),
           \A i, j \in DOMAIN q : q[i] = q[j] => i = j
    PROVE  Cardinality({q[i] : i \in 1 .. n}) = n
<1> DEFINE S == {q[i] : i \in 1 .. n}
           f == [i \in 1 .. n |-> q[i]]
<1>1. DOMAIN q = 1 .. Len(q) /\ n \in Nat /\ 1 .. n \subseteq DOMAIN q
  OBVIOUS
<1>2. f \in [1 .. n -> S]
  OBVIOUS
<1>3. \A i, j \in 1 .. n : f[i] = f[j] => i = j
  BY <1>1
<1>4. \A x \in S : \E i \in 1 .. n : f[i] = x
  OBVIOUS
<1> HIDE DEF f, S
<1>5. f \in Bijection(1 .. n, S)
  BY <1>2, <1>3, <1>4 DEF Bijection, Injection, Surjection, IsInjective
<1>6. ExistsBijection(1 .. n, S)
  BY <1>5 DEF ExistsBijection
<1> QED BY <1>1, <1>6, FS_CountingElements DEF S

\* drain() moves matches from the queue to idle writers until one of them runs out.
LEMMA Drained ==
    ASSUME NEW rec, WritersSound(rec)
    PROVE  LET d == R!drain(rec)
           IN  /\ WritersSound(d) /\ NoneIdle(d)
               /\ d.pending = rec.pending /\ d.attempt = rec.attempt
<1> DEFINE n == R!started(rec)
           first == {rec.queue[i] : i \in 1 .. n}
           rest == SubSeq(rec.queue, n + 1, Len(rec.queue))
           d == R!drain(rec)
<1>1. /\ rec \in RecorderState /\ rec.queue \in Seq(R!Records) /\ Len(rec.queue) \in Nat
      /\ MaxConcurrentWrites \in Nat /\ rec.activeWrites \in Nat
      /\ rec.activeWrites <= MaxConcurrentWrites
  BY ProcessAssumption DEF WritersSound, RecorderState
<1>2. /\ n \in 0 .. Len(rec.queue)
      /\ n = Len(rec.queue) \/ n = MaxConcurrentWrites - rec.activeWrites
      /\ n <= MaxConcurrentWrites - rec.activeWrites
  BY <1>1 DEF R!started
<1> HIDE DEF n
<1>3. /\ rest \in Seq(R!Records) /\ Len(rest) = Len(rec.queue) - n
      /\ \A i \in 1 .. Len(rest) : rest[i] = rec.queue[n + i]
  BY <1>1, <1>2
<1>4. first \subseteq R!Records /\ first \subseteq queuedOf(rec) /\ Cardinality(first) = n
  BY <1>1, <1>2, FirstOfQueue DEF WritersSound, queuedOf
<1>5. /\ d.queue = rest /\ d.activeWrites = rec.activeWrites + n
      /\ d.inserting = rec.inserting \cup first /\ d.delayed = rec.delayed
      /\ d.pending = rec.pending /\ d.attempt = rec.attempt
      /\ d \in RecorderState
  <2>1. d = [rec EXCEPT !.queue = rest, !.activeWrites = rec.activeWrites + n,
                        !.inserting = rec.inserting \cup first]
    BY DEF R!drain, n
  <2> HIDE DEF d, rest, first
  <2>2. /\ rec.inserting \cup first \in SUBSET R!Records
        /\ rec.activeWrites + n \in Nat /\ rest \in Seq(R!Records)
    BY <1>1, <1>2, <1>3, <1>4 DEF RecorderState
  <2>3. /\ d.queue = rest /\ d.activeWrites = rec.activeWrites + n
        /\ d.inserting = rec.inserting \cup first /\ d.delayed = rec.delayed
        /\ d.pending = rec.pending /\ d.attempt = rec.attempt
    BY <1>1, <2>1 DEF RecorderState
  <2>4. d \in RecorderState
    BY <1>1, <2>1, <2>2 DEF RecorderState
  <2> QED BY <2>3, <2>4
<1> HIDE DEF d, rest
<1>6. queuedOf(rec) = first \cup queuedOf(d) /\ first \cap queuedOf(d) = {}
  <2>1. queuedOf(d) = {rec.queue[n + i] : i \in 1 .. Len(rec.queue) - n}
    <3>1. DOMAIN rest = 1 .. Len(rec.queue) - n
      BY <1>3
    <3> QED BY <1>3, <1>5, <3>1 DEF queuedOf
  <2>2. DOMAIN rec.queue = 1 .. Len(rec.queue)
    BY <1>1
  <2>3. \A i \in 1 .. Len(rec.queue) : i \in 1 .. n \/ i - n \in 1 .. Len(rec.queue) - n
    BY <1>1, <1>2
  <2>4. \A i \in 1 .. Len(rec.queue) - n : n + i \in 1 .. Len(rec.queue) /\ n + i \notin 1 .. n
    BY <1>1, <1>2
  <2>5. \A i \in 1 .. Len(rec.queue) : i - n \in Int /\ n + (i - n) = i
    BY <1>1, <1>2
  <2>6. 1 .. n \subseteq 1 .. Len(rec.queue)
    BY <1>1, <1>2
  <2>7. \A i, j \in 1 .. Len(rec.queue) : rec.queue[i] = rec.queue[j] => i = j
    BY <2>2 DEF WritersSound
  <2>8. queuedOf(rec) = {rec.queue[i] : i \in 1 .. Len(rec.queue)}
    BY <2>2 DEF queuedOf
  <2>9. queuedOf(rec) \subseteq first \cup queuedOf(d)
    <3> SUFFICES ASSUME NEW i \in 1 .. Len(rec.queue)
                 PROVE  rec.queue[i] \in first \cup queuedOf(d)
      BY <2>8
    <3>1. CASE i \in 1 .. n
      BY <3>1
    <3>2. CASE i - n \in 1 .. Len(rec.queue) - n
      <4>1. rec.queue[n + (i - n)] \in queuedOf(d)
        BY <2>1, <3>2
      <4> QED BY <2>5, <4>1
    <3> QED BY <2>3, <3>1, <3>2
  <2>10. first \cup queuedOf(d) \subseteq queuedOf(rec)
    BY <2>1, <2>4, <2>6, <2>8
  <2>11. ASSUME NEW x \in first, x \in queuedOf(d)
         PROVE  FALSE
    <3>1. PICK i \in 1 .. n : x = rec.queue[i]
      OBVIOUS
    <3>2. PICK j \in 1 .. Len(rec.queue) - n : x = rec.queue[n + j]
      BY <2>1, <2>11
    <3> QED BY <2>4, <2>6, <2>7, <3>1, <3>2
  <2> QED BY <2>9, <2>10, <2>11
<1>7. \A i, j \in DOMAIN d.queue : d.queue[i] = d.queue[j] => i = j
  <2>1. DOMAIN rest = 1 .. Len(rec.queue) - n /\ DOMAIN rec.queue = 1 .. Len(rec.queue)
    BY <1>1, <1>3
  <2>2. \A i \in 1 .. Len(rec.queue) - n : n + i \in 1 .. Len(rec.queue)
    BY <1>1, <1>2
  <2>3. \A i, j \in 1 .. Len(rec.queue) - n : n + i = n + j => i = j
    BY <1>1, <1>2
  <2>4. \A i \in 1 .. Len(rec.queue) - n : rest[i] = rec.queue[n + i]
    BY <1>3
  <2>5. \A i, j \in 1 .. Len(rec.queue) : rec.queue[i] = rec.queue[j] => i = j
    BY <2>1 DEF WritersSound
  <2> SUFFICES ASSUME NEW i \in 1 .. Len(rec.queue) - n, NEW j \in 1 .. Len(rec.queue) - n,
                      rest[i] = rest[j]
               PROVE  i = j
    BY <1>5, <2>1
  <2> QED BY <2>2, <2>3, <2>4, <2>5
<1>8. activeOf(d) = activeOf(rec) \cup first /\ activeOf(rec) \cap first = {}
  BY <1>4, <1>5 DEF activeOf, WritersSound
<1>9. Cardinality(activeOf(d)) = d.activeWrites
  <2>1. activeOf(rec) \subseteq R!Records
    BY <1>1 DEF activeOf, RecorderState
  <2>2. IsFiniteSet(activeOf(rec)) /\ IsFiniteSet(first)
    BY <1>4, <2>1, RecordsFinite
  <2>3. Cardinality(activeOf(d)) = Cardinality(activeOf(rec)) + Cardinality(first) - Cardinality({})
    BY <1>8, <2>2, FS_Union
  <2> QED BY <1>1, <1>2, <1>4, <1>5, <2>3, FS_EmptySet DEF WritersSound
<1>10. NoneIdle(d)
  <2>1. n = Len(rec.queue) => Len(rest) = 0
    BY <1>1, <1>3
  <2>2. Len(rest) = 0 => rest = <<>>
    BY <1>3
  <2> QED BY <1>1, <1>2, <1>5, <2>1, <2>2 DEF NoneIdle
<1>11. /\ d.pending = queuedOf(d) \cup activeOf(d) /\ queuedOf(d) \cap activeOf(d) = {}
       /\ d.inserting \cap d.delayed = {}
  <2>1. /\ rec.pending = queuedOf(rec) \cup activeOf(rec)
        /\ queuedOf(rec) \cap activeOf(rec) = {}
        /\ rec.inserting \cap rec.delayed = {} /\ rec.delayed \subseteq activeOf(rec)
    BY DEF WritersSound, activeOf
  <2> QED BY <1>4, <1>5, <1>6, <1>8, <2>1
<1>12. d.activeWrites <= MaxConcurrentWrites
  BY <1>1, <1>2, <1>5
<1> QED BY <1>5, <1>7, <1>9, <1>10, <1>11, <1>12 DEF WritersSound, d

\* A match that is admitted is queued, and drained with the others.
LEMMA Admitted ==
    ASSUME NEW rec, WritersSound(rec), NEW r \in R!Records \ rec.pending
    PROVE  LET a == R!admitted(rec, r)
           IN  /\ WritersSound(a) /\ NoneIdle(a)
               /\ a.pending = rec.pending \cup {r} /\ a.attempt = rec.attempt
<1> DEFINE q == Append(rec.queue, r)
           b == [rec EXCEPT !.pending = rec.pending \cup {r}, !.queue = q]
<1>1. /\ rec \in RecorderState /\ rec.queue \in Seq(R!Records) /\ Len(rec.queue) \in Nat
      /\ DOMAIN rec.queue = 1 .. Len(rec.queue)
  BY DEF WritersSound, RecorderState
<1>2. /\ q \in Seq(R!Records) /\ DOMAIN q = 1 .. Len(rec.queue) + 1
      /\ q[Len(rec.queue) + 1] = r
      /\ \A i \in 1 .. Len(rec.queue) : q[i] = rec.queue[i]
  BY <1>1
<1>3. /\ b.queue = q /\ b.activeWrites = rec.activeWrites /\ b.attempt = rec.attempt
      /\ b.inserting = rec.inserting /\ b.delayed = rec.delayed
      /\ b.pending = rec.pending \cup {r} /\ b \in RecorderState
  <2> HIDE DEF q
  <2>1. rec.pending \cup {r} \in SUBSET R!Records
    BY <1>1 DEF RecorderState
  <2> QED BY <1>1, <1>2, <2>1 DEF RecorderState
<1>4. R!admitted(rec, r) = R!drain(b)
  BY DEF R!admitted
<1> HIDE DEF q, b
<1>5. 1 .. Len(rec.queue) + 1 = 1 .. Len(rec.queue) \cup {Len(rec.queue) + 1}
  BY <1>1
<1>6. queuedOf(b) = queuedOf(rec) \cup {r}
  BY <1>1, <1>2, <1>3, <1>5 DEF queuedOf
<1>7. r \notin queuedOf(rec) /\ r \notin activeOf(rec)
  BY DEF WritersSound
<1>8. \A i, j \in DOMAIN b.queue : b.queue[i] = b.queue[j] => i = j
  <2>1. \A i \in 1 .. Len(rec.queue) : q[i] # r
    BY <1>1, <1>2, <1>7 DEF queuedOf
  <2>2. \A i, j \in 1 .. Len(rec.queue) : q[i] = q[j] => i = j
    BY <1>1, <1>2 DEF WritersSound
  <2> QED BY <1>2, <1>3, <1>5, <2>1, <2>2
<1>9. activeOf(b) = activeOf(rec)
  BY <1>3 DEF activeOf
<1>10. WritersSound(b)
  BY <1>3, <1>6, <1>7, <1>8, <1>9 DEF WritersSound
<1> QED BY <1>3, <1>4, <1>10, Drained

\* A write that is over leaves its place and frees its writer for the queue.
LEMMA Settled ==
    ASSUME NEW rec, WritersSound(rec), NEW r \in rec.inserting
    PROVE  LET s == R!settled(rec, r)
           IN  /\ WritersSound(s) /\ NoneIdle(s)
               /\ s.pending = rec.pending \ {r} /\ s.attempt = rec.attempt
<1> DEFINE b == [rec EXCEPT !.activeWrites = rec.activeWrites - 1,
                            !.pending = rec.pending \ {r},
                            !.inserting = rec.inserting \ {r}]
<1>1. /\ rec \in RecorderState /\ rec.activeWrites \in Nat /\ MaxConcurrentWrites \in Nat
      /\ activeOf(rec) \subseteq R!Records /\ r \in activeOf(rec)
  BY ProcessAssumption DEF WritersSound, RecorderState, activeOf
<1>2. Cardinality(activeOf(rec) \ {r}) = rec.activeWrites - 1 /\ rec.activeWrites - 1 \in Nat
  <2>1. IsFiniteSet(activeOf(rec)) /\ IsFiniteSet(activeOf(rec) \ {r})
    BY <1>1, RecordsFinite
  <2>2. Cardinality(activeOf(rec) \ {r}) \in Nat
    BY <2>1, FS_CardinalityType
  <2> QED BY <1>1, <2>1, <2>2, FS_RemoveElement DEF WritersSound
<1>3. /\ b.queue = rec.queue /\ b.activeWrites = rec.activeWrites - 1
      /\ b.attempt = rec.attempt /\ b.delayed = rec.delayed
      /\ b.inserting = rec.inserting \ {r}
      /\ b.pending = rec.pending \ {r} /\ b \in RecorderState
  <2>1. rec.pending \ {r} \in SUBSET R!Records /\ rec.inserting \ {r} \in SUBSET R!Records
    BY <1>1 DEF RecorderState
  <2> QED BY <1>1, <1>2, <2>1 DEF RecorderState
<1>4. R!settled(rec, r) = R!drain(b)
  BY DEF R!settled
<1> HIDE DEF b
<1>5. queuedOf(b) = queuedOf(rec) /\ activeOf(b) = activeOf(rec) \ {r}
  BY <1>3 DEF queuedOf, activeOf, WritersSound
<1>6. WritersSound(b)
  BY <1>1, <1>2, <1>3, <1>5 DEF WritersSound
<1> QED BY <1>3, <1>4, <1>6, Drained

\* The wait between two attempts keeps its writer.
LEMMA Waits ==
    ASSUME NEW rec, WritersSound(rec), NoneIdle(rec), NEW w \in RecorderState,
           w.queue = rec.queue, w.activeWrites = rec.activeWrites,
           w.pending = rec.pending,
           activeOf(w) = activeOf(rec), w.inserting \cap w.delayed = {}
    PROVE  WritersSound(w) /\ NoneIdle(w)
<1>1. queuedOf(w) = queuedOf(rec)
  BY DEF queuedOf
<1> QED BY <1>1 DEF WritersSound, NoneIdle

\* The ledger of one match.  A match that was refused has had no attempt; one that is
\* pending has failed as often as it was tried again, and is not reported.
Traced(r) ==
    /\ r <= handed => r \in recorder.pending \cup stored \cup reported
    /\ r > handed => /\ recorder.attempt[r] = 0 /\ failures[r] = 0
                     /\ r \notin recorder.pending /\ r \notin reported
    /\ r \in recorder.pending => failures[r] = recorder.attempt[r] /\ r \notin reported
    /\ r \in reported /\ recorder.attempt[r] > 0 => failures[r] = R!RETRIES + 1

RecorderInv ==
    /\ handed \in 0 .. Matches
    /\ WritersSound(recorder) /\ NoneIdle(recorder)
    /\ Cardinality(recorder.pending) <= MaxPendingWrites
    /\ failures \in [R!Records -> Nat]
    /\ \A r \in R!Records : Traced(r)

\* A match that finishes is admitted below the limit, and reported at it.
LEMMA RecordKeeps ==
    ASSUME RecorderInv, R!Record
    PROVE  RecorderInv'
<1> DEFINE r == handed + 1
<1>1. /\ handed \in 0 .. Matches /\ handed < Matches /\ handed' = r /\ Matches \in Nat
      /\ WritersSound(recorder) /\ NoneIdle(recorder)
      /\ UNCHANGED <<stored, failures>> /\ MaxPendingWrites \in Nat
  BY ProcessAssumption DEF RecorderInv, R!Record, R!database
<1>2. r \in R!Records /\ r > handed /\ r \in 0 .. Matches
  BY <1>1 DEF R!Records
<1>3. /\ r \notin recorder.pending /\ r \notin reported
      /\ recorder.attempt[r] = 0 /\ failures[r] = 0
  BY <1>2 DEF RecorderInv, Traced
<1>4. \A x \in R!Records : (x <= r <=> x <= handed \/ x = r) /\ (x > r => x > handed /\ x # r)
  BY <1>1 DEF R!Records
<1> HIDE DEF r
<1>5. \A x \in R!Records : Traced(x)
  BY DEF RecorderInv
<1>6. CASE R!hasCapacity(recorder)
  <2>1. recorder' = R!admitted(recorder, r) /\ reported' = reported
    BY <1>6 DEF R!Record, r
  <2>2. /\ WritersSound(recorder') /\ NoneIdle(recorder')
        /\ recorder'.pending = recorder.pending \cup {r}
        /\ recorder'.attempt = recorder.attempt
    BY <1>1, <1>2, <1>3, <2>1, Admitted
  <2>3. Cardinality(recorder'.pending) <= MaxPendingWrites
    <3>1. recorder.pending \in SUBSET R!Records
      BY <1>1 DEF WritersSound, RecorderState
    <3>2. IsFiniteSet(recorder.pending) /\ Cardinality(recorder.pending) \in Nat
      BY <3>1, RecordsFinite
    <3>3. Cardinality(recorder'.pending) = Cardinality(recorder.pending) + 1
      BY <1>3, <2>2, <3>2, FS_AddElement
    <3> QED BY <1>1, <1>6, <3>2, <3>3, SameCardinality DEF R!hasCapacity
  <2>4. ASSUME NEW x \in R!Records PROVE Traced(x)'
    <3>1. CASE x = r
      BY <1>1, <1>2, <1>3, <2>1, <2>2, <3>1 DEF Traced
    <3>2. CASE x # r
      <4>1. (x <= r <=> x <= handed) /\ (x > r => x > handed) /\ Traced(x)
        BY <1>4, <1>5, <3>2
      <4> QED BY <1>1, <2>1, <2>2, <3>2, <4>1 DEF Traced
    <3> QED BY <3>1, <3>2
  <2> QED BY <1>1, <1>2, <2>2, <2>3, <2>4 DEF RecorderInv
<1>7. CASE ~R!hasCapacity(recorder)
  <2>1. recorder' = recorder /\ reported' = reported \cup {r}
    BY <1>7 DEF R!Record, r
  <2>2. ASSUME NEW x \in R!Records PROVE Traced(x)'
    <3>1. CASE x = r
      BY <1>1, <1>2, <1>3, <2>1, <3>1 DEF Traced
    <3>2. CASE x # r
      <4>1. (x <= r <=> x <= handed) /\ (x > r => x > handed) /\ Traced(x)
        BY <1>4, <1>5, <3>2
      <4> QED BY <1>1, <2>1, <3>2, <4>1 DEF Traced
    <3> QED BY <3>1, <3>2
  <2> QED BY <1>1, <1>2, <2>1, <2>2 DEF RecorderInv, WritersSound, NoneIdle
<1> QED BY <1>6, <1>7

\* A write succeeds only if its match is pending, and then its match is stored.
LEMMA WriteOver ==
    ASSUME RecorderInv, NEW r \in recorder.inserting,
           recorder' = R!settled(recorder, r), UNCHANGED handed,
           stored \subseteq stored', stored' \subseteq stored \cup {r},
           \/ r \in stored' /\ UNCHANGED <<reported, failures>>
           \/ /\ reported' = reported \cup {r}
              /\ failures' = [failures EXCEPT ![r] = @ + 1]
              /\ recorder.attempt[r] = R!RETRIES
    PROVE  RecorderInv' /\ recorder'.pending \subseteq recorder.pending
<1>1. /\ WritersSound(recorder) /\ r \in recorder.pending /\ r \in R!Records
      /\ recorder.pending \in SUBSET R!Records
  BY DEF RecorderInv, WritersSound, RecorderState, activeOf
<1>2. /\ WritersSound(recorder') /\ NoneIdle(recorder')
      /\ recorder'.pending = recorder.pending \ {r}
      /\ recorder'.attempt = recorder.attempt
  BY <1>1, Settled
<1>3. Cardinality(recorder'.pending) <= MaxPendingWrites
  <2>1. Cardinality(recorder'.pending) <= Cardinality(recorder.pending)
    BY <1>1, <1>2, RecordsFinite, FS_Subset
  <2>2. Cardinality(recorder'.pending) \in Nat /\ Cardinality(recorder.pending) \in Nat
    BY <1>1, <1>2, RecordsFinite
  <2> QED BY <2>1, <2>2, ProcessAssumption DEF RecorderInv
<1>4. failures' \in [R!Records -> Nat] /\ \A x \in R!Records \ {r} : failures'[x] = failures[x]
  BY <1>1 DEF RecorderInv
<1>5. \A x \in R!Records \ {r} : Traced(x)'
  BY <1>2, <1>4 DEF RecorderInv, Traced
<1>6. Traced(r)'
  <2>1. Traced(r) /\ failures[r] = recorder.attempt[r] /\ r \notin reported /\ r <= handed
    BY <1>1 DEF RecorderInv, Traced, R!Records
  <2>2. CASE r \in stored' /\ UNCHANGED <<reported, failures>>
    BY <1>1, <1>2, <2>1, <2>2 DEF Traced
  <2>3. CASE /\ reported' = reported \cup {r}
             /\ failures' = [failures EXCEPT ![r] = @ + 1]
             /\ recorder.attempt[r] = R!RETRIES
    <3>1. failures'[r] = R!RETRIES + 1
      BY <1>1, <2>1, <2>3 DEF RecorderInv
    <3> QED BY <1>1, <1>2, <2>1, <2>3, <3>1 DEF Traced
  <2> QED BY <2>2, <2>3
<1> QED BY <1>1, <1>2, <1>3, <1>4, <1>5, <1>6 DEF RecorderInv

\* A failed attempt is counted, and its match waits for another one or is reported.
LEMMA AttemptFails ==
    ASSUME RecorderInv, NEW r \in recorder.inserting, R!Retry(r), UNCHANGED stored,
           failures' = [failures EXCEPT ![r] = @ + 1]
    PROVE  RecorderInv' /\ recorder'.pending \subseteq recorder.pending
<1>1. /\ WritersSound(recorder) /\ NoneIdle(recorder)
      /\ r \in recorder.pending /\ r \in R!Records
      /\ recorder.attempt \in [R!Records -> 0 .. R!RETRIES]
      /\ UNCHANGED handed
  BY DEF RecorderInv, WritersSound, RecorderState, activeOf, R!Retry
<1>2. CASE recorder.attempt[r] < R!RETRIES
  <2> DEFINE w == [recorder EXCEPT !.inserting = recorder.inserting \ {r},
                        !.delayed = recorder.delayed \cup {r},
                        !.attempt = [recorder.attempt EXCEPT ![r] = recorder.attempt[r] + 1]]
  <2>1. recorder' = w /\ UNCHANGED reported
    BY <1>2 DEF R!Retry
  <2>2. /\ recorder'.attempt = [recorder.attempt EXCEPT ![r] = recorder.attempt[r] + 1]
        /\ recorder'.attempt \in [R!Records -> 0 .. R!RETRIES]
    BY <1>1, <1>2, <2>1 DEF WritersSound, RecorderState, R!RETRIES
  <2>3. WritersSound(w) /\ NoneIdle(w) /\ w.pending = recorder.pending
    <3>1. recorder \in RecorderState /\ recorder.inserting \cap recorder.delayed = {}
      BY <1>1 DEF WritersSound
    <3>2. /\ w.queue = recorder.queue /\ w.activeWrites = recorder.activeWrites
          /\ w.pending = recorder.pending
          /\ w.inserting = recorder.inserting \ {r} /\ w.delayed = recorder.delayed \cup {r}
      BY <3>1 DEF RecorderState
    <3>3. w \in RecorderState
      <4>1. /\ recorder.inserting \ {r} \in SUBSET R!Records
            /\ recorder.delayed \cup {r} \in SUBSET R!Records
        BY <1>1, <3>1 DEF RecorderState
      <4> QED BY <2>1, <2>2, <3>1, <4>1 DEF RecorderState
    <3> HIDE DEF w
    <3>4. activeOf(w) = activeOf(recorder) /\ w.inserting \cap w.delayed = {}
      BY <3>1, <3>2 DEF activeOf
    <3> QED BY <1>1, <3>2, <3>3, <3>4, Waits
  <2> HIDE DEF w
  <2>4. failures' \in [R!Records -> Nat] /\ failures \in [R!Records -> Nat]
    BY <1>1 DEF RecorderInv
  <2>5. \A x \in R!Records : Traced(x)'
    <3> SUFFICES ASSUME NEW x \in R!Records
                 PROVE  Traced(x)'
      OBVIOUS
    <3>1. Traced(x) /\ Traced(r)
      BY <1>1 DEF RecorderInv
    <3>2. x # r => recorder'.attempt[x] = recorder.attempt[x] /\ failures'[x] = failures[x]
      BY <1>1, <2>2, <2>4
    <3>3. /\ recorder'.attempt[r] = recorder.attempt[r] + 1 /\ failures'[r] = failures[r] + 1
          /\ failures[r] = recorder.attempt[r] /\ r \notin reported /\ ~(r > handed)
      BY <1>1, <2>2, <2>4, <3>1 DEF Traced
    <3> QED BY <1>1, <2>1, <2>3, <3>1, <3>2, <3>3 DEF Traced
  <2> QED BY <1>1, <2>1, <2>3, <2>4, <2>5 DEF RecorderInv
<1>3. CASE ~(recorder.attempt[r] < R!RETRIES)
  <2>1. recorder.attempt[r] = R!RETRIES
    BY <1>1, <1>3 DEF R!RETRIES
  <2>2. recorder' = R!settled(recorder, r) /\ reported' = reported \cup {r}
    BY <1>3 DEF R!Retry
  <2> QED BY <1>1, <2>1, <2>2, WriteOver
<1> QED BY <1>2, <1>3

\* Whatever the database does with a write, the ledger and the writers stay right, and
\* nothing is pending that was not.
LEMMA WriterStep ==
    ASSUME RecorderInv, NEW r \in R!Records,
           R!Insert(r) \/ R!InsertFails(r) \/ R!AnswerLost(r) \/ R!DelayOver(r) \/ R!Settle(r)
    PROVE  RecorderInv' /\ recorder'.pending \subseteq recorder.pending
<1>1. CASE R!Insert(r)
  <2>1. recorder' = R!settled(recorder, r) /\ UNCHANGED <<handed, reported>>
    BY <1>1 DEF R!Insert, R!keyViolated, R!insertsParticipants, R!Succeed
  <2> QED BY <1>1, <2>1, WriteOver DEF R!Insert
<1>2. CASE R!InsertFails(r)
  BY <1>2, AttemptFails DEF R!InsertFails
<1>3. CASE R!AnswerLost(r)
  BY <1>3, AttemptFails DEF R!AnswerLost
<1>4. CASE R!DelayOver(r)
  <2> DEFINE w == [recorder EXCEPT !.delayed = recorder.delayed \ {r},
                                   !.inserting = recorder.inserting \cup {r}]
  <2>1. /\ recorder' = w /\ r \in recorder.delayed
        /\ UNCHANGED <<handed, reported, stored, failures>>
    BY <1>4 DEF R!DelayOver, R!database
  <2>2. recorder'.attempt = recorder.attempt
    BY <2>1 DEF RecorderInv, WritersSound, RecorderState
  <2> HIDE DEF w
  <2>3. WritersSound(recorder') /\ NoneIdle(recorder') /\ recorder'.pending = recorder.pending
    <3>1. /\ recorder \in RecorderState /\ recorder.inserting \cap recorder.delayed = {}
          /\ WritersSound(recorder) /\ NoneIdle(recorder)
      BY DEF RecorderInv, WritersSound
    <3>2. /\ w.queue = recorder.queue /\ w.activeWrites = recorder.activeWrites
          /\ w.pending = recorder.pending /\ w \in RecorderState
          /\ w.inserting = recorder.inserting \cup {r} /\ w.delayed = recorder.delayed \ {r}
      BY <3>1 DEF RecorderState, w
    <3>3. activeOf(w) = activeOf(recorder) /\ w.inserting \cap w.delayed = {}
      BY <2>1, <3>1, <3>2 DEF activeOf
    <3> QED BY <2>1, <3>1, <3>2, <3>3, Waits
  <2>4. \A x \in R!Records : Traced(x)'
    BY <2>1, <2>2, <2>3 DEF RecorderInv, Traced
  <2> QED BY <2>1, <2>3, <2>4 DEF RecorderInv
<1>5. CASE R!Settle(r)
  <2>1. /\ UNCHANGED <<handed, recorder, reported, failures>>
        /\ stored \subseteq stored'
    BY <1>5 DEF R!Settle
  <2>2. \A x \in R!Records : Traced(x)'
    BY <2>1 DEF RecorderInv, Traced
  <2> QED BY <2>1, <2>2 DEF RecorderInv
<1> QED BY <1>1, <1>2, <1>3, <1>4, <1>5

-----------------------------------------------------------------------------

(* The life of the server and its connections.                               *)

Standings == {"admin", "player", "revoked", "renamed"}

ConnState ==
    [phase : {"none", "lookup", "destroyed", "open", "closing", "closed"},
     account : BOOLEAN, role : Standings, peer : BOOLEAN, alive : BOOLEAN]

LifeState ==
    [startup : {"checking", "checkFailed", "returned", "binding", "running", "bindFailed"},
     stopping : BOOLEAN,
     shutdown : {"none", "waiting", "closing", "failed", "ending", "done"},
     pool : {"none", "open", "ended"}]

AppState == [created : BOOLEAN, closing : BOOLEAN, grace : {"off", "set", "expired"}]

ProcessType ==
    /\ scene \in Scenes /\ life \in LifeState /\ app \in AppState
    /\ conns \in [Conns -> ConnState] /\ standing \in [Conns -> Standings]
    /\ round \in SUBSET Conns /\ flush \in {"idle", "awaiting", "done"}

\* How far the start has come and how far the stop: a stop goes on only when the start
\* has ended, so a server that was not made then never is.
LifeInv ==
    /\ app.created <=> life.startup \in {"binding", "running", "bindFailed"}
    /\ life.pool = "none" => app.created
    /\ life.stopping <=> life.shutdown # "none"
    /\ life.shutdown \notin {"none", "waiting"} => started
    /\ app.closing <=> app.created /\ life.shutdown \notin {"none", "waiting"}
    /\ life.shutdown = "closing" => app.created
    /\ life.shutdown = "failed" => life.startup = "bindFailed"
    /\ life.pool = "ended" => life.shutdown = "done"
    /\ life.shutdown = "done" => life.pool # "open"

\* What is left of the sockets, the queries and the writes at each stage of a stop.
DrainInv ==
    /\ ~app.created => sessions = {} /\ lookups = {} /\ round = {} /\ recorder.pending = {}
    /\ flush # "idle" => app.closing /\ sessions = {}
    /\ flush = "done" => recorder.pending = {}
    /\ life.shutdown \in {"ending", "done"} /\ app.created => flush = "done"
    /\ life.shutdown = "done" => lookups = {} /\ round = {}

SchemaKept == app.created /\ life.pool # "none" => M!isCurrent(schema)

ProcessInv ==
    /\ ProcessType /\ LifeInv /\ DrainInv /\ AdmissionBounded
    /\ SchemaInv /\ SchemaKept /\ RecorderInv

\* Every set of connections is finite, and a smaller one has no more of them.
LEMMA ConnsFinite ==
    ASSUME NEW S \in SUBSET Conns
    PROVE  /\ IsFiniteSet(S) /\ Cardinality(S) \in Nat
           /\ \A T \in SUBSET S : Cardinality(T) \in Nat /\ Cardinality(T) <= Cardinality(S)
<1>1. ASSUME NEW T \in SUBSET Conns
      PROVE  IsFiniteSet(T) /\ Cardinality(T) \in Nat
  <2>1. IsFiniteSet(T)
    BY ProcessAssumption, FS_Subset
  <2> QED BY <2>1, FS_CardinalityType
<1> QED BY <1>1, FS_Subset

\* Sessions and lookups that only become fewer stay within their limits.
LEMMA FewerConnections ==
    ASSUME AdmissionBounded, UNCHANGED app.closing,
           sessions' \subseteq sessions, lookups' \subseteq lookups,
           \A c \in Conns : conns'[c].phase = "open" => conns[c].phase = "open"
    PROVE  AdmissionBounded'
<1>1. sessions \in SUBSET Conns /\ lookups \in SUBSET Conns
  BY DEF sessions, lookups
<1>2. Cardinality(sessions') <= Cardinality(sessions) /\ Cardinality(lookups') <= Cardinality(lookups)
  BY <1>1, ConnsFinite
<1>3. /\ Cardinality(sessions) \in Nat /\ Cardinality(sessions') \in Nat
      /\ Cardinality(lookups) \in Nat /\ Cardinality(lookups') \in Nat
  BY <1>1, ConnsFinite
<1> QED BY <1>2, <1>3, ProcessAssumption DEF AdmissionBounded

\* One more session or lookup, when there was room for it.
LEMMA OneMoreConnection ==
    ASSUME AdmissionBounded, UNCHANGED app, NEW c \in Conns,
           \/ /\ sessions' = sessions \cup {c} /\ lookups' \subseteq lookups
              /\ Cardinality(sessions) < MaxConnections /\ ~app.closing
           \/ /\ lookups' = lookups \cup {c} /\ sessions' \subseteq sessions
              /\ Cardinality(sessions) + Cardinality(lookups) < MaxConnections
              /\ ~app.closing
    PROVE  AdmissionBounded'
<1>1. /\ sessions \in SUBSET Conns /\ sessions' \in SUBSET Conns
      /\ lookups \in SUBSET Conns /\ lookups' \in SUBSET Conns
  BY DEF sessions, lookups
<1>2. /\ IsFiniteSet(sessions) /\ Cardinality(sessions) \in Nat
      /\ IsFiniteSet(lookups) /\ Cardinality(lookups) \in Nat
      /\ Cardinality(sessions') \in Nat /\ Cardinality(lookups') \in Nat
  BY <1>1, ConnsFinite
<1>3. MaxConnections \in Nat
  BY ProcessAssumption
<1>6. ASSUME NEW S, IsFiniteSet(S), Cardinality(S) \in Nat
      PROVE  Cardinality(S \cup {c}) <= Cardinality(S) + 1
  <2>1. Cardinality(S \cup {c}) = IF c \in S THEN Cardinality(S) ELSE Cardinality(S) + 1
    BY <1>6, FS_AddElement
  <2> QED BY <1>6, <2>1
<1>4. CASE /\ sessions' = sessions \cup {c} /\ lookups' \subseteq lookups
           /\ Cardinality(sessions) < MaxConnections /\ ~app.closing
  <2>1. Cardinality(sessions') <= Cardinality(sessions) + 1
    BY <1>2, <1>4, <1>6
  <2>2. Cardinality(lookups') <= Cardinality(lookups)
    BY <1>1, <1>4, ConnsFinite
  <2> QED BY <1>2, <1>3, <1>4, <2>1, <2>2 DEF AdmissionBounded
<1>5. CASE /\ lookups' = lookups \cup {c} /\ sessions' \subseteq sessions
           /\ Cardinality(sessions) + Cardinality(lookups) < MaxConnections /\ ~app.closing
  <2>1. Cardinality(lookups') <= Cardinality(lookups) + 1
    BY <1>2, <1>5, <1>6
  <2>2. Cardinality(sessions') <= Cardinality(sessions)
    BY <1>1, <1>5, ConnsFinite
  <2> QED BY <1>2, <1>3, <1>5, <2>1, <2>2 DEF AdmissionBounded
<1> QED BY <1>4, <1>5

\* The steps of server.ts that leave the sockets alone.
LEMMA LifeSteps ==
    ASSUME ProcessInv, SchemaRead \/ SchemaUnread \/ Bound \/ Stop \/ Closed \/ PoolEnds
    PROVE  ProcessInv'
<1>1. /\ ProcessType /\ LifeInv /\ DrainInv /\ AdmissionBounded
      /\ SchemaInv /\ SchemaKept /\ RecorderInv
  BY DEF ProcessInv
<1>2. UNCHANGED <<scene, conns, standing, round, handed, recorder, flush, reported, stored,
                  failures, migrator, schema>>
  BY DEF SchemaRead, SchemaUnread, Bound, Stop, Closed, PoolEnds, sockets, records, migration
<1>3. SchemaInv' /\ RecorderInv'
  BY <1>1, <1>2 DEF SchemaInv, M!AppliedInOrder, M!isCurrent, RecorderInv, Traced
<1>4. sessions' = sessions /\ lookups' = lookups
  BY <1>2 DEF sessions, lookups
<1>5. ProcessType'
  <2>1. life' \in LifeState /\ app' \in AppState
    <3> USE <1>1 DEF ProcessType, LifeState, AppState
    <3>1. CASE SchemaRead
      BY <3>1 DEF SchemaRead
    <3>2. CASE SchemaUnread
      BY <3>2 DEF SchemaUnread
    <3>3. CASE Bound
      BY <3>3 DEF Bound
    <3>4. CASE Stop
      BY <3>4 DEF Stop
    <3>5. CASE Closed
      BY <3>5 DEF Closed
    <3>6. CASE PoolEnds
      BY <3>6 DEF PoolEnds
    <3> QED BY <3>1, <3>2, <3>3, <3>4, <3>5, <3>6
  <2> QED BY <1>1, <1>2, <2>1 DEF ProcessType
<1>6. LifeInv'
  <2> USE <1>1 DEF ProcessType, LifeState, AppState, LifeInv, started
  <2>1. CASE SchemaRead
    BY <2>1 DEF SchemaRead
  <2>2. CASE SchemaUnread
    BY <2>2 DEF SchemaUnread
  <2>3. CASE Bound
    BY <2>3 DEF Bound
  <2>4. CASE Stop
    BY <2>4 DEF Stop
  <2>5. CASE Closed
    BY <2>5 DEF Closed
  <2>6. CASE PoolEnds
    BY <2>6 DEF PoolEnds
  <2> QED BY <2>1, <2>2, <2>3, <2>4, <2>5, <2>6
<1>7. DrainInv'
  <2> USE <1>1, <1>2, <1>4 DEF ProcessType, LifeState, AppState, LifeInv, DrainInv, started
  <2>1. CASE SchemaRead
    BY <2>1 DEF SchemaRead
  <2>2. CASE SchemaUnread
    BY <2>2 DEF SchemaUnread
  <2>3. CASE Bound
    BY <2>3 DEF Bound
  <2>4. CASE Stop
    BY <2>4 DEF Stop
  <2>5. CASE Closed
    BY <2>5 DEF Closed
  <2>6. CASE PoolEnds
    BY <2>6 DEF PoolEnds
  <2> QED BY <2>1, <2>2, <2>3, <2>4, <2>5, <2>6
<1>8. UNCHANGED app.closing
  BY <1>1 DEF ProcessType, AppState, SchemaRead, SchemaUnread, Bound, Stop, Closed, PoolEnds
<1>9. AdmissionBounded'
  BY <1>1, <1>2, <1>4, <1>8, FewerConnections
<1>10. SchemaKept'
  <2> USE <1>1, <1>2 DEF SchemaKept, ProcessType, LifeState, AppState, M!isCurrent
  <2>1. CASE SchemaRead
    BY <2>1 DEF SchemaRead
  <2>2. CASE SchemaUnread
    BY <2>2 DEF SchemaUnread
  <2>3. CASE Bound
    BY <2>3 DEF Bound
  <2>4. CASE Stop
    BY <2>4 DEF Stop
  <2>5. CASE Closed
    BY <2>5 DEF Closed
  <2>6. CASE PoolEnds
    BY <2>6 DEF PoolEnds
  <2> QED BY <2>1, <2>2, <2>3, <2>4, <2>5, <2>6
<1> QED BY <1>3, <1>5, <1>6, <1>7, <1>9, <1>10 DEF ProcessInv

\* The steps that only take away from the connections keep what holds of them.
LEMMA FewerKeeps ==
    ASSUME ProcessInv, ProcessType',
           UNCHANGED <<scene, life, records, migration>>,
           UNCHANGED <<app.created, app.closing>>, round' \subseteq round,
           sessions' \subseteq sessions, lookups' \subseteq lookups,
           \A c \in Conns : conns'[c].phase = "open" => conns[c].phase = "open"
    PROVE  ProcessInv'
<1>1. /\ ProcessType /\ LifeInv /\ DrainInv /\ AdmissionBounded
      /\ SchemaInv /\ SchemaKept /\ RecorderInv
  BY DEF ProcessInv
<1>2. UNCHANGED <<handed, recorder, flush, reported, stored, failures, migrator, schema>>
  BY DEF records, migration
<1>3. SchemaInv' /\ RecorderInv'
  BY <1>1, <1>2 DEF SchemaInv, M!AppliedInOrder, M!isCurrent, RecorderInv, Traced
<1>4. LifeInv'
  BY <1>1 DEF LifeInv, started
<1>5. DrainInv'
  BY <1>1, <1>2 DEF DrainInv
<1>6. AdmissionBounded'
  BY <1>1, FewerConnections
<1>7. SchemaKept'
  BY <1>1, <1>2 DEF SchemaKept, M!isCurrent
<1> QED BY <1>3, <1>4, <1>5, <1>6, <1>7 DEF ProcessInv

\* What moved() makes of the connections.
LEMMA Moved ==
    ASSUME ProcessType, NEW S \in SUBSET Conns, NEW to \in {"closed", "closing", "destroyed"},
           conns' = moved(S, to)
    PROVE  /\ conns' \in [Conns -> ConnState]
           /\ \A c \in Conns : conns'[c].phase = IF c \in S THEN to ELSE conns[c].phase
<1>1. over \in ConnState /\ over.phase = "closed"
  BY DEF over, newConn, ConnState, Standings
<1>2. \A c \in Conns : /\ conns[c] \in ConnState
                       /\ [conns[c] EXCEPT !.phase = to] \in ConnState
                       /\ [conns[c] EXCEPT !.phase = to].phase = to
  BY DEF ProcessType, ConnState
<1> HIDE DEF over
<1>3. conns' = [c \in Conns |-> IF c \notin S THEN conns[c]
                     ELSE IF to = "closed" THEN over ELSE [conns[c] EXCEPT !.phase = to]]
  BY DEF moved
<1>4. ASSUME NEW c \in Conns
      PROVE  /\ conns'[c] \in ConnState
             /\ conns'[c].phase = IF c \in S THEN to ELSE conns[c].phase
  BY <1>1, <1>2, <1>3
<1> QED BY <1>3, <1>4

\* A connection that closes, or a lookup whose socket is destroyed.
LEMMA Goes ==
    ASSUME ProcessInv, NEW S \in SUBSET Conns, NEW to \in {"closed", "closing", "destroyed"},
           conns' = moved(S, to), to = "closing" => S \subseteq sessions,
           to = "destroyed" => S \subseteq lookups,
           UNCHANGED <<scene, life, standing, records, migration>>,
           app' \in AppState, UNCHANGED <<app.created, app.closing>>, round' \subseteq round
    PROVE  ProcessInv'
<1>1. ProcessType
  BY DEF ProcessInv
<1>2. /\ conns' \in [Conns -> ConnState]
      /\ \A c \in Conns : conns'[c].phase = IF c \in S THEN to ELSE conns[c].phase
  BY <1>1, Moved
<1>3. /\ sessions' \subseteq sessions /\ lookups' \subseteq lookups
      /\ \A c \in Conns : conns'[c].phase = "open" => conns[c].phase = "open"
  BY <1>2 DEF sessions, lookups
<1>4. ProcessType'
  BY <1>1, <1>2 DEF ProcessType, records
<1> QED BY <1>3, <1>4, FewerKeeps

\* The timers of the server end sessions.
LEMMA TimerSteps ==
    ASSUME ProcessInv, GraceExpires \/ Heartbeat
    PROVE  ProcessInv'
<1>1. ProcessType /\ conns \in [Conns -> ConnState] /\ app \in AppState
  BY DEF ProcessInv, ProcessType
<1>2. CASE GraceExpires
  <2>1. app' \in AppState /\ UNCHANGED <<app.created, app.closing>>
    BY <1>1, <1>2 DEF GraceExpires, AppState
  <2> QED BY <1>2, <2>1, Goes DEF GraceExpires, sessions
<1>3. CASE Heartbeat
  <2>1. over \in ConnState /\ over.phase = "closed"
    BY DEF over, newConn, ConnState, Standings
  <2>2. \A x \in Conns : /\ [conns[x] EXCEPT !.alive = pinged(x)] \in ConnState
                         /\ [conns[x] EXCEPT !.alive = pinged(x)].phase = conns[x].phase
    BY <1>1 DEF ConnState, pinged
  <2>3. \A x \in Conns : conns'[x] \in ConnState /\ conns'[x].phase \in {conns[x].phase, "closed"}
    BY <1>1, <1>3, <2>1, <2>2 DEF Heartbeat
  <2>4. /\ sessions' \subseteq sessions /\ lookups' \subseteq lookups
        /\ \A x \in Conns : conns'[x].phase = "open" => conns[x].phase = "open"
    BY <2>3 DEF sessions, lookups
  <2>5. ProcessType'
    BY <1>1, <1>3, <2>3 DEF ProcessType, Heartbeat, records
  <2> QED BY <1>3, <2>4, <2>5, FewerKeeps DEF Heartbeat
<1> QED BY <1>2, <1>3

\* The steps of one connection that make no session and no lookup.
LEMMA SocketSteps ==
    ASSUME ProcessInv, NEW c \in Conns,
           \/ Gone(c) \/ HandshakeEnds(c) \/ Vanish(c)
           \/ Revalidated(c) \/ RevalidationFails(c)
           \/ \E to \in {"player", "revoked", "renamed"} : AccountChanges(c, to)
    PROVE  ProcessInv'
<1>1. ProcessType /\ conns \in [Conns -> ConnState] /\ app \in AppState
  BY DEF ProcessInv, ProcessType
<1>4. CASE Gone(c)
  BY <1>1, <1>4, Goes DEF Gone, sessions, lookups
<1>5. CASE HandshakeEnds(c)
  BY <1>1, <1>5, Goes DEF HandshakeEnds
<1>6. CASE Vanish(c) \/ \E to \in {"player", "revoked", "renamed"} : AccountChanges(c, to)
  <2>1. /\ conns' \in [Conns -> ConnState] /\ standing' \in [Conns -> Standings]
        /\ \A x \in Conns : conns'[x].phase = conns[x].phase
    <3>1. [conns[c] EXCEPT !.peer = FALSE] \in ConnState
      BY <1>1 DEF ConnState
    <3>2. [conns[c] EXCEPT !.peer = FALSE].phase = conns[c].phase
      BY <1>1 DEF ConnState
    <3> QED BY <1>1, <1>6, <3>1, <3>2 DEF ProcessType, Vanish, AccountChanges, Standings
  <2>2. UNCHANGED <<scene, life, app, round, records, migration>>
    BY <1>6 DEF Vanish, AccountChanges
  <2>3. ProcessType'
    BY <1>1, <2>1, <2>2 DEF ProcessType, records
  <2>4. sessions' = sessions /\ lookups' = lookups
    BY <2>1 DEF sessions, lookups
  <2> QED BY <2>1, <2>2, <2>3, <2>4, FewerKeeps
<1>7. CASE Revalidated(c)
  <2>1. /\ conns' \in [Conns -> ConnState]
        /\ \A x \in Conns : \/ conns'[x].phase = conns[x].phase
                            \/ conns[x].phase = "open" /\ conns'[x].phase = "closing"
    <3>1. CASE conns' = conns
      BY <1>1, <3>1
    <3>2. CASE conns' = [conns EXCEPT ![c] = refreshed(c)] /\ conns[c].phase = "open"
      <4>1. refreshed(c) \in ConnState /\ refreshed(c).phase \in {"open", "closing"}
        BY <1>1, <3>2 DEF ProcessType, ConnState, refreshed
      <4> QED BY <1>1, <3>2, <4>1
    <3> QED BY <1>7, <3>1, <3>2 DEF Revalidated
  <2>2. /\ sessions' \subseteq sessions /\ lookups' \subseteq lookups
        /\ \A x \in Conns : conns'[x].phase = "open" => conns[x].phase = "open"
    BY <2>1 DEF sessions, lookups
  <2>3. ProcessType'
    BY <1>1, <1>7, <2>1 DEF ProcessType, Revalidated, records
  <2> QED BY <1>7, <2>2, <2>3, FewerKeeps DEF Revalidated
<1>8. CASE RevalidationFails(c)
  <2>1. CASE conns' = moved({c}, "closing") /\ conns[c].phase = "open"
    BY <1>1, <1>8, <2>1, Goes DEF RevalidationFails, sessions
  <2>2. CASE conns' = conns
    <3>1. ProcessType'
      BY <1>1, <1>8, <2>2 DEF ProcessType, RevalidationFails, records
    <3>2. sessions' = sessions /\ lookups' = lookups
      BY <2>2 DEF sessions, lookups
    <3> QED BY <1>8, <2>2, <3>1, <3>2, FewerKeeps DEF RevalidationFails
  <2> QED BY <1>8, <2>1, <2>2 DEF RevalidationFails
<1> QED BY <1>4, <1>5, <1>6, <1>7, <1>8

\* An upgrade, and a lookup that ends, against the limit.
LEMMA Admits ==
    ASSUME ProcessInv, NEW c \in Conns,
           (\E account \in BOOLEAN : Upgrade(c, account)) \/ LookupEnds(c)
    PROVE  ProcessInv'
<1>1. /\ ProcessType /\ LifeInv /\ DrainInv /\ AdmissionBounded
      /\ SchemaInv /\ SchemaKept /\ RecorderInv /\ conns \in [Conns -> ConnState]
  BY DEF ProcessInv, ProcessType
<1>2. /\ UNCHANGED <<scene, life, app, standing, round, records, migration>>
      /\ UNCHANGED <<handed, recorder, flush, reported, stored, failures, migrator, schema>>
  BY DEF Upgrade, LookupEnds, records, migration
<1>3. SchemaInv' /\ RecorderInv'
  BY <1>1, <1>2 DEF SchemaInv, M!AppliedInOrder, M!isCurrent, RecorderInv, Traced
<1>4. LifeInv' /\ SchemaKept'
  BY <1>1, <1>2 DEF LifeInv, started, SchemaKept, M!isCurrent
<1>5. ASSUME NEW k \in ConnState, conns' = [conns EXCEPT ![c] = k],
             life.shutdown # "done", ~app.closing, app.created,
             \/ /\ k.phase = "open" /\ Cardinality(sessions) < MaxConnections
             \/ /\ k.phase = "lookup" /\ conns[c].phase = "none"
                /\ Cardinality(sessions) + Cardinality(lookups) < MaxConnections
      PROVE  ProcessInv'
  <2>1. ProcessType'
    BY <1>1, <1>2, <1>5 DEF ProcessType
  <2>2. \A x \in Conns : conns'[x].phase = IF x = c THEN k.phase ELSE conns[x].phase
    BY <1>1, <1>5
  <2>3. CASE k.phase = "open"
    <3>1. sessions' = sessions \cup {c} /\ lookups' \subseteq lookups
      BY <2>2, <2>3 DEF sessions, lookups
    <3>2. AdmissionBounded'
      BY <1>1, <1>2, <1>5, <2>3, <3>1, OneMoreConnection
    <3>3. DrainInv'
      BY <1>1, <1>2, <1>5 DEF DrainInv
    <3> QED BY <1>3, <1>4, <2>1, <3>2, <3>3 DEF ProcessInv
  <2>4. CASE k.phase = "lookup"
    <3>1. lookups' = lookups \cup {c} /\ sessions' \subseteq sessions
      BY <2>2, <2>4 DEF sessions, lookups
    <3>2. AdmissionBounded'
      BY <1>1, <1>2, <1>5, <2>4, <3>1, OneMoreConnection
    <3>3. DrainInv'
      BY <1>1, <1>2, <1>5, <3>1 DEF DrainInv
    <3> QED BY <1>3, <1>4, <2>1, <3>2, <3>3 DEF ProcessInv
  <2> QED BY <1>5, <2>3, <2>4
<1>6. CASE \E account \in BOOLEAN : Upgrade(c, account)
  <2>1. PICK account \in BOOLEAN : Upgrade(c, account)
    BY <1>6
  <2>2. app.created /\ conns[c].phase = "none"
    BY <1>1, <2>1 DEF Upgrade, LifeInv
  <2>3. CASE upgraded(account) = "closed"
    <3>1. conns' = [conns EXCEPT ![c] = over]
      BY <2>1, <2>3 DEF Upgrade
    <3>2. over \in ConnState /\ over.phase = "closed"
      BY DEF over, newConn, ConnState, Standings
    <3>3. \A x \in Conns : conns'[x].phase = IF x = c THEN "closed" ELSE conns[x].phase
      BY <1>1, <3>1, <3>2
    <3>4. /\ sessions' \subseteq sessions /\ lookups' \subseteq lookups
          /\ \A x \in Conns : conns'[x].phase = "open" => conns[x].phase = "open"
      BY <3>3 DEF sessions, lookups
    <3>5. ProcessType'
      BY <1>1, <1>2, <3>1, <3>2 DEF ProcessType
    <3> QED BY <1>2, <3>4, <3>5, FewerKeeps
  <2>4. CASE upgraded(account) # "closed"
    <3> DEFINE k == [newConn EXCEPT !.phase = upgraded(account), !.account = account]
    <3>1. conns' = [conns EXCEPT ![c] = k]
      BY <2>1, <2>4 DEF Upgrade
    <3>2. /\ ~app.closing
          /\ \/ upgraded(account) = "open" /\ Cardinality(sessions) < MaxConnections
             \/ /\ upgraded(account) = "lookup"
                /\ Cardinality(sessions) + Cardinality(lookups) < MaxConnections
                /\ life.pool = "open"
      BY <2>4 DEF upgraded, hasRoom
    <3>3. k \in ConnState /\ k.phase = upgraded(account)
      BY <3>2 DEF newConn, ConnState, Standings
    <3>4. life.shutdown # "done"
      BY <1>1, <2>2, <3>2 DEF LifeInv
    <3> HIDE DEF k
    <3> QED BY <1>5, <2>2, <3>1, <3>2, <3>3, <3>4
  <2> QED BY <2>3, <2>4
<1>7. CASE LookupEnds(c)
  <2>1. CASE conns' = moved({c}, "closed")
    BY <1>1, <1>2, <2>1, Goes DEF ProcessType
  <2>2. CASE /\ standing[c] # "revoked"
             /\ conns[c].phase = "lookup" /\ ~app.closing /\ stillRoom
             /\ conns' = [conns EXCEPT ![c].phase = "open", ![c].role = standing[c]]
    <3> DEFINE k == [conns[c] EXCEPT !.phase = "open", !.role = standing[c]]
    <3>1. conns' = [conns EXCEPT ![c] = k]
      BY <1>1, <2>2 DEF ConnState
    <3>2. k \in ConnState /\ k.phase = "open"
      BY <1>1 DEF ProcessType, ConnState
    <3>3. app.created /\ life.shutdown # "done"
      BY <1>1, <2>2 DEF DrainInv, lookups
    <3>4. Cardinality(sessions) < MaxConnections
      BY <2>2 DEF stillRoom, hasRoom
    <3> HIDE DEF k
    <3> QED BY <1>5, <2>2, <3>1, <3>2, <3>3, <3>4
  <2> QED BY <1>7, <2>1, <2>2 DEF LookupEnds
<1> QED BY <1>6, <1>7

\* The first step of a stop closes every session and destroys every lookup.
LEMMA StopCloses ==
    ASSUME ProcessInv, StopRuntime
    PROVE  ProcessInv'
<1>1. /\ ProcessType /\ LifeInv /\ DrainInv /\ AdmissionBounded
      /\ SchemaInv /\ SchemaKept /\ RecorderInv /\ conns \in [Conns -> ConnState]
  BY DEF ProcessInv, ProcessType
<1>2. /\ UNCHANGED <<scene, standing, round, migrator, schema>>
      /\ UNCHANGED <<handed, recorder, flush, reported, stored, failures>>
      /\ life.shutdown = "waiting" /\ started
  BY DEF StopRuntime, records, migration
<1>3. SchemaInv' /\ RecorderInv'
  BY <1>1, <1>2 DEF SchemaInv, M!AppliedInOrder, M!isCurrent, RecorderInv, Traced
<1>4. /\ conns' \in [Conns -> ConnState]
      /\ \A c \in Conns : \/ conns'[c].phase = conns[c].phase
                          \/ c \in sessions /\ conns'[c].phase = "closing"
                          \/ c \in lookups /\ conns'[c].phase = "destroyed"
      /\ app.created => \A c \in Conns : conns'[c].phase # "open"
  <2>1. CASE ~app.created
    BY <1>1, <2>1 DEF StopRuntime
  <2>2. CASE app.created
    <3> DEFINE f == [c \in Conns |->
                  IF c \in sessions THEN [conns[c] EXCEPT !.phase = "closing"]
                  ELSE IF c \in lookups THEN [conns[c] EXCEPT !.phase = "destroyed"]
                  ELSE conns[c]]
    <3>1. conns' = f
      BY <2>2 DEF StopRuntime
    <3>2. \A c \in Conns : /\ conns[c] \in ConnState
                           /\ [conns[c] EXCEPT !.phase = "closing"] \in ConnState
                           /\ [conns[c] EXCEPT !.phase = "closing"].phase = "closing"
                           /\ [conns[c] EXCEPT !.phase = "destroyed"] \in ConnState
                           /\ [conns[c] EXCEPT !.phase = "destroyed"].phase = "destroyed"
      BY <1>1 DEF ConnState
    <3>3. \A c \in Conns : conns[c].phase = "open" => c \in sessions
      BY DEF sessions
    <3> QED BY <3>1, <3>2, <3>3
  <2> QED BY <2>1, <2>2
<1>5. sessions' = sessions /\ lookups' = lookups
  BY <1>4 DEF sessions, lookups
<1>6. /\ app' \in AppState /\ app'.created = app.created
      /\ app'.closing <=> app.created
      /\ life' = [life EXCEPT !.shutdown = life'.shutdown]
      /\ life' \in LifeState /\ life'.shutdown \in {"failed", "closing", "ending"}
      /\ app.created <=> life'.shutdown \in {"failed", "closing"}
      /\ life'.shutdown = "failed" => life.startup = "bindFailed"
  <2>1. life \in LifeState /\ app \in AppState /\ LifeInv
    BY <1>1 DEF ProcessType
  <2>2. CASE app.created
    <3>1. /\ app' = [app EXCEPT !.closing = TRUE, !.grace = "set"]
          /\ life' = [life EXCEPT !.shutdown =
                IF life.startup = "bindFailed" THEN "failed" ELSE "closing"]
      BY <2>2 DEF StopRuntime
    <3>2. app' \in AppState /\ app'.created = app.created /\ app'.closing
      BY <2>1, <3>1 DEF AppState
    <3> QED BY <2>1, <2>2, <3>1, <3>2 DEF LifeState
  <2>3. CASE ~app.created
    <3>1. life' = [life EXCEPT !.shutdown = "ending"] /\ app' = app
      BY <2>3 DEF StopRuntime
    <3>2. ~app.closing
      BY <2>1, <2>3 DEF LifeInv
    <3> QED BY <2>1, <2>3, <3>1, <3>2 DEF LifeState, AppState
  <2> QED BY <2>2, <2>3
<1>7. UNCHANGED <<life.startup, life.stopping, life.pool>> /\ ~app.closing
  BY <1>1, <1>2, <1>6 DEF ProcessType, LifeState, LifeInv
<1>8. ProcessType'
  BY <1>1, <1>2, <1>4, <1>6 DEF ProcessType
<1>9. LifeInv'
  BY <1>1, <1>2, <1>6, <1>7 DEF LifeInv, started
<1>10. DrainInv'
  BY <1>1, <1>2, <1>5, <1>6, <1>7 DEF DrainInv
<1>11. AdmissionBounded'
  BY <1>1, <1>4, <1>5, <1>6 DEF AdmissionBounded
<1>12. SchemaKept'
  BY <1>1, <1>2, <1>6, <1>7 DEF SchemaKept, M!isCurrent
<1> QED BY <1>3, <1>8, <1>9, <1>10, <1>11, <1>12 DEF ProcessInv

\* The steps of the recorder, of the migrating processes, and of the interval.
LEMMA OtherSteps ==
    ASSUME ProcessInv,
           \/ Revalidate \/ Flush \/ FlushAgain \/ MatchFinishes \/ Migrates
           \/ \E r \in R!Records : Write(r) \/ WriteAgain(r) \/ WriteSettles(r)
    PROVE  ProcessInv'
<1>1. /\ ProcessType /\ LifeInv /\ DrainInv /\ AdmissionBounded
      /\ SchemaInv /\ SchemaKept /\ RecorderInv
  BY DEF ProcessInv
<1>2. UNCHANGED <<scene, life, app, conns, standing>>
  BY DEF Revalidate, Flush, FlushAgain, MatchFinishes, Migrates, Write, WriteAgain,
         WriteSettles, sockets
<1>3. sessions' = sessions /\ lookups' = lookups
  BY <1>2 DEF sessions, lookups
<1>4. LifeInv' /\ AdmissionBounded'
  BY <1>1, <1>2, <1>3 DEF LifeInv, started, AdmissionBounded
<1>5. SchemaInv' /\ SchemaKept'
  <2>1. CASE Migrates
    <3>1. SchemaInv' /\ schema.applied \subseteq schema'.applied
      <4>1. scene.migrators \subseteq Migrators
        BY <1>1, ProcessAssumption DEF ProcessType
      <4> QED BY <1>1, <2>1, <4>1, SchemaStep DEF Migrates
    <3>2. schema'.applied \subseteq M!Versions
      BY <3>1 DEF SchemaInv, SchemaState
    <3> QED BY <1>1, <1>2, <3>1, <3>2 DEF SchemaKept, M!isCurrent
  <2>2. CASE UNCHANGED <<migrator, schema>>
    BY <1>1, <1>2, <2>2 DEF SchemaInv, SchemaKept, M!AppliedInOrder, M!isCurrent
  <2> QED BY <2>1, <2>2 DEF Revalidate, Flush, FlushAgain, MatchFinishes, Write, WriteAgain,
         WriteSettles, migration
<1>6. CASE Revalidate
  <2>1. UNCHANGED <<handed, recorder, flush, reported, stored, failures>>
    BY <1>6 DEF Revalidate, records
  <2>2. round' \in SUBSET Conns /\ app.created /\ ~app.closing
    BY <1>6 DEF Revalidate, authenticated, sessions, ticking
  <2>3. ProcessType' /\ RecorderInv'
    BY <1>1, <1>2, <2>1, <2>2 DEF ProcessType, RecorderInv, Traced
  <2>4. DrainInv'
    BY <1>1, <1>2, <1>3, <2>1, <2>2 DEF DrainInv, LifeInv
  <2> QED BY <1>4, <1>5, <2>3, <2>4 DEF ProcessInv
<1>7. CASE Migrates
  <2>1. UNCHANGED <<round, handed, recorder, flush, reported, stored, failures>>
    BY <1>7 DEF Migrates, sockets, records
  <2>2. ProcessType' /\ RecorderInv' /\ DrainInv'
    BY <1>1, <1>2, <1>3, <2>1 DEF ProcessType, RecorderInv, Traced, DrainInv
  <2> QED BY <1>4, <1>5, <2>2 DEF ProcessInv
<1>8. CASE Flush \/ FlushAgain
  <2>1. /\ UNCHANGED <<round, handed, recorder, reported, stored, failures>>
        /\ flush' = IF recorder.pending = {} THEN "done" ELSE "awaiting"
    BY <1>8 DEF Flush, FlushAgain, R!Flush, R!FlushAgain, R!database, sockets
  <2>2. ProcessType' /\ RecorderInv'
    BY <1>1, <1>2, <2>1 DEF ProcessType, RecorderInv, Traced
  <2>3. app.closing /\ sessions = {}
    <3>1. CASE Flush
      BY <1>1, <3>1 DEF Flush, allClosed, LifeInv, DrainInv, started
    <3>2. CASE FlushAgain
      BY <1>1, <3>2 DEF FlushAgain, R!FlushAgain, DrainInv
    <3> QED BY <1>8, <3>1, <3>2
  <2>4. life.shutdown \in {"ending", "done"} /\ app.created => flush' = "done"
    BY <1>1, <2>1 DEF DrainInv
  <2>5. DrainInv'
    BY <1>1, <1>2, <1>3, <2>1, <2>3, <2>4 DEF DrainInv
  <2> QED BY <1>4, <1>5, <2>2, <2>5 DEF ProcessInv
<1>9. CASE MatchFinishes
  <2>1. sessions # {}
    <3>1. Cardinality(sessions) >= 2
      BY <1>9 DEF MatchFinishes
    <3> QED BY <3>1, FS_EmptySet
  <2>2. UNCHANGED <<round, flush>> /\ R!Record
    BY <1>9 DEF MatchFinishes, R!Record, sockets
  <2>3. app.created /\ flush = "idle"
    BY <1>1, <2>1 DEF DrainInv
  <2>4. ProcessType' /\ RecorderInv'
    BY <1>1, <1>2, <2>2, RecordKeeps DEF ProcessType
  <2>5. DrainInv'
    BY <1>1, <1>2, <1>3, <2>2, <2>3 DEF DrainInv
  <2> QED BY <1>4, <1>5, <2>4, <2>5 DEF ProcessInv
<1>10. CASE \E r \in R!Records : Write(r) \/ WriteAgain(r) \/ WriteSettles(r)
  <2>1. UNCHANGED round /\ UNCHANGED flush
    BY <1>10 DEF Write, WriteAgain, WriteSettles, sockets, R!Insert, R!InsertFails,
                 R!AnswerLost, R!DelayOver, R!Settle, R!Retry, R!Succeed
  <2>2. RecorderInv' /\ recorder'.pending \subseteq recorder.pending
    BY <1>1, <1>10, WriterStep DEF Write, WriteAgain, WriteSettles
  <2>3. ProcessType' /\ DrainInv'
    BY <1>1, <1>2, <1>3, <2>1, <2>2 DEF ProcessType, DrainInv
  <2> QED BY <1>4, <1>5, <2>2, <2>3 DEF ProcessInv
<1> QED BY <1>6, <1>7, <1>8, <1>9, <1>10

\* Where a behaviour starts.
LEMMA InitHolds == Init => ProcessInv
<1> SUFFICES ASSUME Init PROVE ProcessInv
  OBVIOUS
<1>1. /\ scene \in [conns : SUBSET Conns, accounts : SUBSET Conns, fragile : SUBSET Conns,
                    unsettled : SUBSET Conns, matches : 0 .. Matches,
                    migrators : SUBSET Migrators]
      /\ scene \in Scenes /\ Matches \in Nat /\ Files \in Nat \ {0} /\ MaxConnections \in Nat
      /\ MaxConcurrentWrites \in Nat \ {0} /\ MaxPendingWrites \in Nat
  BY ProcessAssumption DEF Init
<1>2. /\ life \in LifeState /\ app \in AppState /\ LifeInv /\ ~app.closing
      /\ life.shutdown = "none" /\ (app.created => life.pool = "none")
  <2>1. PICK auth \in BOOLEAN : life = newLife(auth) /\ app = newApp(auth)
    BY DEF Init
  <2> QED BY <2>1 DEF newLife, newApp, LifeState, AppState, LifeInv, started
<1>3. newConn \in ConnState /\ newConn.phase = "none"
  BY DEF newConn, ConnState, Standings
<1>4. sessions = {} /\ lookups = {} /\ \A c \in Conns : conns[c].phase # "open"
  BY <1>3 DEF Init, sessions, lookups
<1>5. handed \in 0 .. Matches /\ stored = 1 .. handed
  BY <1>1 DEF Init, R!InitWith
<1>6. /\ recorder = R!newRecorder /\ flush = "idle" /\ reported = {}
      /\ failures = [r \in R!Records |-> 0]
  BY DEF Init, R!InitWith
<1>7. ProcessType
  BY <1>1, <1>2, <1>3, <1>6 DEF ProcessType, Init, Standings
<1>8. recorder.pending = {} /\ DrainInv
  BY <1>2, <1>4, <1>6 DEF DrainInv, R!newRecorder, Init
<1>9. AdmissionBounded
  BY <1>1, <1>2, <1>4, FS_EmptySet DEF AdmissionBounded
<1>10. RecorderInv
  <2>1. /\ R!newRecorder \in RecorderState /\ R!newRecorder.queue = <<>>
        /\ R!newRecorder.activeWrites = 0 /\ R!newRecorder.pending = {}
        /\ R!newRecorder.inserting = {} /\ R!newRecorder.delayed = {}
        /\ \A r \in R!Records : R!newRecorder.attempt[r] = 0
    BY DEF R!newRecorder, RecorderState, R!RETRIES
  <2>2. DOMAIN R!newRecorder.queue = {}
    BY <2>1
  <2> HIDE DEF R!newRecorder
  <2>3. queuedOf(recorder) = {} /\ activeOf(recorder) = {}
    BY <1>6, <2>1, <2>2 DEF queuedOf, activeOf
  <2>4. WritersSound(recorder) /\ NoneIdle(recorder)
    BY <1>1, <1>6, <2>1, <2>2, <2>3, FS_EmptySet DEF WritersSound, NoneIdle
  <2>5. \A r \in R!Records : Traced(r)
    BY <1>1, <1>5, <1>6, <2>1 DEF Traced, R!Records
  <2> QED BY <1>1, <1>5, <1>6, <1>8, <2>4, <2>5, FS_EmptySet DEF RecorderInv
<1>11. SchemaInv /\ SchemaKept
  <2>1. PICK n \in 0 .. Files : M!InitWith(n)
    BY <1>1 DEF Init
  <2>2. /\ migrator = [m \in Migrators |-> M!newMigrator]
        /\ M!newMigrator \in MigratorState /\ M!newMigrator.at = "idle"
    BY <2>1 DEF M!InitWith, M!newMigrator, MigratorState
  <2>3. /\ schema \in SchemaState /\ schema.applied = 1 .. n
        /\ \A v \in M!Versions : schema.effect[v] = IF v \in 1 .. n THEN 1 ELSE 0
    BY <1>1, <2>1 DEF M!InitWith, SchemaState, M!Versions
  <2>4. M!AppliedInOrder
    BY <2>2, <2>3 DEF M!AppliedInOrder
  <2> QED BY <1>2, <2>2, <2>3, <2>4 DEF SchemaInv, SchemaKept
<1> QED BY <1>2, <1>7, <1>8, <1>9, <1>10, <1>11 DEF ProcessInv

\* Every step keeps the invariant.
LEMMA ProcessStep == ProcessInv /\ [Next]_vars => ProcessInv'
<1> SUFFICES ASSUME ProcessInv, [Next]_vars PROVE ProcessInv'
  OBVIOUS
<1>1. CASE UNCHANGED vars
  BY <1>1 DEF vars, records, migration, ProcessInv, ProcessType, LifeInv, started, DrainInv,
         AdmissionBounded, sessions, lookups, SchemaInv, SchemaKept, M!AppliedInOrder,
         M!isCurrent, RecorderInv, Traced
<1>2. CASE SchemaRead \/ SchemaUnread \/ Bound \/ Stop \/ Closed \/ PoolEnds
  BY <1>2, LifeSteps
<1>3. CASE StopRuntime
  BY <1>3, StopCloses
<1>4. CASE GraceExpires \/ Heartbeat
  BY <1>4, TimerSteps
<1>5. CASE \E c \in Conns :
         \/ \E account \in BOOLEAN : Upgrade(c, account)
         \/ LookupEnds(c) \/ Gone(c) \/ HandshakeEnds(c) \/ Vanish(c)
         \/ \E to \in {"player", "revoked", "renamed"} : AccountChanges(c, to)
         \/ Revalidated(c) \/ RevalidationFails(c)
  BY <1>5, SocketSteps, Admits
<1>6. CASE \/ Revalidate \/ Flush \/ FlushAgain \/ MatchFinishes \/ Migrates
           \/ \E r \in R!Records : Write(r) \/ WriteAgain(r) \/ WriteSettles(r)
  BY <1>6, OtherSteps
<1> QED BY <1>1, <1>2, <1>3, <1>4, <1>5, <1>6 DEF Next

-----------------------------------------------------------------------------

(* The theorems.                                                             *)

\* The inductive invariant holds throughout.
THEOREM ProcessInvariant == Spec => []ProcessInv
<1> QED BY InitHolds, ProcessStep, PTL DEF Spec

\* However many processes migrate, crash between two statements or lose the answer of a
\* COMMIT, each file is applied once and in order, and createHiddenServer() is reached
\* only on a complete schema (server.ts, migrate.ts).
THEOREM SchemaStaysSound == Spec => []SchemaSound
<1>1. ProcessInv => SchemaSound
  BY DEF ProcessInv, SchemaInv, SchemaKept, SchemaSound
<1> QED BY <1>1, ProcessInvariant, PTL

\* handleUpgrade() keeps maxConnections across its await, and no session opens once
\* closeServer() has begun (app.ts).
THEOREM AdmissionStaysBounded == Spec => []AdmissionBounded
<1>1. ProcessInv => AdmissionBounded
  BY DEF ProcessInv
<1> QED BY <1>1, ProcessInvariant, PTL

\* The order of a stop: sockets, then writes, then queries, then the pool (app.ts,
\* runtimeLifecycle.ts).
THEOREM StopsInOrder == Spec => []StopReleases
<1>1. ProcessInv => StopReleases
  BY DEF ProcessInv, LifeInv, DrainInv, StopReleases
<1> QED BY <1>1, ProcessInvariant, PTL

\* The recorder loses no match and no writer, whatever the database does and however many
\* matches finish (recorder.ts).
THEOREM MatchesStayAccounted == Spec => []Accounted
<1>1. ProcessInv => Accounted
  <2> SUFFICES ASSUME ProcessInv PROVE Accounted
    OBVIOUS
  <2>1. /\ RecorderInv /\ WritersSound(recorder) /\ NoneIdle(recorder) /\ DrainInv
        /\ handed \in 0 .. Matches
    BY DEF ProcessInv, RecorderInv
  <2>2. R!WritersKept
    BY <2>1, SameCardinality DEF R!WritersKept, RecorderInv, WritersSound, NoneIdle,
                                 queuedOf, activeOf
  <2>3. \A r \in 1 .. handed : r \in R!Records /\ r <= handed
    BY <2>1, ProcessAssumption DEF R!Records
  <2>4. R!Accounted
    BY <2>1, <2>3 DEF R!Accounted, RecorderInv, Traced
  <2>5. life.shutdown = "done" => recorder.pending = {}
    BY <2>1 DEF DrainInv
  <2> QED BY <2>2, <2>4, <2>5 DEF Accounted
<1> QED BY <1>1, ProcessInvariant, PTL
=============================================================================

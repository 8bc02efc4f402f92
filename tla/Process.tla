------------------------------ MODULE Process -------------------------------
(* The server process: server.ts and runtimeLifecycle.ts start and stop it,  *)
(* app.ts turns upgrades into sessions, looks after them and closes them.    *)
(*                                                                           *)
(* It is composed with Recorder, whose flush() ends a shutdown, and with     *)
(* Migrations, whose table the start-up reads.  What players do on a session *)
(* is Lobby and MatchSync: here a session is open, closing or gone, and a    *)
(* match may finish while two are left.  A step is what runs between two     *)
(* awaits, or one callback of a socket or a timer.                           *)
EXTENDS Naturals, Sequences, FiniteSets

CONSTANTS
    Conns,                 \* the connections ever made
    MaxConnections,        \* maxConnections
    Matches, MaxConcurrentWrites, MaxPendingWrites,   \* see Recorder
    Migrators, Files,      \* see Migrations
    Scenes                 \* the bounds a behaviour may start with, see Init

\* those of the parts it is composed of included
ASSUME ProcessAssumption ==
    /\ Matches \in Nat
    /\ {MaxConnections, MaxConcurrentWrites, MaxPendingWrites, Files} \subseteq Nat \ {0}
    /\ IsFiniteSet(Conns) /\ "free" \notin Migrators
    /\ Scenes \subseteq [conns : SUBSET Conns, accounts : SUBSET Conns, fragile : SUBSET Conns,
                         unsettled : SUBSET Conns, matches : 0 .. Matches,
                         migrators : SUBSET Migrators]

VARIABLES
    scene,     \* the bounds of this behaviour: which parts of the world move
    life,      \* server.ts and RuntimeLifecycle
    app,       \* the closure of createHiddenServer(), apart from its sockets
    conns,     \* each connection, from its upgrade to its close
    standing,  \* what the account service knows of the session behind each cookie
    round,     \* the connections a revalidation under way still waits for
    handed, recorder, flush, awaited, reported, stored, inDoubt, failures,
    migrator, schema

R == INSTANCE Recorder
M == INSTANCE Migrations

sockets == <<conns, standing, round>>
records == <<handed, recorder, flush, awaited, reported, stored, inDoubt, failures>>
migration == <<migrator, schema>>
vars == <<scene, life, app, conns, standing, round, records, migration>>

-----------------------------------------------------------------------------
(* Connections.                                                              *)

\* account: the upgrade carried a session cookie; role: the identity bound to the
\* session; peer: the other end is still there; alive: it answered the last ping
newConn ==
    [phase |-> "none", account |-> FALSE, role |-> "player", peer |-> TRUE, alive |-> TRUE]

\* gameHandler.sessionsById
sessions == {c \in Conns : conns[c].phase \in {"open", "closing"}}
\* pendingUpgradeSockets, and the tasks of pendingUpgradeTasks that have not ended
lookups == {c \in Conns : conns[c].phase \in {"lookup", "destroyed"}}
\* authenticatedSockets
authenticated == {c \in sessions : conns[c].account}

\* a connection is over, and what was known of it with it
over == [newConn EXCEPT !.phase = "closed"]

\* the connections after those in S went to another phase
moved(S, to) ==
    [c \in Conns |-> IF c \notin S THEN conns[c]
                     ELSE IF to = "closed" THEN over ELSE [conns[c] EXCEPT !.phase = to]]

hasRoom(n) == n < MaxConnections

\* the intervals of createHiddenServer() run
ticking == app.created /\ ~app.closing

-----------------------------------------------------------------------------
(* Start and stop.                                                           *)

newLife(auth) ==
    [startup |-> IF auth THEN "checking" ELSE "binding", stopping |-> FALSE,
     shutdown |-> "none", pool |-> IF auth THEN "open" ELSE "none"]

newApp(auth) == [created |-> ~auth, closing |-> FALSE, grace |-> "off"]

started == life.startup \in {"returned", "running", "checkFailed", "bindFailed"}

\* assertMigrationsCurrent() returns: start() ends early when stop() was called, else
\* the server is made and listens
SchemaRead ==
    /\ life.startup = "checking"
    /\ \/ /\ ~M!isCurrent(schema)
          /\ life' = [life EXCEPT !.startup = "checkFailed"] /\ UNCHANGED app
       \/ /\ M!isCurrent(schema) /\ life.stopping
          /\ life' = [life EXCEPT !.startup = "returned"] /\ UNCHANGED app
       \/ /\ M!isCurrent(schema) /\ ~life.stopping
          /\ life' = [life EXCEPT !.startup = "binding"]
          /\ app' = [app EXCEPT !.created = TRUE]
    /\ UNCHANGED <<scene, sockets, records, migration>>

\* the query of assertMigrationsCurrent() fails
SchemaUnread ==
    /\ life.startup = "checking"
    /\ life' = [life EXCEPT !.startup = "checkFailed"]
    /\ UNCHANGED <<scene, app, sockets, records, migration>>

\* 'listening' or 'error'
Bound ==
    /\ life.startup = "binding"
    /\ life' \in {[life EXCEPT !.startup = s] : s \in {"running", "bindFailed"}}
    /\ UNCHANGED <<scene, app, sockets, records, migration>>

\* lifecycle.stop(): the first SIGTERM or SIGINT, or the catch of a failed start
Stop ==
    /\ ~life.stopping
    /\ life' = [life EXCEPT !.stopping = TRUE, !.shutdown = "waiting"]
    /\ UNCHANGED <<scene, app, sockets, records, migration>>

\* stop() of server.ts once start() has ended; closeServer() as far as its first
\* await.  httpServer.close() of a server that never listened is an error.
StopRuntime ==
    /\ life.shutdown = "waiting" /\ started
    /\ IF app.created
       THEN /\ app' = [app EXCEPT !.closing = TRUE, !.grace = "set"]
            /\ conns' = [c \in Conns |->
                  IF c \in sessions THEN [conns[c] EXCEPT !.phase = "closing"]
                  ELSE IF c \in lookups THEN [conns[c] EXCEPT !.phase = "destroyed"]
                  ELSE conns[c]]
            /\ life' = [life EXCEPT !.shutdown =
                  IF life.startup = "bindFailed" THEN "failed" ELSE "closing"]
       ELSE /\ life' = [life EXCEPT !.shutdown = "ending"]
            /\ UNCHANGED <<app, conns>>
    /\ UNCHANGED <<scene, standing, round, records, migration>>

\* forceClose with terminateAll(), and graceExpired of waitForPendingUpgrades()
GraceExpires ==
    /\ app.grace = "set"
    /\ app' = [app EXCEPT !.grace = "expired"]
    /\ conns' = moved(sessions, "closed")
    /\ UNCHANGED <<scene, life, standing, round, records, migration>>

\* fault: closeServer() does not wait for the sockets
allClosed_Ignored == TRUE

\* httpClosed and webSocketsClosed
allClosed == sessions = {} /\ \A c \in lookups : conns[c].phase = "destroyed"

\* Promise.all in closeServer() resolves and the recorder is flushed
Flush ==
    /\ life.shutdown = "closing" /\ allClosed
    /\ lookups = {} \/ app.grace = "expired"
    /\ R!Flush
    /\ UNCHANGED <<scene, life, app, sockets, migration>>

\* closeServer() returns, and its finally clears the timer
Closed ==
    /\ life.shutdown = "closing" /\ flush = "done"
    /\ app' = [app EXCEPT !.grace = "off"]
    /\ life' = [life EXCEPT !.shutdown = "ending"]
    /\ UNCHANGED <<scene, sockets, records, migration>>

\* databasePool.end(), which waits for the queries under way
PoolEnds ==
    /\ life.shutdown = "ending" /\ lookups = {} /\ round = {}
    /\ life' = [life EXCEPT !.shutdown = "done",
                            !.pool = IF @ = "open" THEN "ended" ELSE @]
    /\ UNCHANGED <<scene, app, sockets, records, migration>>

-----------------------------------------------------------------------------
(* Upgrades.                                                                 *)

\* handleUpgrade() as far as its await; "closed" stands for rejectUpgrade()
upgraded(account) ==
    LET n == Cardinality(sessions)
    IN  IF app.closing THEN "closed"
        ELSE IF ~account /\ hasRoom(n) THEN "open"
        ELSE IF account /\ life.pool = "open" /\ hasRoom(n + Cardinality(lookups)) THEN "lookup"
        ELSE "closed"

Upgrade(c, account) ==
    /\ life.startup = "running" /\ conns[c].phase = "none"
    /\ c \in scene.conns /\ (account => c \in scene.accounts)
    /\ conns' = [conns EXCEPT ![c] =
         IF upgraded(account) = "closed" THEN over
         ELSE [newConn EXCEPT !.phase = upgraded(account), !.account = account]]
    /\ UNCHANGED <<scene, life, app, standing, round, records, migration>>

\* fault: the limit is not read again when the lookup is over
stillRoom_Assumed == TRUE

stillRoom == hasRoom(Cardinality(sessions))

\* sessions.resolve() answers with an identity, with none, or rejects
LookupEnds(c) ==
    /\ c \in lookups
    /\ \/ conns' = moved({c}, "closed")
       \/ /\ standing[c] # "revoked"
          /\ conns[c].phase = "lookup" /\ ~app.closing /\ stillRoom
          /\ conns' = [conns EXCEPT ![c].phase = "open", ![c].role = standing[c]]
    /\ UNCHANGED <<scene, life, app, standing, round, records, migration>>

\* the peer closes, or the connection is reset
Gone(c) ==
    /\ c \in sessions \/ conns[c].phase = "lookup"
    /\ conns' = moved({c}, IF c \in sessions THEN "closed" ELSE "destroyed")
    /\ UNCHANGED <<scene, life, app, standing, round, records, migration>>

\* a closing handshake ends, by its peer or by the timer of ws
HandshakeEnds(c) ==
    /\ conns[c].phase = "closing"
    /\ conns' = moved({c}, "closed")
    /\ UNCHANGED <<scene, life, app, standing, round, records, migration>>

\* the peer disappears without a close
Vanish(c) ==
    /\ c \in scene.fragile \cap sessions /\ conns[c].peer
    /\ conns' = [conns EXCEPT ![c].peer = FALSE]
    /\ UNCHANGED <<scene, life, app, standing, round, records, migration>>

\* fault: the answer to an earlier ping counts for good
pinged_Once(c) == conns[c].alive

pinged(c) == conns[c].peer

\* heartbeat(): terminate who has not answered, ping the others.  A peer that is there
\* answers before the next one.
Heartbeat ==
    /\ ticking
    /\ \E c \in sessions : ~conns[c].alive \/ ~conns[c].peer
    /\ conns' = [c \in Conns |->
         IF c \notin sessions THEN conns[c]
         ELSE IF ~conns[c].alive THEN over
         ELSE [conns[c] EXCEPT !.alive = pinged(c)]]
    /\ UNCHANGED <<scene, life, app, standing, round, records, migration>>

-----------------------------------------------------------------------------
(* Revalidation.                                                             *)

\* a role change (role.ts), or the end of a session: signed out, expired, deleted, or
\* an account with another name
AccountChanges(c, to) ==
    /\ c \in scene.unsettled /\ c \in authenticated \cup lookups
    /\ standing[c] = "admin" /\ to \in {"player", "revoked", "renamed"}
    /\ standing' = [standing EXCEPT ![c] = to]
    /\ UNCHANGED <<scene, life, app, conns, round, records, migration>>

\* the interval; revalidationRunning is round # {}
Revalidate ==
    /\ ticking /\ round = {}
    /\ round' = {c \in authenticated : conns[c].phase = "open"}
    /\ UNCHANGED <<scene, life, app, conns, standing, records, migration>>

\* fault: only a revoked session is closed
refreshed_NameIgnored(c) ==
    IF standing[c] = "revoked" THEN [conns[c] EXCEPT !.phase = "closing"] ELSE conns[c]

\* the answer for c, when its socket is still open: 4001, 4002, or a new role
refreshed(c) ==
    IF standing[c] \in {"revoked", "renamed"}
    THEN [conns[c] EXCEPT !.phase = "closing"]
    ELSE [conns[c] EXCEPT !.role = standing[c]]

Revalidated(c) ==
    /\ c \in round
    /\ round' = round \ {c}
    /\ conns' = IF app.closing \/ conns[c].phase # "open" THEN conns
                ELSE [conns EXCEPT ![c] = refreshed(c)]
    /\ UNCHANGED <<scene, life, app, standing, records, migration>>

\* sessions.resolve() rejects: 1011
RevalidationFails(c) ==
    /\ c \in round
    /\ round' = round \ {c}
    /\ conns' = IF conns[c].phase = "open" THEN moved({c}, "closing") ELSE conns
    /\ UNCHANGED <<scene, life, app, standing, records, migration>>

-----------------------------------------------------------------------------
(* The other components.                                                     *)

\* onMatchCompleted: a match needs both of its sessions
MatchFinishes ==
    /\ life.pool # "none" /\ Cardinality(sessions) >= 2
    /\ R!Record
    /\ UNCHANGED <<scene, life, app, sockets, migration>>

\* a write, as far as the answer of the database, its failure or its loss
Write(r) ==
    /\ R!Insert(r) \/ R!InsertFails(r) \/ R!AnswerLost(r)
    /\ UNCHANGED <<scene, life, app, sockets, migration>>

WriteAgain(r) == R!DelayOver(r) /\ UNCHANGED <<scene, life, app, sockets, migration>>

WriteSettles(r) == R!Settle(r) /\ UNCHANGED <<scene, life, app, sockets, migration>>

FlushAgain == R!FlushAgain /\ UNCHANGED <<scene, life, app, sockets, migration>>

Migrates ==
    /\ \E m \in scene.migrators :
            M!Begin(m) \/ M!Lock(m) \/ M!Apply(m) \/ M!Commit(m) \/ M!Fail(m) \/ M!Lose(m)
            \/ M!Again(m)
    /\ UNCHANGED <<scene, life, app, sockets, records>>

\* A scene says how many matches may finish; which connections are made, which of them
\* may carry a cookie, may vanish, or may have their account changed; and which
\* processes migrate: the schema is empty when one does, and current otherwise.
Init ==
    /\ scene \in Scenes
    /\ \E auth \in BOOLEAN :
         /\ ~auth => scene.matches = 0 /\ scene.migrators = {}
         /\ life = newLife(auth) /\ app = newApp(auth)
    /\ conns = [c \in Conns |-> newConn]
    /\ standing = [c \in Conns |-> "admin"]
    /\ round = {}
    /\ R!InitWith(Matches - scene.matches)
    /\ M!InitWith(IF scene.migrators = {} THEN Files ELSE 0)

Next ==
    \/ SchemaRead \/ SchemaUnread \/ Bound \/ Stop \/ StopRuntime \/ GraceExpires
    \/ Flush \/ Closed \/ PoolEnds
    \/ Heartbeat \/ Revalidate
    \/ \E c \in Conns :
         \/ \E account \in BOOLEAN : Upgrade(c, account)
         \/ LookupEnds(c) \/ Gone(c) \/ HandshakeEnds(c) \/ Vanish(c)
         \/ \E to \in {"player", "revoked", "renamed"} : AccountChanges(c, to)
         \/ Revalidated(c) \/ RevalidationFails(c)
    \/ MatchFinishes \/ FlushAgain \/ Migrates
    \/ \E r \in R!Records : Write(r) \/ WriteAgain(r) \/ WriteSettles(r)

Spec == Init /\ [][Next]_vars

\* Timers fire, queries are answered or time out (database.ts), a closing handshake
\* ends by its peer or by the timer of ws, and a resolved promise is run.  Nothing is
\* assumed of players, of signals, or of the command that migrates.
FairSpec ==
    /\ Spec
    /\ WF_vars(SchemaRead \/ SchemaUnread) /\ WF_vars(Bound)
    /\ WF_vars(StopRuntime) /\ WF_vars(GraceExpires)
    /\ WF_vars(Flush) /\ WF_vars(Closed) /\ WF_vars(PoolEnds)
    /\ WF_vars(Heartbeat) /\ WF_vars(Revalidate)
    /\ \A c \in Conns :
         /\ WF_vars(LookupEnds(c)) /\ WF_vars(HandshakeEnds(c))
         /\ WF_vars(Revalidated(c) \/ RevalidationFails(c))
    /\ WF_vars(FlushAgain)
    /\ \A r \in R!Records : WF_vars(Write(r)) /\ WF_vars(WriteAgain(r))

-----------------------------------------------------------------------------
(* Properties.                                                               *)

\* The files are applied in order and once, and the server is only ever made on a
\* schema that is complete, whoever migrates meanwhile (start() checks, never migrates).
SchemaSound == M!AppliedInOrder /\ (app.created /\ life.pool # "none" => M!isCurrent(schema))

\* Neither the sessions nor the lookups pass the limit, although upgrades wait for the
\* database in between and guests do not; and once shutdown has begun no session is left
\* open or comes to be.
AdmissionBounded ==
    /\ Cardinality(sessions) <= MaxConnections
    /\ Cardinality(lookups) <= MaxConnections
    /\ app.closing => \A c \in Conns : conns[c].phase # "open"

\* An open session does not keep an identity that the account service has taken back or
\* changed: revalidation closes it or brings it up to date.
outdated(c) == conns[c].phase = "open" /\ conns[c].account /\ conns[c].role # standing[c]
IdentityFollows == \A c \in Conns : outdated(c) ~> ~outdated(c)

\* A peer that vanished without a close loses its session.
VanishedRemoved ==
    \A c \in Conns : (c \in sessions /\ ~conns[c].peer) ~> c \notin sessions

\* The recorder is flushed when no match can finish any more, and the pool ends when
\* nothing needs it.  A stop leaves the pool open in one case: listen() failed, and
\* closing a server that does not listen is an error that stop() does not survive.
StopReleases ==
    /\ flush # "idle" => sessions = {}
    /\ life.pool = "ended" => recorder.pending = {} /\ lookups = {} /\ round = {}
    /\ life.shutdown = "done" => life.pool # "open"
    /\ life.shutdown = "failed" => life.startup = "bindFailed"

\* A stop that was asked for ends, whatever the sockets, the lookups under way, the start
\* it interrupts and the database do.
StopEnds == life.stopping ~> life.shutdown \in {"done", "failed"}

\* No failure, retry or refusal uses up a writer for good, and every match that finished
\* is still to be written, stored or reported; none is left when the server has stopped.
Accounted ==
    /\ R!WritersKept /\ R!Accounted
    /\ life.shutdown = "done" => recorder.pending = {}
=============================================================================

----------------------------- MODULE MatchSync -----------------------------
(* A room and the two web clients that play in it: the clients' side of the  *)
(* authority protocol (web/src/game/onlineAuthority.ts) and the part of      *)
(* web/src/hooks/useMatchSession.ts that feeds it.  Packets travel over one  *)
(* WebSocket per client, in order in each direction, and a client may leave  *)
(* or lose its connection, and what it sent last, at any time.               *)
EXTENDS MatchRun

CONSTANTS
    Leavers,      \* the seats whose clients may leave
    MaxRuns,      \* the bound on the matches a room plays
    MaxCommands   \* the bound on the commands each client sends in a match

ASSUME SyncAssumption ==
    Leavers \subseteq Seats /\ MaxRuns \in Nat \ {0} /\ MaxCommands \in [Seats -> Nat]

VARIABLE clients

vars == <<server, uplink, clients>>

-----------------------------------------------------------------------------
(* Client state: the screen, and the OnlineAuthorityState behind it.         *)

\* "waiting" is the ready screen with readyLocked, "match" the screens from the
\* countdown to the results, "left" a page that has dropped its socket
Screens == {"ready", "waiting", "match", "sync-lost", "disconnected", "left"}
isTerminal(screen) == screen \in {"sync-lost", "disconnected", "left"}

newClient ==
    [screen |-> "ready", run |-> NoRun, canonical |-> newTurns(0),
     revision |-> 0, nextCommandId |-> 0, pending |-> <<>>]

createOnlineAuthority(m) ==
    [screen |-> "match", run |-> m.run, canonical |-> m.state,
     revision |-> 0, nextCommandId |-> 0, pending |-> <<>>]

syncLost(c) == [c EXCEPT !.screen = "sync-lost", !.pending = <<>>]

\* enterSyncLost and the close and disconnect events leave a terminal screen be
disconnected(c) ==
    IF isTerminal(c.screen) THEN c
    ELSE [c EXCEPT !.screen = "disconnected", !.pending = <<>>]

Init ==
    /\ server = createMatchRoom
    /\ uplink = [s \in Seats |-> <<>>]
    /\ clients = [s \in Seats |-> newClient]

-----------------------------------------------------------------------------
(* applyOnlineUpdate: seat s's client c handles the update m.                *)

answers(c, m) == c.pending # <<>> /\ Head(c.pending).id = m.id

rejectionFits(c, m) == m.revision = c.revision /\ answers(c, m)

\* the state the client is in when it replays the i-th command
replayedTo(c, m, i) == IF i = 1 THEN c.canonical ELSE m.commands[i - 1].after

acceptanceFits(c, s, m) ==
    /\ m.from = c.revision
    /\ m.to = m.from + Len(m.commands)
    /\ m.id # NoId =>
        answers(c, m) /\ m.seat = s /\ Head(c.pending).type = Last(m.commands).type
    /\ \A i \in DOMAIN m.commands : replayedTo(c, m, i).activeSeat = m.seat
    /\ m.timed <=> Last(m.commands).after.phase = "active"

\* fault: a batch is replayed no further than its first command
applyOnlineUpdate_FirstOnly(c, s, m) ==
    IF m.run # c.run THEN syncLost(c)
    ELSE IF m.kind = "rejected"
    THEN IF rejectionFits(c, m) THEN [c EXCEPT !.pending = <<>>] ELSE syncLost(c)
    ELSE IF acceptanceFits(c, s, m)
    THEN [c EXCEPT !.canonical = Head(m.commands).after,
                   !.revision = m.to,
                   !.pending = IF m.id = NoId THEN @ ELSE <<>>]
    ELSE syncLost(c)

applyOnlineUpdate(c, s, m) ==
    IF m.run # c.run THEN syncLost(c)
    ELSE IF m.kind = "rejected"
    THEN IF rejectionFits(c, m) THEN [c EXCEPT !.pending = <<>>] ELSE syncLost(c)
    ELSE IF acceptanceFits(c, s, m)
    THEN [c EXCEPT !.canonical = Last(m.commands).after,
                   !.revision = m.to,
                   !.pending = IF m.id = NoId THEN @ ELSE <<>>]
    ELSE syncLost(c)

-----------------------------------------------------------------------------
(* The clients' steps.                                                       *)

transmit(s, packet) == uplink' = [uplink EXCEPT ![s] = Append(@, packet)]

\* Ready, or Again? on the results screen
SendReady(s) ==
    LET c == clients[s]
    IN  /\ \/ c.screen = "ready"
           \/ c.screen = "match" /\ c.canonical.phase = "finished"
        /\ c.run < MaxRuns
        /\ transmit(s, [kind |-> "ready", ready |-> TRUE])
        /\ clients' = [clients EXCEPT ![s].screen = "waiting"]
        /\ UNCHANGED server

\* queueOnlineCommand; endReveal asks for a reveal that is up
SendCommand(s, type) ==
    LET c == clients[s]
    IN  /\ c.screen = "match"
        /\ c.pending = <<>>
        /\ c.canonical.phase = "active" /\ c.canonical.activeSeat = s
        /\ type = "end-reveal" => s \in c.canonical.revealActive
        /\ c.nextCommandId < MaxCommands[s]
        /\ transmit(s, [kind |-> "command", run |-> c.run, id |-> c.nextCommandId,
                        expected |-> c.revision, type |-> type])
        /\ clients' = [clients EXCEPT
                          ![s].nextCommandId = @ + 1,
                          ![s].pending = <<[id |-> c.nextCommandId, type |-> type]>>]
        /\ UNCHANGED server

\* onClientEvent.  An opponent's disconnection is ignored until a match has
\* started: matchRef is set by the first game-start.
afterPacket(c, s, m) ==
    IF m.kind = "game-start" THEN createOnlineAuthority(m)
    ELSE IF m.kind = "closed" THEN disconnected(c)
    ELSE IF m.kind = "opponent-disconnected"
    THEN IF c.run = NoRun THEN c ELSE disconnected(c)
    ELSE IF isTerminal(c.screen) THEN c
    ELSE IF c.run = NoRun THEN syncLost(c)
    ELSE applyOnlineUpdate(c, s, m)

Receive(s) ==
    /\ server.sent[s] # <<>>
    /\ clients' = IF clients[s].screen = "left" THEN clients
                  ELSE [clients EXCEPT ![s] = afterPacket(@, s, Head(server.sent[s]))]
    /\ server' = [server EXCEPT !.sent[s] = Tail(@)]
    /\ UNCHANGED uplink

\* The page is left or the connection lost; the server reads what has reached it
\* and then the close.
Leave(s) ==
    /\ s \in Leavers
    /\ clients[s].screen # "left"
    /\ clients' = [clients EXCEPT ![s].screen = "left", ![s].pending = <<>>]
    /\ \E n \in 0 .. Len(uplink[s]) :
        uplink' = [uplink EXCEPT
                      ![s] = Append(SubSeq(@, 1, n), [kind |-> "close"])]
    /\ UNCHANGED server

ClientNext ==
    \E s \in Seats :
        \/ SendReady(s)
        \/ \E type \in CommandTypes : SendCommand(s, type)
        \/ Receive(s)
        \/ Leave(s)

Next == ClientNext \/ (ServerNext /\ UNCHANGED clients)

Spec == Init /\ [][Next]_vars

\* The event loop runs every handler whose packet or timer is due, and the
\* network delivers what a live socket holds.  No player has to do anything.
FairSpec ==
    /\ Spec
    /\ WF_vars(TurnTimerFires /\ UNCHANGED clients)
    /\ \A s \in Seats :
        /\ WF_vars(Receive(s))
        /\ WF_vars((HandleReady(s) \/ HandleCommand(s) \/ HandleClose(s)) /\ UNCHANGED clients)

-----------------------------------------------------------------------------
(* Properties.                                                               *)

Pending == [id : Nat, type : CommandTypes]

\* Rooms, runs, timers and clients keep their types.
TypeOK ==
    /\ server.phase \in {"ready", "active", "finished", "abandoned"}
    /\ server.run.phase \in {"ready", "active", "finished", "abandoned"}
    /\ server.readySeats \subseteq Seats
    /\ server.run.id \in 0 .. MaxRuns
    /\ server.run.revision \in Nat
    /\ server.run.state \in TurnState
    /\ Len(server.run.bufferedOpponentUpdate) <= 1
    /\ Range(server.run.bufferedOpponentUpdate) \subseteq Buffer
    /\ server.turnTimer \in BOOLEAN /\ server.expired \in BOOLEAN
    /\ server.revealTimers \subseteq Seats
    /\ \A s \in Seats :
        /\ clients[s].screen \in Screens
        /\ clients[s].run \in 0 .. MaxRuns
        /\ clients[s].canonical \in TurnState
        /\ clients[s].revision \in Nat
        /\ clients[s].nextCommandId \in 0 .. MaxCommands[s]
        /\ server.run.acceptedCommandIds[s] \subseteq 0 .. MaxCommands[s] - 1
        /\ Range(clients[s].pending) \subseteq Pending

\* An active run never loses its clock and no other room keeps one, through
\* placements, inline timeouts, the finish, a rematch and abandonment.
ClockArmed ==
    /\ server.turnTimer <=> server.phase = "active"
    /\ server.phase = "active" <=> server.run.phase = "active"

\* A reveal is up exactly as long as its window is armed: resetPlacementWindow
\* drops both seats' windows, which is safe only because no reveal outlives the
\* turn that ends (a seat whose window was dropped would see on unbounded).
RevealClock ==
    server.revealTimers =
        IF server.phase = "active" THEN server.run.state.revealActive ELSE {}

\* The buffer is held exactly while an extra turn is half played, belongs to the
\* seat that plays it, and ends at the run's revision, whatever was folded in.
HalfWithheld ==
    LET run == server.run  buffer == run.bufferedOpponentUpdate
    IN  /\ (buffer # <<>>) <=>
            (server.phase = "active" /\ run.state.extraTurnInProgress # {})
        /\ \A b \in Range(buffer) :
            /\ run.state.extraTurnInProgress = {b.seat}
            /\ b.to = run.revision
            /\ b.to = b.from + Len(b.commands)

playing(s) ==
    clients[s].screen = "match" /\ clients[s].run = server.run.id

\* A client is never ahead of the server, and one that has caught up with the
\* run's revision has the server's state.
CanonicalIsReplay ==
    \A s \in Seats :
        playing(s) =>
            /\ clients[s].revision <= server.run.revision
            /\ clients[s].revision = server.run.revision =>
                clients[s].canonical = server.run.state

\* No client ever shows its opponent's extra turn half played.
OpponentHalfHidden ==
    \A s \in Seats : clients[s].canonical.extraTurnInProgress \subseteq {s}

isUpdate(m) == m.kind = "accepted" /\ m.run = server.run.id

\* The revision up to which seat s has been told of the run.
toldTo(s) ==
    LET run == server.run  buffer == run.bufferedOpponentUpdate
    IN  IF buffer = <<>> \/ Head(buffer).seat = s THEN run.revision ELSE Head(buffer).from

\* What is on its way to a client continues, without gap or overlap, the revision
\* the client is at, up to what is withheld from it: immediate, batched, timed
\* out and reveal-closing updates interleave without breaking the chain.
StreamContiguous ==
    \A s \in Seats :
        playing(s) /\ server.phase # "abandoned" =>
            LET q == server.sent[s]
                U == {i \in DOMAIN q : isUpdate(q[i])}
            IN  /\ U = {} => clients[s].revision = toldTo(s)
                /\ \A i \in U :
                    /\ (\A k \in U : i <= k) => q[i].from = clients[s].revision
                    /\ (\A k \in U : k <= i) => q[i].to = toldTo(s)
                /\ \A i, j \in U :
                    i < j /\ (\A k \in U : k <= i \/ j <= k) => q[j].from = q[i].to

\* The half of an extra turn that is played first reaches the opponent with the
\* second or not at all.
HalfTurnsHidden == HalfWithheld /\ OpponentHalfHidden

\* A client's board is the server's run replayed from an unbroken chain of
\* updates, whatever mix of batches it came in.
UpdatesReplay == StreamContiguous /\ CanonicalIsReplay

\* A pending command is in exactly one place: on its way to the server, or
\* answered on the way back.  Nothing is answered twice or forgotten.
OneAnswer ==
    \A s \in Seats :
        LET id(q) == {i \in DOMAIN q :
                        q[i].kind \in {"command", "accepted", "rejected"} /\ q[i].id # NoId}
        IN  ~isTerminal(clients[s].screen) =>
                Cardinality(id(uplink[s])) + Cardinality(id(server.sent[s]))
                    = Len(clients[s].pending)

\* A run is handed to the match history once, when its game is over, and never
\* when it was abandoned before that; a rematch does not hand it over again.
CompletedOnce ==
    server.completed =
        [i \in 1 .. (IF server.run.state.phase = "finished" THEN server.run.id
                     ELSE server.run.id - 1) |-> i]

\* An honest client loses synchronization in one way only: a command overtaken by
\* the end of its own turn is refused with a revision inside an update of its
\* opponent that is withheld, or was and is still on its way.
SyncLostOnlyBehindBuffer ==
    [][\A s \in Seats :
        clients'[s].screen = "sync-lost" /\ clients[s].screen # "sync-lost" =>
            LET m == Head(server.sent[s])
            IN  /\ m.kind = "rejected" /\ m.reason = "stale-revision"
                /\ \/ server.phase = "abandoned"
                   \/ \E u \in {n \in Range(server.sent[s]) : isUpdate(n)}
                             \cup Range(server.run.bufferedOpponentUpdate) :
                        /\ u.seat = otherSeat(s)
                        /\ u.from = clients[s].revision
                        /\ m.revision \in u.from + 1 .. u.to]_vars

\* A refused command tells its player why and play goes on: the message for
\* stale-revision reads 'The match changed before that action arrived.'
\* (web/src/game/onlineAuthority.ts:88), and only a revision gap is to end in
\* sync-lost.
StaleRejectionSurvived ==
    [][\A s \in Seats :
        Receive(s) /\ playing(s) /\ Head(server.sent[s]).kind = "rejected" =>
            clients'[s].screen = "match"]_vars

\* When the room is gone and all its packets have arrived, no client is left on
\* the ready screen or in a match against nobody.
OpponentLossTerminal ==
    \A s \in Seats :
        server.phase = "abandoned" /\ server.sent[s] = <<>> => isTerminal(clients[s].screen)

\* Every run ends, even if neither player acts or reads: the clock alone plays it
\* out.
RunsEnd == (server.phase = "active") ~> (server.phase # "active")

\* Both clients see the end of a run, unless they have lost it.
EndSeen ==
    \A s \in Seats :
        (server.phase = "finished") ~>
            (isTerminal(clients[s].screen) \/ clients[s].canonical.phase = "finished")

\* The clock ends every run and both clients see it.
EndsReachClients == RunsEnd /\ EndSeen

\* A player is never left waiting for the server: a pending command is answered,
\* or the match is over for that player.
PendingSettles ==
    \A s \in Seats : (clients[s].pending # <<>>) ~> (clients[s].pending = <<>>)
=============================================================================

-------------------------- MODULE MatchSync_proofs --------------------------

(* Proofs about a room and its two web clients, for every number of matches, *)
(* every length of a game and every command, leave and delay: the clocks and *)
(* the record of completed runs; that every command is answered once; that   *)
(* what a client shows is the server's run, replayed from an unbroken chain  *)
(* of updates, with no opponent's half turn in it; and that nothing but a    *)
(* refusal of a stale revision loses a client its synchronization.           *)
EXTENDS MatchSync, MatchRun_proofs, FiniteSetTheorems, WellFoundedInduction

-----------------------------------------------------------------------------

(* The inductive invariant.                                                  *)

ClientState ==
    [screen : Screens, run : Nat, canonical : TurnState, revision : Nat, nextCommandId : Nat,
     pending : {<<>>} \cup {<<p>> : p \in Pending}]

Sound ==
    /\ ServerSound(server)
    /\ uplink \in [Seats -> Seq(Upward)]
    /\ clients \in [Seats -> ClientState]

\* The places of a queue that hold packets of a kind.
requests(u) == {i \in DOMAIN u : u[i].kind = "command"}
readies(u)  == {i \in DOMAIN u : u[i].kind = "ready"}
starts(q)   == {i \in DOMAIN q : q[i].kind = "game-start"}
replies(q)  == {i \in DOMAIN q : q[i].kind \in {"accepted", "rejected"} /\ q[i].id # NoId}

\* A client is ready once for each run: its readiness is on its way, noted, or answered by
\* the run it starts, and until that run arrives the client does nothing else.
ReadyOnce(sv, u, c, s) ==
    LET q == sv.sent[s]
    IN  /\ \A i, j \in readies(u) : i = j
        /\ \A i, j \in starts(q) : i = j
        /\ readies(u) # {} => s \notin sv.readySeats /\ starts(q) = {}
        /\ s \in sv.readySeats => starts(q) = {}
        /\ readies(u) # {} \/ s \in sv.readySeats \/ starts(q) # {} =>
            c.screen = "waiting" \/ isTerminal(c.screen)
        /\ readies(u) # {} \/ s \in sv.readySeats => c.run = sv.run.id /\ c.run < MaxRuns

\* The run a client plays is the room's, except while the next one is on its way to it.
RunsFit(sv, u, c, s) ==
    LET q == sv.sent[s]
    IN  /\ c.run <= sv.run.id /\ sv.run.id <= MaxRuns
        /\ c.screen = "match" => c.run = sv.run.id
        /\ c.screen = "ready" => sv.run.id = NoRun
        /\ \A g \in starts(q) : q[g].run = sv.run.id /\ c.run < sv.run.id

\* A client's commands are read before the readiness that follows them, and answered before
\* the run that it starts.
InOrder(sv, u, c, s) ==
    LET q == sv.sent[s]
    IN  /\ \A i \in readies(u), j \in requests(u) : j < i
        /\ s \in sv.readySeats \/ starts(q) # {} => requests(u) = {}
        /\ \A g \in starts(q), j \in replies(q) : j < g

\* A command on its way is the client's last, and its id is new to the server.
IdsFresh(sv, u, c, s) ==
    /\ c.nextCommandId <= MaxCommands[s]
    /\ \A i \in requests(u) : u[i].run = c.run /\ u[i].id = c.nextCommandId - 1
    /\ \A i, j \in requests(u) : i = j
    /\ \A n \in sv.run.acceptedCommandIds[s] :
        /\ c.run = sv.run.id /\ n < c.nextCommandId
        /\ \A i \in requests(u) : u[i].id # n
    /\ \A e \in Range(sv.run.commandCaches[s]) : e.id \in sv.run.acceptedCommandIds[s]

\* A client waits for one answer, or for none.
Awaited(sv, u, c, s) ==
    LET q == sv.sent[s]
    IN  ~isTerminal(c.screen) =>
            /\ c.pending = <<>> => requests(u) = {} /\ replies(q) = {}
            /\ c.pending # <<>> =>
                \/ replies(q) = {} /\ \E i \in requests(u) : requests(u) = {i}
                \/ requests(u) = {} /\ \E i \in replies(q) : replies(q) = {i}

SeatSound(sv, u, c, s) ==
    /\ ReadyOnce(sv, u, c, s) /\ RunsFit(sv, u, c, s) /\ InOrder(sv, u, c, s)
    /\ IdsFresh(sv, u, c, s) /\ Awaited(sv, u, c, s)

\* A command that may be applied comes from the seat to act.
Fitting(sv, u, s) ==
    \A i \in requests(u) : u[i].run = sv.run.id =>
        /\ u[i].expected <= sv.run.revision
        /\ u[i].expected = sv.run.revision => sv.run.state.activeSeat = s

\* No packet tells a seat of its opponent's half turn, or of a run that is yet to come.
HalvesKept(sv, s) ==
    LET q == sv.sent[s]
    IN  \A i \in DOMAIN q :
            /\ q[i].kind = "accepted" =>
                /\ q[i].run <= sv.run.id
                /\ Last(q[i].commands).after.extraTurnInProgress \subseteq {s}
            /\ q[i].kind = "game-start" => q[i].state.extraTurnInProgress = {}

updates(run, q) == {i \in DOMAIN q : q[i].kind = "accepted" /\ q[i].run = run}

\* From base, in the state canonical, the updates on their way to s lead without a gap to
\* what s has been told, and to the run's state if that is all there is.
Chained(sv, s, base, canonical) ==
    LET q == sv.sent[s]
        U == updates(sv.run.id, q)
    IN  /\ base <= sv.run.revision
        /\ base = sv.run.revision => canonical = sv.run.state
        /\ \A i \in U :
            /\ q[i].to <= sv.run.revision
            /\ q[i].to = sv.run.revision => Last(q[i].commands).after = sv.run.state
            /\ (\A k \in U : i <= k) => q[i].from = base
        /\ \A i, j \in U : i < j /\ (\A k \in U : k <= i \/ j <= k) => q[j].from = q[i].to
        /\ sv.phase # "abandoned" =>
            /\ U = {} => base = told(sv, s)
            /\ \A i \in U : (\A k \in U : k <= i) => q[i].to = told(sv, s)

\* The chain starts where the client is, or at the start of the run that is on its way.
Replayed(sv, c, s) ==
    LET q == sv.sent[s]
    IN  /\ c.screen = "match" => Chained(sv, s, c.revision, c.canonical)
        /\ \A g \in starts(q) :
            /\ Chained(sv, s, 0, q[g].state)
            /\ \A i \in updates(sv.run.id, q) : g < i

ReplaySound(sv, u, c, s) ==
    /\ Fitting(sv, u, s) /\ HalvesKept(sv, s) /\ Replayed(sv, c, s)
    /\ c.canonical.extraTurnInProgress \subseteq {s}

Settled == \A s \in Seats : SeatSound(server, uplink[s], clients[s], s)
Replays == Halved(server) /\ \A s \in Seats : ReplaySound(server, uplink[s], clients[s], s)

-----------------------------------------------------------------------------

(* Types, clocks and the record of completed runs.                           *)

\* Rooms and clients start sound.
LEMMA SoundInit == Init => Sound
<1> SUFFICES ASSUME Init PROVE Sound
  OBVIOUS
<1>1. uplink \in [Seats -> Seq(Upward)]
  BY DEF Init
<1>2. newTurns(0) \in TurnState
  BY NewTurns DEF TurnSound, Seats
<1>3. newClient \in ClientState
  BY <1>2 DEF newClient, ClientState, Screens, NoRun
<1> QED BY <1>1, <1>3, RoomCreated DEF Init, Sound

\* A packet that has been read leaves the room sound.
LEMMA Popped ==
    ASSUME NEW sv, ServerSound(sv), NEW s \in Seats, sv.sent[s] # <<>>
    PROVE  LET r == [sv EXCEPT !.sent[s] = Tail(@)]
           IN  /\ ServerSound(r) /\ Alike(r, sv)
               /\ r.run = sv.run /\ r.sent[s] = Tail(sv.sent[s])
               /\ \A o \in Seats \ {s} : r.sent[o] = sv.sent[o]
<1> DEFINE q == [sv.sent EXCEPT ![s] = Tail(sv.sent[s])]
           r == [sv EXCEPT !.sent[s] = Tail(@)]
<1>1. sv \in ServerState /\ sv.sent \in [Seats -> Seq(Packet)]
  BY DEF ServerSound, RunSound, ServerState
<1>2. /\ q \in [Seats -> Seq(Packet)] /\ q[s] = Tail(sv.sent[s])
      /\ \A o \in Seats \ {s} : q[o] = sv.sent[o]
  BY <1>1
<1>3. r = [sv EXCEPT !.sent = q]
  BY <1>1 DEF ServerState
<1> HIDE DEF q, r
<1>4. /\ r \in ServerState /\ Alike(r, sv) /\ r.run = sv.run /\ r.sent = q
  BY <1>1, <1>2, <1>3 DEF ServerState, Alike
<1>5. ServerSound(r)
  BY <1>4 DEF ServerSound, RunSound, Alike
<1> QED BY <1>2, <1>4, <1>5 DEF r

\* A client handles every packet.
LEMMA PacketHandled ==
    ASSUME NEW c \in ClientState, NEW s \in Seats, NEW m \in Packet
    PROVE  afterPacket(c, s, m) \in ClientState
<1>1. /\ m.kind = "game-start" => m \in Started
      /\ m.kind = "accepted" => m \in Accepted
      /\ m.kind = "rejected" => m \in Rejected
      /\ m.kind \in {"game-start", "accepted", "rejected", "opponent-disconnected", "closed"}
  BY DEF Packet, Started, Accepted, Rejected, Notice
<1>2. syncLost(c) \in ClientState /\ disconnected(c) \in ClientState
  BY DEF syncLost, disconnected, ClientState, Screens
<1>3. [c EXCEPT !.pending = <<>>] \in ClientState
  BY DEF ClientState
<1>4. CASE m.kind = "game-start"
  BY <1>1, <1>4 DEF afterPacket, createOnlineAuthority, ClientState, Screens, Started
<1>5. CASE m.kind = "rejected"
  <2>1. applyOnlineUpdate(c, s, m) \in ClientState
    BY <1>2, <1>3, <1>5 DEF applyOnlineUpdate
  <2> QED BY <1>2, <1>5, <2>1 DEF afterPacket
<1>6. CASE m.kind = "accepted"
  <2>1. m.to \in Nat /\ m.commands \in Seq(Command) /\ m.commands # <<>>
    BY <1>1, <1>6 DEF Accepted, Batch
  <2>2. Last(m.commands).after \in TurnState
    <3>1. Last(m.commands) \in Command
      BY <2>1 DEF Last
    <3> QED BY <3>1 DEF Command
  <2> DEFINE st == Last(m.commands).after
             p == IF m.id = NoId THEN c.pending ELSE <<>>
             x == [c EXCEPT !.canonical = st, !.revision = m.to, !.pending = p]
  <2>3. p \in {<<>>} \cup {<<w>> : w \in Pending}
    BY DEF ClientState
  <2> HIDE DEF st, p
  <2>4. x \in ClientState
    BY <2>1, <2>2, <2>3 DEF ClientState, st
  <2>5. applyOnlineUpdate(c, s, m) \in {syncLost(c), x}
    BY <1>6 DEF applyOnlineUpdate, st, p
  <2> QED BY <1>2, <1>6, <2>4, <2>5 DEF afterPacket
<1>7. CASE m.kind \in {"opponent-disconnected", "closed"}
  BY <1>2, <1>7 DEF afterPacket
<1> QED BY <1>1, <1>4, <1>5, <1>6, <1>7

\* A packet that is read is one a client sends, and the rest stays in line.
LEMMA ReceivedPacket ==
    ASSUME Sound, NEW s \in Seats, NEW kind, received(s, kind)
    PROVE  LET e == Head(uplink[s])
           IN  /\ uplink[s] \in Seq(Upward) /\ uplink[s] # <<>> /\ e \in Upward /\ e.kind = kind
               /\ kind = "command" => e \in Envelope
               /\ kind = "ready" => e.ready = TRUE
               /\ uplink' \in [Seats -> Seq(Upward)]
               /\ uplink'[s] = Tail(uplink[s])
               /\ \A o \in Seats \ {s} : uplink'[o] = uplink[o]
<1>1. /\ uplink \in [Seats -> Seq(Upward)] /\ uplink[s] # <<>> /\ Head(uplink[s]).kind = kind
      /\ uplink' = [uplink EXCEPT ![s] = Tail(uplink[s])]
  BY DEF Sound, received
<1>2. Head(uplink[s]) \in Upward /\ Tail(uplink[s]) \in Seq(Upward)
  BY <1>1
<1> QED BY <1>1, <1>2 DEF Upward, Envelope

\* Every step of the server leaves the room sound.
LEMMA ServerStepSound ==
    ASSUME Sound, ServerNext
    PROVE  ServerSound(server') /\ uplink' \in [Seats -> Seq(Upward)]
<1>1. ServerSound(server) /\ uplink \in [Seats -> Seq(Upward)]
  BY DEF Sound
<1>2. CASE TurnTimerFires
  <2>1. server.phase = "active"
    BY <1>1, <1>2 DEF TurnTimerFires, ServerSound
  <2> QED BY <1>1, <1>2, <2>1, DeadlineResolved DEF TurnTimerFires
<1>3. CASE DeadlinePasses
  <2>1. /\ server' = [server EXCEPT !.expired = TRUE] /\ uplink' = uplink
        /\ server \in ServerState
    BY <1>1, <1>3 DEF DeadlinePasses, ServerSound, RunSound
  <2>2. /\ server' \in ServerState /\ Alike([server' EXCEPT !.expired = server.expired], server)
        /\ server'.phase = server.phase /\ server'.run = server.run
        /\ server'.turnTimer = server.turnTimer /\ server'.revealTimers = server.revealTimers
        /\ server'.completed = server.completed
    BY <2>1 DEF ServerState, Alike
  <2> QED BY <1>1, <2>1, <2>2 DEF ServerSound, RunSound
<1>4. ASSUME NEW s \in Seats, HandleReady(s)
      PROVE  ServerSound(server') /\ uplink' \in [Seats -> Seq(Upward)]
  <2>1. received(s, "ready")
    BY <1>4 DEF HandleReady
  <2>2. /\ Head(uplink[s]).ready = TRUE /\ uplink' \in [Seats -> Seq(Upward)]
    BY <2>1, ReceivedPacket
  <2>3. CASE server.phase = "abandoned"
    <3>1. server' = send(server, s, [kind |-> "closed"])
      BY <1>4, <2>3 DEF HandleReady
    <3>2. [kind |-> "closed"] \in Packet
      BY DEF Packet, Notice
    <3> QED BY <1>1, <2>2, <3>1, <3>2, SentSound
  <2>4. CASE server.phase # "abandoned"
    <3>1. server' \in setReady(server, s, TRUE)
      BY <1>4, <2>2, <2>4 DEF HandleReady
    <3> QED BY <1>1, <2>2, <2>4, <3>1, ReadySet
  <2> QED BY <2>3, <2>4
<1>5. ASSUME NEW s \in Seats, HandleCommand(s)
      PROVE  ServerSound(server') /\ uplink' \in [Seats -> Seq(Upward)]
  <2> DEFINE e == Head(uplink[s])
  <2>1. received(s, "command") /\ server' \in handleGameCommand(server, s, e)
    BY <1>5 DEF HandleCommand
  <2>2. e \in Envelope /\ uplink' \in [Seats -> Seq(Upward)]
    BY <2>1, ReceivedPacket
  <2> HIDE DEF e
  <2>3. PICK w : ServerSound(w) /\ Answered(w, server', s, e)
    BY <1>1, <2>1, <2>2, CommandHandled
  <2>4. CASE \E p \in Rejected : p.id = e.id /\ server' = send(w, s, p)
    BY <2>2, <2>3, <2>4, SentSound DEF Packet
  <2>5. CASE \E c \in repeated(w, s, e) : server' = send(w, s, c.reply)
    BY <2>2, <2>3, <2>5, SentSound, CachedReply
  <2>6. CASE /\ w.phase = "active"
             /\ \E st \in outcomes(w.run.state, s, e.type) :
                    server' = remembered(acceptClientCommand(w, s, e.id, e.type, st), s, e)
    <3>1. PICK st \in outcomes(w.run.state, s, e.type) :
              server' = remembered(acceptClientCommand(w, s, e.id, e.type, st), s, e)
      BY <2>6
    <3>2. ServerSound(remembered(acceptClientCommand(w, s, e.id, e.type, st), s, e))
      BY <2>2, <2>3, <2>6, CommandAccepted
    <3> QED BY <2>2, <3>1, <3>2
  <2> QED BY <2>3, <2>4, <2>5, <2>6 DEF Answered
<1>6. ASSUME NEW s \in Seats, HandleClose(s)
      PROVE  ServerSound(server') /\ uplink' \in [Seats -> Seq(Upward)]
  <2>1. received(s, "close") /\ server' = abandon(server, s)
    BY <1>6 DEF HandleClose
  <2> QED BY <1>1, <2>1, ReceivedPacket, Abandoned
<1>7. ASSUME NEW s \in Seats, RevealTimerFires(s)
      PROVE  ServerSound(server') /\ uplink' \in [Seats -> Seq(Upward)]
  BY <1>1, <1>7, WindowClosed DEF RevealTimerFires
<1> QED BY <1>2, <1>3, <1>4, <1>5, <1>6, <1>7 DEF ServerNext

\* The invariant of types, clocks and completed runs is inductive.
LEMMA SoundNext == Sound /\ [Next]_vars => Sound'
<1> SUFFICES ASSUME Sound, [Next]_vars PROVE Sound'
  OBVIOUS
<1>1. /\ ServerSound(server) /\ uplink \in [Seats -> Seq(Upward)]
      /\ clients \in [Seats -> ClientState]
  BY DEF Sound
<1>2. ASSUME NEW s \in Seats, SendReady(s) PROVE Sound'
  <2>1. /\ server' = server /\ clients' = [clients EXCEPT ![s].screen = "waiting"]
        /\ uplink' = [uplink EXCEPT ![s] = Append(@, [kind |-> "ready", ready |-> TRUE])]
    BY <1>2 DEF SendReady, transmit
  <2>2. [kind |-> "ready", ready |-> TRUE] \in Upward
    BY DEF Upward
  <2>3. [clients[s] EXCEPT !.screen = "waiting"] \in ClientState
    BY <1>1 DEF ClientState, Screens
  <2> QED BY <1>1, <2>1, <2>2, <2>3 DEF Sound
<1>3. ASSUME NEW s \in Seats, NEW type \in CommandTypes, SendCommand(s, type) PROVE Sound'
  <2> DEFINE c == clients[s]
             e == [kind |-> "command", run |-> c.run, id |-> c.nextCommandId,
                   expected |-> c.revision, type |-> type]
             p == <<[id |-> c.nextCommandId, type |-> type]>>
             x == [c EXCEPT !.nextCommandId = c.nextCommandId + 1, !.pending = p]
  <2>1. c \in ClientState
    BY <1>1
  <2>2. /\ server' = server /\ uplink' = [uplink EXCEPT ![s] = Append(uplink[s], e)]
        /\ clients' = [clients EXCEPT ![s] = x]
    BY <1>1, <1>3 DEF SendCommand, transmit
  <2>3. e \in Upward
    BY <2>1 DEF Upward, Envelope, ClientState
  <2>4. x \in ClientState
    <3> DEFINE w0 == [id |-> c.nextCommandId, type |-> type]
    <3>1. w0 \in Pending /\ c.nextCommandId + 1 \in Nat
      BY <2>1 DEF ClientState, Pending
    <3> HIDE DEF w0
    <3>2. <<w0>> \in {<<>>} \cup {<<w>> : w \in Pending}
      BY <3>1
    <3>3. p = <<w0>>
      BY DEF w0
    <3> HIDE DEF p, c
    <3> QED BY <2>1, <3>1, <3>2, <3>3 DEF ClientState
  <2> HIDE DEF e, x
  <2> QED BY <1>1, <2>2, <2>3, <2>4 DEF Sound
<1>4. ASSUME NEW s \in Seats, Receive(s) PROVE Sound'
  <2>1. server.sent[s] # <<>> /\ server.sent[s] \in Seq(Packet)
    BY <1>1, <1>4 DEF Receive, ServerSound, RunSound, ServerState
  <2>2. ServerSound(server') /\ uplink' = uplink
    BY <1>1, <1>4, <2>1, Popped DEF Receive
  <2>3. afterPacket(clients[s], s, Head(server.sent[s])) \in ClientState
    BY <1>1, <2>1, PacketHandled
  <2>4. clients' \in [Seats -> ClientState]
    BY <1>1, <1>4, <2>3 DEF Receive
  <2> QED BY <1>1, <2>2, <2>4 DEF Sound
<1>5. ASSUME NEW s \in Seats, Leave(s) PROVE Sound'
  <2>1. PICK n \in 0 .. Len(uplink[s]) :
            uplink' = [uplink EXCEPT ![s] = Append(SubSeq(uplink[s], 1, n), [kind |-> "close"])]
    BY <1>5 DEF Leave
  <2>2. /\ server' = server
        /\ clients' = [clients EXCEPT ![s] = [clients[s] EXCEPT !.screen = "left", !.pending = <<>>]]
    BY <1>1, <1>5 DEF Leave
  <2>3. [clients[s] EXCEPT !.screen = "left", !.pending = <<>>] \in ClientState
    BY <1>1 DEF ClientState, Screens
  <2>4. Append(SubSeq(uplink[s], 1, n), [kind |-> "close"]) \in Seq(Upward)
    <3>1. [kind |-> "close"] \in Upward
      BY DEF Upward
    <3>2. uplink[s] \in Seq(Upward)
      BY <1>1
    <3> QED BY <3>1, <3>2
  <2> QED BY <1>1, <2>1, <2>2, <2>3, <2>4 DEF Sound
<1>6. CASE ServerNext /\ UNCHANGED clients
  BY <1>1, <1>6, ServerStepSound DEF Sound
<1>7. CASE UNCHANGED vars
  BY <1>7 DEF vars, Sound
<1> QED BY <1>2, <1>3, <1>4, <1>5, <1>6, <1>7 DEF Next, ClientNext

\* Rooms and clients stay sound.
THEOREM SoundInvariant == Spec => []Sound
BY SoundInit, SoundNext, PTL DEF Spec

\* An active run never loses its clock and no other room keeps one.
THEOREM ClocksStayArmed == Spec => []ClockArmed
<1>1. Sound => ClockArmed
  BY DEF Sound, ServerSound, RunSound, ClockArmed
<1> QED BY <1>1, SoundInvariant, PTL

\* A reveal is up exactly as long as its window is armed.
THEOREM RevealsStayTimed == Spec => []RevealClock
<1>1. Sound => RevealClock
  BY DEF Sound, ServerSound, RevealClock
<1> QED BY <1>1, SoundInvariant, PTL

\* A run is handed to the match history once, when its game is over.
THEOREM RunsHandedOverOnce == Spec => []CompletedOnce
<1>1. Sound => CompletedOnce
  BY DEF Sound, ServerSound, RunSound, CompletedOnce
<1> QED BY <1>1, SoundInvariant, PTL

-----------------------------------------------------------------------------

(* Queues.                                                                   *)

\* A packet at the end of a queue.
LEMMA Appended ==
    ASSUME NEW S, NEW q \in Seq(S), NEW x \in S
    PROVE  LET n == Len(q) + 1
               a == Append(q, x)
           IN  /\ n \in Nat /\ DOMAIN a = DOMAIN q \cup {n} /\ n \notin DOMAIN q /\ a[n] = x
               /\ \A i \in DOMAIN q : a[i] = q[i] /\ i < n /\ i \in Nat
OBVIOUS

\* A queue without its head.
LEMMA Shortened ==
    ASSUME NEW S, NEW q \in Seq(S), q # <<>>
    PROVE  LET t == Tail(q)
           IN  /\ t \in Seq(S) /\ 1 \in DOMAIN q /\ q[1] = Head(q) /\ DOMAIN q \subseteq Nat \ {0}
               /\ DOMAIN t = {i \in Nat \ {0} : i + 1 \in DOMAIN q}
               /\ \A i \in DOMAIN t : t[i] = q[i + 1]
OBVIOUS

\* What a client has sent, with one packet more.
LEMMA SentUp ==
    ASSUME NEW u \in Seq(Upward), NEW x \in Upward
    PROVE  LET n == Len(u) + 1
               a == Append(u, x)
           IN  /\ requests(a) = requests(u) \cup {i \in {n} : x.kind = "command"}
               /\ readies(a) = readies(u) \cup {i \in {n} : x.kind = "ready"}
               /\ a[n] = x /\ n \in Nat /\ n \notin DOMAIN u
               /\ \A i \in DOMAIN u : a[i] = u[i] /\ i < n /\ i \in Nat
               /\ requests(u) \subseteq DOMAIN u /\ readies(u) \subseteq DOMAIN u
<1> DEFINE n == Len(u) + 1
           a == Append(u, x)
<1>1. /\ n \in Nat /\ DOMAIN a = DOMAIN u \cup {n} /\ n \notin DOMAIN u /\ a[n] = x
      /\ \A i \in DOMAIN u : a[i] = u[i] /\ i < n /\ i \in Nat
  BY Appended
<1> HIDE DEF n, a
<1> QED BY <1>1 DEF requests, readies, n, a

\* What a client has sent, without the packet that has been read.
LEMMA ReadUp ==
    ASSUME NEW u \in Seq(Upward), u # <<>>
    PROVE  LET t == Tail(u)
           IN  /\ requests(t) = {i \in Nat \ {0} : i + 1 \in requests(u)}
               /\ readies(t) = {i \in Nat \ {0} : i + 1 \in readies(u)}
               /\ \A i \in DOMAIN t : t[i] = u[i + 1]
               /\ requests(t) \subseteq DOMAIN t /\ requests(u) \subseteq Nat \ {0}
               /\ readies(t) \subseteq DOMAIN t /\ readies(u) \subseteq Nat \ {0}
               /\ u[1] = Head(u)
               /\ Head(u).kind = "command" => 1 \in requests(u)
               /\ Head(u).kind = "ready" => 1 \in readies(u)
<1> DEFINE t == Tail(u)
<1>1. /\ 1 \in DOMAIN u /\ u[1] = Head(u) /\ DOMAIN u \subseteq Nat \ {0}
      /\ DOMAIN t = {i \in Nat \ {0} : i + 1 \in DOMAIN u}
      /\ \A i \in DOMAIN t : t[i] = u[i + 1]
  BY Shortened
<1> HIDE DEF t
<1> QED BY <1>1 DEF requests, readies, t

\* What a client is sent, with one packet more.
LEMMA SentDown ==
    ASSUME NEW q \in Seq(Packet), NEW x \in Packet
    PROVE  LET n == Len(q) + 1
               a == Append(q, x)
           IN  /\ starts(a) = starts(q) \cup {i \in {n} : x.kind = "game-start"}
               /\ replies(a) = replies(q) \cup
                    {i \in {n} : x.kind \in {"accepted", "rejected"} /\ x.id # NoId}
               /\ a[n] = x /\ n \in Nat /\ n \notin DOMAIN q
               /\ \A i \in DOMAIN q : a[i] = q[i] /\ i < n /\ i \in Nat
               /\ starts(q) \subseteq DOMAIN q /\ replies(q) \subseteq DOMAIN q
<1> DEFINE n == Len(q) + 1
           a == Append(q, x)
<1>1. /\ n \in Nat /\ DOMAIN a = DOMAIN q \cup {n} /\ n \notin DOMAIN q /\ a[n] = x
      /\ \A i \in DOMAIN q : a[i] = q[i] /\ i < n /\ i \in Nat
  BY Appended
<1> HIDE DEF n, a
<1> QED BY <1>1 DEF starts, replies, n, a

\* What a client is sent, without the packet that has arrived.
LEMMA ReadDown ==
    ASSUME NEW q \in Seq(Packet), q # <<>>
    PROVE  LET t == Tail(q)
           IN  /\ starts(t) = {i \in Nat \ {0} : i + 1 \in starts(q)}
               /\ replies(t) = {i \in Nat \ {0} : i + 1 \in replies(q)}
               /\ \A i \in DOMAIN t : t[i] = q[i + 1]
               /\ starts(t) \subseteq DOMAIN t /\ starts(q) \subseteq Nat \ {0}
               /\ replies(t) \subseteq DOMAIN t /\ replies(q) \subseteq Nat \ {0}
               /\ q[1] = Head(q)
               /\ 1 \in starts(q) <=> Head(q).kind = "game-start"
               /\ 1 \in replies(q) <=> /\ Head(q).kind \in {"accepted", "rejected"}
                                       /\ Head(q).id # NoId
<1> DEFINE t == Tail(q)
<1>1. /\ 1 \in DOMAIN q /\ q[1] = Head(q) /\ DOMAIN q \subseteq Nat \ {0}
      /\ DOMAIN t = {i \in Nat \ {0} : i + 1 \in DOMAIN q}
      /\ \A i \in DOMAIN t : t[i] = q[i + 1]
  BY Shortened
<1> HIDE DEF t
<1> QED BY <1>1 DEF starts, replies, t

-----------------------------------------------------------------------------

(* Commands and their answers, readiness and the run it starts.              *)

\* A packet that is neither the start of a run nor the answer to a command.
unmarked(p) == p.kind # "game-start" /\ (p.kind \in {"accepted", "rejected"} => p.id = NoId)

\* A step of the room that does not touch what seat s and the room expect of each other.
Undisturbed(r, sv, s) ==
    /\ r.run.id = sv.run.id
    /\ r.run.acceptedCommandIds[s] = sv.run.acceptedCommandIds[s]
    /\ r.run.commandCaches[s] = sv.run.commandCaches[s]
    /\ s \in r.readySeats => s \in sv.readySeats
    /\ \/ r.sent[s] = sv.sent[s]
       \/ \E p \in Packet : unmarked(p) /\ r.sent[s] = Append(sv.sent[s], p)

\* Such a step leaves a seat's affairs in order.
LEMMA SeatUndisturbed ==
    ASSUME NEW sv, NEW r, NEW s \in Seats, NEW u, NEW c, ServerSound(sv),
           SeatSound(sv, u, c, s), Undisturbed(r, sv, s)
    PROVE  SeatSound(r, u, c, s)
<1>1. sv.sent[s] \in Seq(Packet)
  BY SeatTypes
<1>2. /\ starts(r.sent[s]) = starts(sv.sent[s]) /\ replies(r.sent[s]) = replies(sv.sent[s])
      /\ \A g \in starts(sv.sent[s]) : r.sent[s][g] = sv.sent[s][g]
  <2>1. CASE r.sent[s] = sv.sent[s]
    BY <2>1
  <2>2. CASE \E p \in Packet : unmarked(p) /\ r.sent[s] = Append(sv.sent[s], p)
    <3>1. PICK p \in Packet : unmarked(p) /\ r.sent[s] = Append(sv.sent[s], p)
      BY <2>2
    <3> DEFINE a == Append(sv.sent[s], p)
               n == Len(sv.sent[s]) + 1
    <3>2. /\ starts(a) = starts(sv.sent[s]) \cup {i \in {n} : p.kind = "game-start"}
          /\ replies(a) = replies(sv.sent[s]) \cup
                {i \in {n} : p.kind \in {"accepted", "rejected"} /\ p.id # NoId}
          /\ \A g \in starts(sv.sent[s]) : a[g] = sv.sent[s][g]
      BY <1>1, SentDown
    <3> HIDE DEF a, n
    <3>3. starts(a) = starts(sv.sent[s]) /\ replies(a) = replies(sv.sent[s])
      BY <3>1, <3>2 DEF unmarked
    <3> QED BY <3>1, <3>2, <3>3 DEF a
  <2> QED BY <2>1, <2>2 DEF Undisturbed
<1>3. ReadyOnce(r, u, c, s)
  BY <1>2 DEF SeatSound, ReadyOnce, Undisturbed
<1>4. RunsFit(r, u, c, s)
  BY <1>2 DEF SeatSound, RunsFit, Undisturbed
<1>5. InOrder(r, u, c, s)
  BY <1>2 DEF SeatSound, InOrder, Undisturbed
<1>6. IdsFresh(r, u, c, s)
  BY DEF SeatSound, IdsFresh, Undisturbed
<1>7. Awaited(r, u, c, s)
  BY <1>2 DEF SeatSound, Awaited, Undisturbed
<1> QED BY <1>3, <1>4, <1>5, <1>6, <1>7 DEF SeatSound

\* The answer to the command that is read takes its place.
LEMMA SeatReplied ==
    ASSUME NEW sv, NEW r, NEW s \in Seats, NEW u \in Seq(Upward), NEW c \in ClientState,
           NEW p \in Packet, ServerSound(sv), SeatSound(sv, u, c, s), u # <<>>,
           Head(u).kind = "command", p.kind \in {"accepted", "rejected"}, p.id # NoId,
           r.run.id = sv.run.id, r.readySeats = sv.readySeats,
           r.sent[s] = Append(sv.sent[s], p),
           \A n \in r.run.acceptedCommandIds[s] :
                \/ n \in sv.run.acceptedCommandIds[s]
                \/ n = Head(u).id /\ Head(u).run = sv.run.id,
           \A e \in Range(r.run.commandCaches[s]) : e.id \in r.run.acceptedCommandIds[s]
    PROVE  SeatSound(r, Tail(u), c, s)
<1> DEFINE v == Tail(u)
           q == sv.sent[s]
           m == Len(q) + 1
<1>1. q \in Seq(Packet) /\ c.nextCommandId \in Nat /\ sv.run.acceptedCommandIds[s] \subseteq Nat
  BY SeatTypes DEF ClientState
<1>2. /\ starts(r.sent[s]) = starts(q) /\ replies(r.sent[s]) = replies(q) \cup {m}
      /\ \A g \in starts(q) : r.sent[s][g] = q[g]
  <2> DEFINE a == Append(q, p)
  <2>1. /\ starts(a) = starts(q) \cup {i \in {m} : p.kind = "game-start"}
        /\ replies(a) = replies(q) \cup
                {i \in {m} : p.kind \in {"accepted", "rejected"} /\ p.id # NoId}
        /\ \A g \in starts(q) : a[g] = q[g]
    BY <1>1, SentDown
  <2> HIDE DEF a, m
  <2>2. starts(a) = starts(q) /\ replies(a) = replies(q) \cup {m}
    BY <2>1
  <2> QED BY <2>1, <2>2 DEF a
<1>3. /\ requests(v) = {i \in Nat \ {0} : i + 1 \in requests(u)}
      /\ readies(v) = {i \in Nat \ {0} : i + 1 \in readies(u)}
      /\ \A i \in requests(v) : v[i] = u[i + 1]
      /\ requests(u) \subseteq Nat \ {0} /\ readies(u) \subseteq Nat \ {0} /\ 1 \in requests(u)
      /\ u[1] = Head(u)
  BY ReadUp
<1> HIDE DEF v, m
<1>4. requests(u) = {1} /\ requests(v) = {} /\ starts(q) = {} /\ s \notin sv.readySeats
  BY <1>3 DEF SeatSound, InOrder, IdsFresh
<1>5. readies(v) # {} => readies(u) # {}
  BY <1>3
<1>6. ReadyOnce(r, v, c, s)
  <2>1. \A i, j \in readies(v) : i = j
    BY <1>3 DEF SeatSound, ReadyOnce
  <2> QED BY <1>2, <1>4, <1>5, <2>1 DEF SeatSound, ReadyOnce
<1>7. RunsFit(r, v, c, s)
  BY <1>2, <1>4 DEF SeatSound, RunsFit
<1>8. InOrder(r, v, c, s)
  BY <1>2, <1>4 DEF InOrder
<1>9. IdsFresh(r, v, c, s)
  <2>1. u[1].run = c.run /\ u[1].id = c.nextCommandId - 1 /\ c.nextCommandId <= MaxCommands[s]
    BY <1>4 DEF SeatSound, IdsFresh
  <2>2. \A n \in r.run.acceptedCommandIds[s] : c.run = r.run.id /\ n < c.nextCommandId
    BY <1>1, <1>3, <2>1 DEF SeatSound, IdsFresh
  <2> QED BY <1>4, <2>1, <2>2 DEF IdsFresh
<1>10. Awaited(r, v, c, s)
  BY <1>2, <1>4 DEF SeatSound, Awaited
<1> QED BY <1>6, <1>7, <1>8, <1>9, <1>10 DEF SeatSound, v

\* A packet that changes nothing is read.
LEMMA SeatRead ==
    ASSUME NEW sv, NEW s \in Seats, NEW u \in Seq(Upward), NEW c \in ClientState,
           SeatSound(sv, u, c, s), u # <<>>, Head(u).kind # "command"
    PROVE  SeatSound(sv, Tail(u), c, s)
<1> DEFINE v == Tail(u)
<1>1. /\ requests(v) = {i \in Nat \ {0} : i + 1 \in requests(u)}
      /\ readies(v) = {i \in Nat \ {0} : i + 1 \in readies(u)}
      /\ \A i \in requests(v) : v[i] = u[i + 1]
      /\ requests(u) \subseteq Nat \ {0} /\ readies(u) \subseteq Nat \ {0}
      /\ u[1] = Head(u)
  BY ReadUp
<1>2. 1 \notin requests(u)
  BY <1>1 DEF requests
<1> HIDE DEF v
<1>3. requests(v) = {} <=> requests(u) = {}
  <2>1. ASSUME NEW i \in requests(u) PROVE i - 1 \in requests(v)
    BY <1>1, <1>2
  <2> QED BY <1>1, <2>1
<1>4. readies(v) # {} => readies(u) # {}
  BY <1>1
<1>5. ReadyOnce(sv, v, c, s)
  <2>1. \A i, j \in readies(v) : i = j
    BY <1>1 DEF SeatSound, ReadyOnce
  <2> QED BY <1>4, <2>1 DEF SeatSound, ReadyOnce
<1>6. RunsFit(sv, v, c, s)
  BY DEF SeatSound, RunsFit
<1>7. InOrder(sv, v, c, s)
  <2>1. \A i \in readies(v), j \in requests(v) : j < i
    BY <1>1 DEF SeatSound, InOrder
  <2> QED BY <1>3, <2>1 DEF SeatSound, InOrder
<1>8. IdsFresh(sv, v, c, s)
  BY <1>1 DEF SeatSound, IdsFresh
<1>9. Awaited(sv, v, c, s)
  <2>1. ASSUME NEW i \in requests(u), requests(u) = {i}
        PROVE  requests(v) = {i - 1} /\ i - 1 \in requests(v)
    BY <1>1, <1>2, <2>1
  <2>2. (\E i \in requests(u) : requests(u) = {i}) => \E i \in requests(v) : requests(v) = {i}
    BY <2>1
  <2> HIDE DEF v
  <2> QED BY <1>3, <2>2 DEF SeatSound, Awaited
<1> QED BY <1>5, <1>6, <1>7, <1>8, <1>9 DEF SeatSound, v

\* A client's readiness is noted.
LEMMA SeatReady ==
    ASSUME NEW sv, NEW r, NEW s \in Seats, NEW u \in Seq(Upward), NEW c \in ClientState,
           SeatSound(sv, u, c, s), u # <<>>, Head(u).kind = "ready",
           r.run = sv.run, r.sent[s] = sv.sent[s]
    PROVE  SeatSound(r, Tail(u), c, s)
<1> DEFINE v == Tail(u)
<1>1. /\ readies(v) = {i \in Nat \ {0} : i + 1 \in readies(u)}
      /\ requests(u) \subseteq Nat \ {0} /\ readies(u) \subseteq Nat \ {0} /\ 1 \in readies(u)
  BY ReadUp
<1>2. SeatSound(sv, v, c, s)
  BY SeatRead
<1> HIDE DEF v
<1>3. readies(v) = {}
  BY <1>1 DEF SeatSound, ReadyOnce
<1>4. requests(u) = {}
  BY <1>1 DEF SeatSound, InOrder
<1>5. requests(v) = {}
  BY <1>2, <1>1, <1>4, ReadUp DEF v
<1>6. ReadyOnce(r, v, c, s)
  <2>1. /\ readies(u) # {} => s \notin sv.readySeats /\ starts(sv.sent[s]) = {}
        /\ \A i, j \in starts(sv.sent[s]) : i = j
        /\ readies(u) # {} => c.screen = "waiting" \/ isTerminal(c.screen)
        /\ readies(u) # {} => c.run = sv.run.id /\ c.run < MaxRuns
    BY DEF SeatSound, ReadyOnce
  <2> QED BY <1>1, <1>3, <2>1 DEF ReadyOnce
<1>7. RunsFit(r, v, c, s) /\ InOrder(r, v, c, s) /\ IdsFresh(r, v, c, s) /\ Awaited(r, v, c, s)
  BY <1>2, <1>5 DEF SeatSound, RunsFit, InOrder, IdsFresh, Awaited
<1> QED BY <1>6, <1>7 DEF SeatSound, v

\* A run that both clients are ready for starts.
LEMMA SeatBegun ==
    ASSUME NEW sv, NEW r, NEW s \in Seats, NEW u \in Seq(Upward), NEW c \in ClientState,
           NEW first \in Seats, SeatSound(sv, u, c, s), s \in sv.readySeats, Begun(r, sv, first),
           sv.run.id \in Nat, sv.sent[s] \in Seq(Packet)
    PROVE  SeatSound(r, u, c, s)
<1> DEFINE q == sv.sent[s]
           m == Len(q) + 1
           p == [kind |-> "game-start", run |-> sv.run.id + 1, state |-> newTurns(first)]
           a == Append(q, p)
<1>1. /\ readies(u) = {} /\ starts(q) = {} /\ requests(u) = {}
      /\ c.screen = "waiting" \/ isTerminal(c.screen)
      /\ c.run = sv.run.id /\ c.run < MaxRuns
  BY DEF SeatSound, ReadyOnce, InOrder
<1>2. /\ r.run.id = sv.run.id + 1 /\ r.run.acceptedCommandIds[s] = {}
      /\ r.run.commandCaches[s] = <<>> /\ r.readySeats = {} /\ r.sent[s] = a
  BY DEF Begun, newRun
<1>3. p \in Packet
  BY NewTurns DEF Packet, Started, TurnSound
<1>4. p.kind = "game-start" /\ p.run = sv.run.id + 1
  OBVIOUS
<1> HIDE DEF p
<1>5. /\ starts(a) = starts(q) \cup {i \in {m} : p.kind = "game-start"}
      /\ replies(a) = replies(q) \cup
            {i \in {m} : p.kind \in {"accepted", "rejected"} /\ p.id # NoId}
      /\ a[m] = p /\ \A i \in DOMAIN q : i < m
      /\ replies(q) \subseteq DOMAIN q
  BY <1>3, SentDown
<1>6. starts(a) = {m} /\ replies(a) = replies(q) /\ a[m] = p /\ \A i \in replies(a) : i < m
  BY <1>1, <1>4, <1>5
<1> HIDE DEF a, m, q
<1>7. ReadyOnce(r, u, c, s)
  BY <1>1, <1>2, <1>6 DEF ReadyOnce
<1>8. RunsFit(r, u, c, s)
  <2>1. MaxRuns \in Nat
    BY SyncAssumption
  <2> QED BY <1>1, <1>2, <1>4, <1>6, <2>1 DEF RunsFit, isTerminal
<1>9. InOrder(r, u, c, s)
  BY <1>1, <1>2, <1>6 DEF InOrder
<1>10. IdsFresh(r, u, c, s)
  BY <1>1, <1>2 DEF SeatSound, IdsFresh, Range
<1>11. Awaited(r, u, c, s)
  BY <1>1, <1>2, <1>6 DEF SeatSound, Awaited, q
<1> QED BY <1>7, <1>8, <1>9, <1>10, <1>11 DEF SeatSound

\* A client makes itself ready.
LEMMA SeatSentReady ==
    ASSUME NEW sv, NEW s \in Seats, NEW u \in Seq(Upward), NEW c \in ClientState, NEW d,
           SeatSound(sv, u, c, s), c.screen \in {"ready", "match"}, c.run < MaxRuns,
           d = [c EXCEPT !.screen = "waiting"], sv.run.id \in Nat
    PROVE  SeatSound(sv, Append(u, [kind |-> "ready", ready |-> TRUE]), d, s)
<1> DEFINE x == [kind |-> "ready", ready |-> TRUE]
           v == Append(u, x)
           n == Len(u) + 1
<1>1. x \in Upward /\ x.kind = "ready"
  BY DEF Upward
<1> HIDE DEF x
<1>2. /\ requests(v) = requests(u) \cup {i \in {n} : x.kind = "command"}
      /\ readies(v) = readies(u) \cup {i \in {n} : x.kind = "ready"}
      /\ \A i \in DOMAIN u : v[i] = u[i] /\ i < n
      /\ requests(u) \subseteq DOMAIN u
  BY <1>1, SentUp
<1> HIDE DEF v, n
<1>3. /\ d.screen = "waiting" /\ d.run = c.run /\ d.nextCommandId = c.nextCommandId
      /\ d.pending = c.pending /\ ~isTerminal(c.screen) /\ c.run \in Nat
  BY DEF ClientState, isTerminal
<1>4. /\ readies(u) = {} /\ s \notin sv.readySeats /\ starts(sv.sent[s]) = {}
      /\ c.run = sv.run.id
  <2>1. c.screen # "waiting" /\ ~isTerminal(c.screen)
    BY <1>3
  <2>2. readies(u) = {} /\ s \notin sv.readySeats /\ starts(sv.sent[s]) = {}
    BY <2>1 DEF SeatSound, ReadyOnce
  <2>3. c.run = sv.run.id
    BY <1>3 DEF SeatSound, RunsFit, NoRun
  <2> QED BY <2>2, <2>3
<1>5. requests(v) = requests(u) /\ readies(v) = {n} /\ \A i \in requests(u) : v[i] = u[i] /\ i < n
  BY <1>1, <1>2, <1>4
<1>6. ReadyOnce(sv, v, d, s)
  BY <1>3, <1>4, <1>5 DEF ReadyOnce
<1>7. RunsFit(sv, v, d, s)
  BY <1>3, <1>4 DEF SeatSound, RunsFit
<1>8. InOrder(sv, v, d, s)
  BY <1>4, <1>5 DEF InOrder
<1>9. IdsFresh(sv, v, d, s)
  BY <1>3, <1>5 DEF SeatSound, IdsFresh
<1>10. Awaited(sv, v, d, s)
  BY <1>3, <1>5 DEF SeatSound, Awaited
<1> QED BY <1>6, <1>7, <1>8, <1>9, <1>10 DEF SeatSound, v, x

\* A client asks for a command.
LEMMA SeatSentCommand ==
    ASSUME NEW sv, NEW s \in Seats, NEW u \in Seq(Upward), NEW c \in ClientState, NEW d,
           NEW x \in Envelope, SeatSound(sv, u, c, s), c.screen = "match", c.pending = <<>>,
           c.nextCommandId < MaxCommands[s], x.run = c.run, x.id = c.nextCommandId,
           d.screen = c.screen, d.run = c.run, d.nextCommandId = c.nextCommandId + 1,
           d.pending # <<>>, sv.run.acceptedCommandIds[s] \subseteq Nat
    PROVE  SeatSound(sv, Append(u, x), d, s)
<1> DEFINE v == Append(u, x)
           n == Len(u) + 1
<1>1. x \in Upward /\ x.kind = "command" /\ c.nextCommandId \in Nat /\ MaxCommands[s] \in Nat
  BY SyncAssumption DEF Upward, Envelope, ClientState
<1>2. /\ requests(v) = requests(u) \cup {i \in {n} : x.kind = "command"}
      /\ readies(v) = readies(u) \cup {i \in {n} : x.kind = "ready"}
      /\ v[n] = x
  BY <1>1, SentUp
<1> HIDE DEF v, n
<1>3. ~isTerminal(c.screen)
  BY DEF isTerminal
<1>4. readies(u) = {} /\ s \notin sv.readySeats /\ starts(sv.sent[s]) = {}
  BY <1>3 DEF SeatSound, ReadyOnce
<1>5. requests(u) = {} /\ replies(sv.sent[s]) = {}
  BY <1>3 DEF SeatSound, Awaited
<1>6. requests(v) = {n} /\ readies(v) = {}
  BY <1>1, <1>2, <1>4, <1>5
<1>7. ReadyOnce(sv, v, d, s)
  BY <1>4, <1>6 DEF ReadyOnce
<1>8. RunsFit(sv, v, d, s)
  BY DEF SeatSound, RunsFit
<1>9. InOrder(sv, v, d, s)
  BY <1>4, <1>6 DEF InOrder
<1>10. IdsFresh(sv, v, d, s)
  <2>1. \A i \in sv.run.acceptedCommandIds[s] :
            c.run = sv.run.id /\ i < c.nextCommandId /\ i \in Nat
    BY DEF SeatSound, IdsFresh
  <2>2. \A i \in sv.run.acceptedCommandIds[s] : i < d.nextCommandId /\ x.id # i
    BY <1>1, <2>1
  <2>3. x.id = d.nextCommandId - 1 /\ d.nextCommandId <= MaxCommands[s]
    BY <1>1
  <2> QED BY <1>2, <1>6, <2>1, <2>2, <2>3 DEF SeatSound, IdsFresh
<1>11. Awaited(sv, v, d, s)
  BY <1>5, <1>6 DEF Awaited
<1> QED BY <1>7, <1>8, <1>9, <1>10, <1>11 DEF SeatSound, v

\* A packet that starts no run arrives, and settles the command it answers.
LEMMA SeatArrived ==
    ASSUME NEW sv, NEW r, NEW s \in Seats, NEW u, NEW c, NEW d,
           SeatSound(sv, u, c, s), sv.sent[s] \in Seq(Packet), sv.sent[s] # <<>>,
           r.sent[s] = Tail(sv.sent[s]), r.run = sv.run, r.readySeats = sv.readySeats,
           d.run = c.run, d.nextCommandId = c.nextCommandId,
           d.screen = c.screen \/ isTerminal(d.screen),
           ~isTerminal(d.screen) =>
                /\ Head(sv.sent[s]).kind # "game-start"
                /\ \/ d.pending = c.pending /\ 1 \notin replies(sv.sent[s])
                   \/ d.pending = <<>> /\ 1 \in replies(sv.sent[s])
    PROVE  SeatSound(r, u, d, s)
<1> DEFINE q == sv.sent[s]
           t == Tail(q)
<1>1. /\ starts(t) = {i \in Nat \ {0} : i + 1 \in starts(q)}
      /\ replies(t) = {i \in Nat \ {0} : i + 1 \in replies(q)}
      /\ \A i \in DOMAIN t : t[i] = q[i + 1]
      /\ starts(t) \subseteq DOMAIN t /\ starts(q) \subseteq Nat \ {0}
      /\ replies(t) \subseteq DOMAIN t /\ replies(q) \subseteq Nat \ {0}
      /\ 1 \in starts(q) <=> Head(q).kind = "game-start"
  BY ReadDown
<1>2. r.sent[s] = t
  OBVIOUS
<1> HIDE DEF t
<1>3. starts(t) # {} => starts(q) # {}
  BY <1>1
<1>4. ReadyOnce(r, u, d, s)
  <2>1. \A i, j \in starts(t) : i = j
    BY <1>1 DEF SeatSound, ReadyOnce
  <2> QED BY <1>2, <1>3, <2>1 DEF SeatSound, ReadyOnce
<1>5. RunsFit(r, u, d, s)
  <2>1. \A g \in starts(t) : t[g].run = sv.run.id /\ c.run < sv.run.id
    BY <1>1 DEF SeatSound, RunsFit
  <2> QED BY <1>2, <2>1 DEF SeatSound, RunsFit, isTerminal
<1>6. InOrder(r, u, d, s)
  <2>1. \A g \in starts(t), j \in replies(t) : j < g
    BY <1>1 DEF SeatSound, InOrder
  <2> QED BY <1>2, <1>3, <2>1 DEF SeatSound, InOrder
<1>7. IdsFresh(r, u, d, s)
  BY DEF SeatSound, IdsFresh
<1>8. Awaited(r, u, d, s)
  <2> SUFFICES ASSUME ~isTerminal(d.screen)
               PROVE  /\ d.pending = <<>> => requests(u) = {} /\ replies(t) = {}
                      /\ d.pending # <<>> =>
                            \/ replies(t) = {} /\ \E i \in requests(u) : requests(u) = {i}
                            \/ requests(u) = {} /\ \E i \in replies(t) : replies(t) = {i}
    BY <1>2 DEF Awaited
  <2>1. ~isTerminal(c.screen)
    BY DEF isTerminal
  <2>2. /\ c.pending = <<>> => requests(u) = {} /\ replies(q) = {}
        /\ c.pending # <<>> =>
              \/ replies(q) = {} /\ \E i \in requests(u) : requests(u) = {i}
              \/ requests(u) = {} /\ \E i \in replies(q) : replies(q) = {i}
    BY <2>1 DEF SeatSound, Awaited
  <2>3. replies(q) = {} => replies(t) = {}
    BY <1>1
  <2>4. CASE d.pending = c.pending /\ 1 \notin replies(q)
    <3>1. ASSUME NEW i \in replies(q), replies(q) = {i}
          PROVE  \E j \in replies(t) : replies(t) = {j}
      <4>1. i - 1 \in Nat \ {0}
        BY <1>1, <2>4
      <4>2. replies(t) = {i - 1}
        BY <1>1, <3>1, <4>1
      <4> QED BY <4>2
    <3> QED BY <2>2, <2>3, <2>4, <3>1
  <2>5. CASE d.pending = <<>> /\ 1 \in replies(q)
    <3>1. replies(q) = {1} /\ requests(u) = {}
      BY <2>2, <2>5
    <3>2. replies(t) = {}
      BY <1>1, <3>1
    <3> QED BY <2>5, <3>1, <3>2
  <2> QED BY <2>4, <2>5
<1> QED BY <1>4, <1>5, <1>6, <1>7, <1>8 DEF SeatSound

\* The start of a run arrives.
LEMMA SeatStarted ==
    ASSUME NEW sv, NEW r, NEW s \in Seats, NEW u, NEW c \in ClientState, NEW d,
           SeatSound(sv, u, c, s), sv.sent[s] \in Seq(Packet), sv.sent[s] # <<>>,
           sv.run.id \in Nat, Head(sv.sent[s]).kind = "game-start",
           r.sent[s] = Tail(sv.sent[s]), r.run = sv.run, r.readySeats = sv.readySeats,
           d = createOnlineAuthority(Head(sv.sent[s]))
    PROVE  SeatSound(r, u, d, s)
<1> DEFINE q == sv.sent[s]
           t == Tail(q)
<1>1. /\ starts(t) = {i \in Nat \ {0} : i + 1 \in starts(q)}
      /\ replies(t) = {i \in Nat \ {0} : i + 1 \in replies(q)}
      /\ replies(q) \subseteq Nat \ {0} /\ q[1] = Head(q) /\ 1 \in starts(q)
  BY ReadDown
<1>2. r.sent[s] = t
  OBVIOUS
<1> HIDE DEF t
<1>3. /\ starts(q) = {1} /\ readies(u) = {} /\ s \notin sv.readySeats /\ requests(u) = {}
      /\ replies(q) = {}
  <2>1. starts(q) = {1} /\ readies(u) = {} /\ s \notin sv.readySeats
    BY <1>1 DEF SeatSound, ReadyOnce
  <2>2. requests(u) = {}
    BY <1>1 DEF SeatSound, InOrder
  <2>3. replies(q) = {}
    BY <1>1 DEF SeatSound, InOrder
  <2> QED BY <2>1, <2>2, <2>3
<1>4. starts(t) = {} /\ replies(t) = {}
  BY <1>1, <1>3
<1>5. /\ d.screen = "match" /\ d.run = Head(q).run /\ d.nextCommandId = 0 /\ d.pending = <<>>
  BY DEF createOnlineAuthority
<1>6. /\ Head(q).run = sv.run.id /\ c.run < sv.run.id /\ sv.run.id <= MaxRuns
  BY <1>1 DEF SeatSound, RunsFit
<1>7. sv.run.acceptedCommandIds[s] = {}
  <2>1. c.run \in Nat
    BY DEF ClientState
  <2> QED BY <1>6, <2>1 DEF SeatSound, IdsFresh
<1>8. MaxCommands[s] \in Nat
  BY SyncAssumption
<1> HIDE DEF q
<1>9. ReadyOnce(r, u, d, s)
  BY <1>2, <1>3, <1>4 DEF ReadyOnce
<1>10. RunsFit(r, u, d, s)
  BY <1>2, <1>4, <1>5, <1>6 DEF RunsFit
<1>11. InOrder(r, u, d, s)
  BY <1>2, <1>3, <1>4 DEF InOrder
<1>12. IdsFresh(r, u, d, s)
  <2>1. \A e \in Range(sv.run.commandCaches[s]) : e.id \in sv.run.acceptedCommandIds[s]
    BY DEF SeatSound, IdsFresh
  <2> QED BY <1>3, <1>5, <1>7, <1>8, <2>1 DEF IdsFresh
<1>13. Awaited(r, u, d, s)
  BY <1>2, <1>3, <1>4, <1>5 DEF Awaited
<1> QED BY <1>9, <1>10, <1>11, <1>12, <1>13 DEF SeatSound

\* A client leaves, and what it sent last is lost.
LEMMA SeatLeft ==
    ASSUME NEW sv, NEW s \in Seats, NEW u \in Seq(Upward), NEW c \in ClientState, NEW d,
           NEW n \in 0 .. Len(u), SeatSound(sv, u, c, s),
           d.screen = "left", d.run = c.run, d.nextCommandId = c.nextCommandId
    PROVE  SeatSound(sv, Append(SubSeq(u, 1, n), [kind |-> "close"]), d, s)
<1> DEFINE x == [kind |-> "close"]
           k == SubSeq(u, 1, n)
           v == Append(k, x)
<1>1. x \in Upward /\ x.kind = "close"
  BY DEF Upward
<1>2. /\ k \in Seq(Upward) /\ DOMAIN k \subseteq DOMAIN u
      /\ \A i \in DOMAIN k : k[i] = u[i]
  OBVIOUS
<1> HIDE DEF k, x
<1>3. /\ requests(v) = requests(k) \cup {i \in {Len(k) + 1} : x.kind = "command"}
      /\ readies(v) = readies(k) \cup {i \in {Len(k) + 1} : x.kind = "ready"}
      /\ \A i \in DOMAIN k : v[i] = k[i]
  BY <1>1, <1>2, SentUp
<1> HIDE DEF v
<1>4. /\ requests(v) \subseteq requests(u) /\ readies(v) \subseteq readies(u)
      /\ \A i \in requests(v) : v[i] = u[i]
  BY <1>1, <1>2, <1>3 DEF requests, readies
<1>5. isTerminal(d.screen) /\ d.screen # "match" /\ d.screen # "ready"
  BY DEF isTerminal
<1>6. ReadyOnce(sv, v, d, s)
  <2>1. readies(v) # {} => readies(u) # {}
    BY <1>4
  <2>2. \A i, j \in readies(v) : i = j
    BY <1>4 DEF SeatSound, ReadyOnce
  <2> QED BY <1>5, <2>1, <2>2 DEF SeatSound, ReadyOnce
<1>7. RunsFit(sv, v, d, s)
  BY <1>5 DEF SeatSound, RunsFit
<1>8. InOrder(sv, v, d, s)
  <2>1. requests(u) = {} => requests(v) = {}
    BY <1>4
  <2>2. \A i \in readies(v), j \in requests(v) : j < i
    BY <1>4 DEF SeatSound, InOrder
  <2> QED BY <2>1, <2>2 DEF SeatSound, InOrder
<1>9. IdsFresh(sv, v, d, s)
  BY <1>4 DEF SeatSound, IdsFresh
<1>10. Awaited(sv, v, d, s)
  BY <1>5 DEF Awaited
<1> QED BY <1>6, <1>7, <1>8, <1>9, <1>10 DEF SeatSound, v, k, x

\* What a step tells the seat that did not take it.
LEMMA SpreadToOther ==
    ASSUME NEW sv, NEW r, NEW a \in Seats, NEW id, NEW command, NEW hold,
           ServerSound(sv), ServerSound(r), Spread(sv, r, a, id, command, hold)
    PROVE  Undisturbed(r, sv, otherSeat(a))
<1> DEFINE o == otherSeat(a)
           p == update(sv, NoId, heldFrom(sv), heldSeat(sv, a), Append(held(sv), command),
                       command.after.phase = "active")
<1>1. o \in Seats /\ o # a
  BY DEF otherSeat, Seats
<1>2. p.kind = "accepted" /\ p.id = NoId
  BY DEF update
<1>3. r.sent[o] = sv.sent[o] \/ r.sent[o] = Append(sv.sent[o], p)
  BY DEF Spread
<1> HIDE DEF p
<1>4. sv.sent[o] \in Seq(Packet)
  BY <1>1, SeatTypes
<1>5. r.sent[o] = Append(sv.sent[o], p) => p \in Packet
  BY <1>1, <1>4, LastSent
<1>6. SameRun(r, sv)
  BY DEF Spread
<1> QED BY <1>2, <1>3, <1>5, <1>6 DEF SameRun, Undisturbed, unmarked

\* What a step that answers no command tells the seat that took it.
LEMMA SpreadToActor ==
    ASSUME NEW sv, NEW r, NEW a \in Seats, NEW command, NEW hold,
           ServerSound(sv), ServerSound(r), Spread(sv, r, a, NoId, command, hold)
    PROVE  Undisturbed(r, sv, a)
<1> DEFINE p == update(sv, NoId, sv.run.revision, a, <<command>>, command.after.phase = "active")
<1>1. p.kind = "accepted" /\ p.id = NoId
  BY DEF update
<1>2. r.sent[a] = Append(sv.sent[a], p) /\ SameRun(r, sv)
  BY DEF Spread
<1> HIDE DEF p
<1>3. p \in Packet
  BY <1>2, LastSent, SeatTypes
<1> QED BY <1>1, <1>2, <1>3 DEF SameRun, Undisturbed, unmarked

\* A turn that the clock ends answers no command.
LEMMA ResolvedUndisturbed ==
    ASSUME NEW sv, NEW r, ServerSound(sv), ServerSound(r), Resolved(sv, r), NEW s \in Seats
    PROVE  Undisturbed(r, sv, s)
<1>1. CASE r = sv
  BY <1>1 DEF Undisturbed
<1>2. CASE r # sv
  <2>1. PICK st \in timedOut(sv.run.state), hold \in BOOLEAN :
            Spread(sv, r, sv.run.state.activeSeat, NoId, [type |-> "timeout", after |-> st], hold)
    BY <1>2 DEF Resolved
  <2> DEFINE a == sv.run.state.activeSeat
  <2>2. a \in Seats /\ (s = a \/ s = otherSeat(a))
    BY SeatTypes DEF TurnState, otherSeat, Seats
  <2> HIDE DEF a
  <2>3. Undisturbed(r, sv, a) /\ Undisturbed(r, sv, otherSeat(a))
    BY <2>1, <2>2, SpreadToOther, SpreadToActor DEF a
  <2> QED BY <2>2, <2>3
<1> QED BY <1>1, <1>2

\* An answer settles the command it answers, and disturbs nobody else.
LEMMA SeatAnswered ==
    ASSUME NEW sv, NEW r, NEW s \in Seats, NEW u \in Seq(Upward), NEW c \in ClientState,
           ServerSound(sv), ServerSound(r), SeatSound(sv, u, c, s), u # <<>>,
           Head(u) \in Envelope, Answered(sv, r, s, Head(u))
    PROVE  /\ SeatSound(r, Tail(u), c, s)
           /\ Undisturbed(r, sv, otherSeat(s))
<1> DEFINE e == Head(u)
           o == otherSeat(s)
<1> HIDE DEF e
<1>1. /\ e \in Envelope /\ e.kind = "command" /\ e.id \in Nat /\ NoId \notin Nat
      /\ sv \in ServerState /\ o \in Seats /\ o # s
  BY DEF Envelope, NoId, ServerSound, RunSound, otherSeat, Seats, e
<1>2. ASSUME NEW p \in Packet, p.kind \in {"accepted", "rejected"}, p.id # NoId,
             r = send(sv, s, p)
      PROVE  SeatSound(r, Tail(u), c, s) /\ Undisturbed(r, sv, o)
  <2>1. /\ Alike(r, sv) /\ r.sent[s] = Append(sv.sent[s], p) /\ r.sent[o] = sv.sent[o]
        /\ r.run = sv.run
    BY <1>1, <1>2, Sent
  <2>2. \A x \in Range(sv.run.commandCaches[s]) : x.id \in sv.run.acceptedCommandIds[s]
    BY DEF SeatSound, IdsFresh
  <2>3. SeatSound(r, Tail(u), c, s)
    BY <1>1, <1>2, <2>1, <2>2, SeatReplied DEF Alike, e
  <2> QED BY <2>1, <2>3 DEF Undisturbed, Alike
<1>3. CASE \E p \in Rejected : p.id = e.id /\ r = send(sv, s, p)
  <2>1. PICK p \in Rejected : p.id = e.id /\ r = send(sv, s, p)
    BY <1>3
  <2>2. p \in Packet /\ p.kind = "rejected" /\ p.id # NoId
    BY <1>1, <2>1 DEF Packet, Rejected
  <2> QED BY <1>2, <2>1, <2>2
<1>4. CASE \E x \in repeated(sv, s, e) : r = send(sv, s, x.reply)
  <2>1. PICK x \in repeated(sv, s, e) : r = send(sv, s, x.reply)
    BY <1>4
  <2>2. x.reply \in Packet /\ x.reply.kind = "accepted" /\ x.reply.id # NoId
    BY <1>1, <2>1, CachedReply DEF Reply, Accepted
  <2> QED BY <1>2, <2>1, <2>2
<1>5. CASE /\ sv.phase = "active" /\ e.run = sv.run.id
           /\ \E st \in outcomes(sv.run.state, s, e.type) :
                r = remembered(acceptClientCommand(sv, s, e.id, e.type, st), s, e)
  <2>1. PICK st \in outcomes(sv.run.state, s, e.type) :
            r = remembered(acceptClientCommand(sv, s, e.id, e.type, st), s, e)
    BY <1>5
  <2> DEFINE n == acceptClientCommand(sv, s, e.id, e.type, st)
             command == [type |-> e.type, after |-> st]
             hold == s \in st.extraTurnInProgress /\ (buffering(sv) \/ e.type = "place")
             p == update(sv, e.id, sv.run.revision, s, <<command>>, st.phase = "active")
  <2>2. /\ ServerSound(n) /\ Kept(r, n, s, e) /\ Spread(sv, n, s, e.id, command, hold)
    BY <1>1, <1>5, <2>1, CommandAccepted
  <2>3. n.sent[s] = Append(sv.sent[s], p) /\ SameRun(n, sv)
    BY <2>2 DEF Spread
  <2>4. p.kind = "accepted" /\ p.id = e.id
    BY DEF update
  <2> HIDE DEF n, command, hold, p
  <2>5. p \in Packet
    BY <2>2, <2>3, LastSent, SeatTypes
  <2>6. Undisturbed(n, sv, o)
    BY <1>1, <2>2, SpreadToOther
  <2>7. Undisturbed(r, sv, o)
    BY <1>1, <2>2, <2>6 DEF Undisturbed, Kept
  <2>8. /\ r.run.id = sv.run.id /\ r.readySeats = sv.readySeats
        /\ r.sent[s] = Append(sv.sent[s], p)
        /\ r.run.acceptedCommandIds[s] = sv.run.acceptedCommandIds[s] \cup {e.id}
        /\ \A x \in Range(r.run.commandCaches[s]) :
                x \in Range(sv.run.commandCaches[s]) \/ x.id = e.id
    BY <2>2, <2>3 DEF Kept, SameRun
  <2>9. \A x \in Range(r.run.commandCaches[s]) : x.id \in r.run.acceptedCommandIds[s]
    BY <2>8 DEF SeatSound, IdsFresh
  <2>10. SeatSound(r, Tail(u), c, s)
    BY <1>1, <1>5, <2>4, <2>5, <2>8, <2>9, SeatReplied DEF e
  <2> QED BY <2>7, <2>10
<1> QED BY <1>3, <1>4, <1>5 DEF Answered, e

\* Every step of the server leaves each seat's affairs in order.
LEMMA ServerStepSettled ==
    ASSUME Sound, Settled, ServerNext, clients' = clients, NEW s \in Seats
    PROVE  SeatSound(server', uplink'[s], clients'[s], s)
<1>1. /\ ServerSound(server) /\ ServerSound(server') /\ uplink \in [Seats -> Seq(Upward)]
      /\ SeatSound(server, uplink[s], clients[s], s) /\ clients[s] \in ClientState
  BY ServerStepSound DEF Sound, Settled
<1>2. CASE Undisturbed(server', server, s) /\ uplink'[s] = uplink[s]
  BY <1>1, <1>2, SeatUndisturbed
<1>3. CASE TurnTimerFires
  <2>1. server.phase = "active"
    BY <1>1, <1>3 DEF TurnTimerFires, ServerSound
  <2>2. Resolved(server, server')
    BY <1>1, <1>3, <2>1, DeadlineResolved DEF TurnTimerFires
  <2> QED BY <1>1, <1>2, <1>3, <2>2, ResolvedUndisturbed DEF TurnTimerFires
<1>4. CASE DeadlinePasses
  <2>1. server' = [server EXCEPT !.expired = TRUE] /\ server \in ServerState
    BY <1>1, <1>4 DEF DeadlinePasses, ServerSound, RunSound
  <2>2. Undisturbed(server', server, s)
    BY <2>1 DEF ServerState, Undisturbed
  <2> QED BY <1>2, <1>4, <2>2 DEF DeadlinePasses
<1>5. ASSUME NEW a \in Seats, received(a, "ready") \/ received(a, "command") \/ received(a, "close")
      PROVE  /\ uplink[a] \in Seq(Upward) /\ uplink[a] # <<>> /\ Head(uplink[a]) \in Upward
             /\ uplink'[a] = Tail(uplink[a]) /\ (s # a => uplink'[s] = uplink[s])
  BY <1>5, ReceivedPacket
<1>6. ASSUME NEW a \in Seats, HandleReady(a)
      PROVE  SeatSound(server', uplink'[s], clients'[s], s)
  <2>1. received(a, "ready") /\ Head(uplink[a]).kind = "ready" /\ Head(uplink[a]).ready = TRUE
    BY <1>6, ReceivedPacket DEF HandleReady
  <2>2. /\ uplink[a] \in Seq(Upward) /\ uplink[a] # <<>>
        /\ uplink'[a] = Tail(uplink[a]) /\ (s # a => uplink'[s] = uplink[s])
    BY <1>5, <2>1
  <2>3. CASE Undisturbed(server', server, s)
    <3>1. SeatSound(server', uplink[s], clients[s], s)
      BY <1>1, <2>3, SeatUndisturbed
    <3>2. CASE s = a
      BY <1>1, <2>1, <2>2, <3>1, <3>2, SeatRead
    <3> QED BY <2>2, <3>1, <3>2
  <2>4. CASE server.phase = "abandoned"
    <3> DEFINE p == [kind |-> "closed"]
    <3>1. server' = send(server, a, p) /\ p \in Packet /\ unmarked(p) /\ server \in ServerState
      BY <1>1, <1>6, <2>4 DEF HandleReady, Packet, Notice, unmarked, ServerSound, RunSound
    <3> HIDE DEF p
    <3>2. /\ Alike(server', server) /\ server'.sent[a] = Append(server.sent[a], p)
          /\ server'.sent[otherSeat(a)] = server.sent[otherSeat(a)]
      BY <3>1, Sent
    <3>3. s = a \/ s = otherSeat(a)
      BY DEF Seats, otherSeat
    <3>4. Undisturbed(server', server, s)
      BY <3>1, <3>2, <3>3 DEF Undisturbed, Alike
    <3> QED BY <2>3, <3>4
  <2>5. CASE server.phase # "abandoned"
    <3> DEFINE marked == [server EXCEPT !.readySeats = server.readySeats \cup {a}]
    <3>1. server' \in setReady(server, a, TRUE) /\ server \in ServerState
      BY <1>1, <1>6, <2>1, <2>5 DEF HandleReady, ServerSound, RunSound
    <3>2. \/ server' = server
          \/ server' = [server EXCEPT !.readySeats = server.readySeats \cup {a}]
          \/ /\ server.readySeats \cup {a} = Seats
             /\ \E first \in FirstSeats : Begun(server', server, first)
      BY <1>1, <2>5, <3>1, ReadySet
    <3>3. /\ marked.run = server.run /\ marked.sent = server.sent
          /\ marked.readySeats = server.readySeats \cup {a}
      BY <3>1 DEF ServerState
    <3> HIDE DEF marked
    <3>4. SeatSound(marked, uplink'[s], clients[s], s)
      <4>1. CASE s = a
        <5>1. marked.run = server.run /\ marked.sent[a] = server.sent[a]
          BY <3>3
        <5>2. SeatSound(server, uplink[a], clients[a], a) /\ clients[a] \in ClientState
          BY <1>1, <4>1
        <5>3. SeatSound(marked, Tail(uplink[a]), clients[a], a)
          BY <2>1, <2>2, <5>1, <5>2, SeatReady
        <5> QED BY <2>2, <4>1, <5>3
      <4>2. CASE s # a
        <5>1. Undisturbed(marked, server, s)
          BY <3>3, <4>2 DEF Undisturbed
        <5> QED BY <1>1, <2>2, <4>2, <5>1, SeatUndisturbed
      <4> QED BY <4>1, <4>2
    <3>5. CASE server' = server
      BY <2>3, <3>5 DEF Undisturbed
    <3>6. CASE server' = marked
      BY <3>4, <3>6
    <3>7. CASE /\ server.readySeats \cup {a} = Seats
               /\ \E first \in FirstSeats : Begun(server', server, first)
      <4>1. PICK first \in FirstSeats : Begun(server', server, first)
        BY <3>7
      <4>2. first \in Seats /\ s \in marked.readySeats
        BY <3>3, <3>7, CoordinatorAssumption
      <4>3. Begun(server', marked, first)
        BY <3>3, <4>1 DEF Begun
      <4>4. marked.run.id \in Nat /\ marked.sent[s] \in Seq(Packet)
        BY <1>1, <3>3, SeatTypes
      <4>5. uplink'[s] \in Seq(Upward)
        <5>1. uplink[s] \in Seq(Upward)
          BY <1>1
        <5>2. uplink'[s] = uplink[s] \/ s = a
          BY <2>2
        <5>3. Tail(uplink[a]) \in Seq(Upward)
          BY <2>2
        <5> QED BY <2>2, <5>1, <5>2, <5>3
      <4> QED BY <1>1, <3>4, <4>2, <4>3, <4>4, <4>5, SeatBegun
    <3> QED BY <3>2, <3>5, <3>6, <3>7 DEF marked
  <2> QED BY <2>4, <2>5
<1>7. ASSUME NEW a \in Seats, HandleCommand(a)
      PROVE  SeatSound(server', uplink'[s], clients'[s], s)
  <2>1. received(a, "command") /\ server' \in handleGameCommand(server, a, Head(uplink[a]))
    BY <1>7 DEF HandleCommand
  <2>2. /\ uplink[a] \in Seq(Upward) /\ uplink[a] # <<>> /\ Head(uplink[a]) \in Envelope
        /\ uplink'[a] = Tail(uplink[a]) /\ (s # a => uplink'[s] = uplink[s])
    BY <1>5, <2>1, ReceivedPacket
  <2>3. PICK w : /\ ServerSound(w) /\ Answered(w, server', a, Head(uplink[a]))
                 /\ w = server \/ Resolved(server, w)
    BY <1>1, <2>1, <2>2, CommandHandled
  <2>4. Undisturbed(w, server, s) /\ Undisturbed(w, server, a)
    BY <1>1, <2>3, ResolvedUndisturbed DEF Undisturbed
  <2>5. SeatSound(w, uplink[a], clients[a], a) /\ clients[a] \in ClientState
    BY <1>1, <2>4, SeatUndisturbed DEF Settled, Sound
  <2>6. /\ SeatSound(server', Tail(uplink[a]), clients[a], a)
        /\ Undisturbed(server', w, otherSeat(a))
    BY <1>1, <2>2, <2>3, <2>5, SeatAnswered
  <2>7. CASE s = a
    BY <2>2, <2>6, <2>7
  <2>8. CASE s = otherSeat(a)
    <3>1. SeatSound(w, uplink[s], clients[s], s)
      BY <1>1, <2>4, SeatUndisturbed
    <3>2. s # a
      BY <2>8 DEF otherSeat, Seats
    <3> QED BY <2>2, <2>3, <2>6, <2>8, <3>1, <3>2, SeatUndisturbed
  <2> QED BY <2>7, <2>8 DEF otherSeat, Seats
<1>8. ASSUME NEW a \in Seats, HandleClose(a)
      PROVE  SeatSound(server', uplink'[s], clients'[s], s)
  <2>1. received(a, "close") /\ server' = abandon(server, a) /\ Head(uplink[a]).kind = "close"
    BY <1>8 DEF HandleClose, received
  <2>2. /\ uplink[a] \in Seq(Upward) /\ uplink[a] # <<>>
        /\ uplink'[a] = Tail(uplink[a]) /\ (s # a => uplink'[s] = uplink[s])
    BY <1>5, <2>1
  <2>3. Undisturbed(server', server, s)
    <3> DEFINE p == [kind |-> "opponent-disconnected"]
    <3>1. p \in Packet /\ unmarked(p)
      BY DEF Packet, Notice, unmarked
    <3> HIDE DEF p
    <3>2. s = a \/ s = otherSeat(a)
      BY DEF Seats, otherSeat
    <3>3. /\ server'.run.id = server.run.id
          /\ server'.run.commandCaches = server.run.commandCaches
          /\ server'.run.acceptedCommandIds = server.run.acceptedCommandIds
          /\ server.phase = "abandoned" => server' = server
          /\ server.phase # "abandoned" =>
                /\ server'.readySeats = {} /\ server'.sent[a] = server.sent[a]
                /\ server'.sent[otherSeat(a)] = Append(server.sent[otherSeat(a)], p)
      BY <1>1, <2>1, Abandoned DEF p
    <3> QED BY <3>1, <3>2, <3>3 DEF Undisturbed
  <2>4. SeatSound(server', uplink[s], clients[s], s)
    BY <1>1, <2>3, SeatUndisturbed
  <2>5. CASE s = a
    BY <1>1, <2>1, <2>2, <2>4, <2>5, SeatRead
  <2> QED BY <2>2, <2>4, <2>5
<1>9. ASSUME NEW a \in Seats, RevealTimerFires(a)
      PROVE  SeatSound(server', uplink'[s], clients'[s], s)
  <2>1. /\ a \in server.revealTimers /\ uplink' = uplink
        /\ server' \in closeRevealWindow([server EXCEPT !.revealTimers = server.revealTimers \ {a}], a)
    BY <1>9 DEF RevealTimerFires
  <2>2. \E st \in endReveal(server.run.state, a) :
            Spread(server, server', a, NoId, [type |-> "end-reveal", after |-> st],
                   buffering(server))
    BY <1>1, <2>1, WindowClosed
  <2>3. PICK st : Spread(server, server', a, NoId, [type |-> "end-reveal", after |-> st],
                         buffering(server))
    BY <2>2
  <2>4. Undisturbed(server', server, a) /\ Undisturbed(server', server, otherSeat(a))
    BY <1>1, <2>3, SpreadToOther, SpreadToActor
  <2>5. s = a \/ s = otherSeat(a)
    BY DEF Seats, otherSeat
  <2> QED BY <1>2, <2>1, <2>4, <2>5
<1> QED BY <1>3, <1>4, <1>6, <1>7, <1>8, <1>9 DEF ServerNext

\* Every step of a client leaves each seat's affairs in order.
LEMMA ClientStepSettled ==
    ASSUME Sound, Settled, ClientNext, NEW s \in Seats
    PROVE  SeatSound(server', uplink'[s], clients'[s], s)
<1>1. /\ ServerSound(server) /\ uplink \in [Seats -> Seq(Upward)]
      /\ clients \in [Seats -> ClientState]
      /\ uplink[s] \in Seq(Upward) /\ clients[s] \in ClientState
      /\ SeatSound(server, uplink[s], clients[s], s)
  BY DEF Sound, Settled
<1>2. ASSUME NEW a \in Seats, server' = server, s # a, uplink'[s] = uplink[s],
             clients'[s] = clients[s]
      PROVE  SeatSound(server', uplink'[s], clients'[s], s)
  BY <1>1, <1>2
<1>3. ASSUME NEW a \in Seats, SendReady(a)
      PROVE  SeatSound(server', uplink'[s], clients'[s], s)
  <2>1. /\ clients[a].screen \in {"ready", "match"} /\ clients[a].run < MaxRuns
        /\ server' = server
        /\ clients' = [clients EXCEPT ![a] = [clients[a] EXCEPT !.screen = "waiting"]]
        /\ uplink' = [uplink EXCEPT ![a] = Append(uplink[a], [kind |-> "ready", ready |-> TRUE])]
    BY <1>1, <1>3 DEF SendReady, transmit
  <2>2. CASE s = a
    <3>1. /\ clients'[s] = [clients[s] EXCEPT !.screen = "waiting"]
          /\ uplink'[s] = Append(uplink[s], [kind |-> "ready", ready |-> TRUE])
      BY <1>1, <2>1, <2>2
    <3>2. server.run.id \in Nat
      BY <1>1, SeatTypes
    <3> QED BY <1>1, <2>1, <2>2, <3>1, <3>2, SeatSentReady
  <2>3. CASE s # a
    BY <1>1, <1>2, <2>1, <2>3
  <2> QED BY <2>2, <2>3
<1>4. ASSUME NEW a \in Seats, NEW type \in CommandTypes, SendCommand(a, type)
      PROVE  SeatSound(server', uplink'[s], clients'[s], s)
  <2> DEFINE c == clients[a]
             x == [kind |-> "command", run |-> c.run, id |-> c.nextCommandId,
                   expected |-> c.revision, type |-> type]
             p == <<[id |-> c.nextCommandId, type |-> type]>>
             d == [c EXCEPT !.nextCommandId = c.nextCommandId + 1, !.pending = p]
  <2>1. /\ c.screen = "match" /\ c.pending = <<>> /\ c.nextCommandId < MaxCommands[a]
        /\ server' = server
        /\ uplink' = [uplink EXCEPT ![a] = Append(uplink[a], x)]
        /\ clients' = [clients EXCEPT ![a] = d]
    BY <1>1, <1>4 DEF SendCommand, transmit
  <2>2. CASE s = a
    <3>1. clients'[s] = d /\ uplink'[s] = Append(uplink[s], x) /\ c = clients[s]
      BY <1>1, <2>1, <2>2
    <3>2. x \in Envelope /\ x.run = c.run /\ x.id = c.nextCommandId
      BY <1>1, <2>2 DEF Envelope, ClientState
    <3>3. p # <<>>
      OBVIOUS
    <3>4. /\ d.screen = c.screen /\ d.run = c.run /\ d.nextCommandId = c.nextCommandId + 1
          /\ d.pending # <<>>
      <4> HIDE DEF p
      <4> QED BY <1>1, <2>2, <3>3 DEF ClientState
    <3>5. server.run.acceptedCommandIds[s] \subseteq Nat
      BY <1>1, SeatTypes
    <3>6. SeatSound(server, uplink[s], c, s) /\ c \in ClientState
      BY <1>1, <3>1
    <3> HIDE DEF c, x, d
    <3> QED BY <1>1, <2>1, <2>2, <3>1, <3>2, <3>4, <3>5, <3>6, SeatSentCommand
  <2>3. CASE s # a
    BY <1>1, <1>2, <2>1, <2>3
  <2> QED BY <2>2, <2>3
<1>5. ASSUME NEW a \in Seats, Receive(a)
      PROVE  SeatSound(server', uplink'[s], clients'[s], s)
  <2> DEFINE c == clients[a]
             m == Head(server.sent[a])
  <2>1. server.sent[a] # <<>> /\ server.sent[a] \in Seq(Packet) /\ m \in Packet
    BY <1>1, <1>5, SeatTypes DEF Receive
  <2>2. /\ Alike(server', server) /\ server'.run = server.run
        /\ server'.sent[a] = Tail(server.sent[a])
        /\ \A o \in Seats \ {a} : server'.sent[o] = server.sent[o]
        /\ uplink' = uplink
    <3>1. server' = [server EXCEPT !.sent[a] = Tail(@)] /\ uplink' = uplink
      BY <1>5 DEF Receive
    <3>2. ServerSound(server) /\ server.sent[a] # <<>>
      BY <1>1, <2>1
    <3> QED BY <3>1, <3>2, Popped
  <2>3. CASE s # a
    <3>1. Undisturbed(server', server, s) /\ clients'[s] = clients[s]
      BY <1>1, <1>5, <2>2, <2>3 DEF Undisturbed, Alike, Receive
    <3> QED BY <1>1, <2>2, <3>1, SeatUndisturbed
  <2>4. CASE s = a
    <3> DEFINE d == clients'[s]
    <3>1. /\ c = clients[s] /\ c \in ClientState /\ SeatSound(server, uplink[s], c, s)
          /\ server.run.id \in Nat
      BY <1>1, <2>4, SeatTypes
    <3>2. d = IF c.screen = "left" THEN c ELSE afterPacket(c, s, m)
      BY <1>1, <1>5, <2>4 DEF Receive
    <3>3. CASE m.kind = "game-start" /\ c.screen # "left"
      <4>1. d = createOnlineAuthority(m)
        BY <3>2, <3>3 DEF afterPacket
      <4> HIDE DEF d
      <4>2. server'.readySeats = server.readySeats
        BY <2>2 DEF Alike
      <4>3. SeatSound(server', uplink[s], d, s)
        BY <2>1, <2>2, <2>4, <3>1, <3>3, <4>1, <4>2, SeatStarted
      <4> QED BY <2>2, <4>3 DEF d
    <3>4. CASE ~(m.kind = "game-start" /\ c.screen # "left")
      <4> DEFINE lost == [c EXCEPT !.screen = "sync-lost", !.pending = <<>>]
                 gone == [c EXCEPT !.screen = "disconnected", !.pending = <<>>]
                 settled == [c EXCEPT !.pending = <<>>]
      <4>1. 1 \in replies(server.sent[s]) <=> m.kind \in {"accepted", "rejected"} /\ m.id # NoId
        BY <2>1, <2>4, ReadDown
      <4>2. /\ c.screen = "left" => isTerminal(c.screen)
            /\ isTerminal("sync-lost") /\ isTerminal("disconnected")
        BY DEF isTerminal
      <4>3. /\ lost.run = c.run /\ lost.nextCommandId = c.nextCommandId /\ isTerminal(lost.screen)
            /\ gone.run = c.run /\ gone.nextCommandId = c.nextCommandId /\ isTerminal(gone.screen)
        BY <3>1, <4>2 DEF ClientState
      <4>4. CASE isTerminal(c.screen) /\ d \in {c, gone}
        <5>1. d.run = c.run /\ d.nextCommandId = c.nextCommandId /\ isTerminal(d.screen)
          BY <4>3, <4>4
        <5> QED BY <2>1, <2>2, <2>4, <3>1, <5>1, SeatArrived DEF Alike
      <4>5. CASE d \in {lost, gone}
        <5>1. d.run = c.run /\ d.nextCommandId = c.nextCommandId /\ isTerminal(d.screen)
          BY <4>3, <4>5
        <5> QED BY <2>1, <2>2, <2>4, <3>1, <5>1, SeatArrived DEF Alike
      <4>6. CASE m.kind \in {"closed", "opponent-disconnected"}
        <5>1. d = c \/ d = gone
          BY <3>2, <4>6 DEF afterPacket, disconnected
        <5>2. 1 \notin replies(server.sent[s])
          BY <4>1, <4>6
        <5>3. CASE d = c
          <6>1. m.kind # "game-start"
            BY <4>6
          <6> QED BY <2>1, <2>2, <2>4, <3>1, <5>2, <5>3, <6>1, SeatArrived DEF Alike
        <5> QED BY <4>5, <5>1, <5>3
      <4>7. CASE m.kind \in {"accepted", "rejected"} /\ ~isTerminal(c.screen) /\ d # lost
        <5>1. d = applyOnlineUpdate(c, s, m)
          BY <3>2, <4>2, <4>7 DEF afterPacket, syncLost
        <5>2. /\ d.run = c.run /\ d.nextCommandId = c.nextCommandId /\ d.screen = c.screen
              /\ d.pending = IF m.id = NoId THEN c.pending ELSE <<>>
          <6>1. CASE m.kind = "rejected"
            <7>1. d = settled /\ answers(c, m)
              BY <4>7, <5>1, <6>1 DEF applyOnlineUpdate, rejectionFits, syncLost
            <7>2. m.id # NoId
              <8>1. c.pending # <<>> /\ Head(c.pending).id = m.id
                BY <7>1 DEF answers
              <8>2. PICK w \in Pending : c.pending = <<w>>
                BY <3>1, <8>1 DEF ClientState
              <8> QED BY <8>1, <8>2 DEF Pending, NoId
            <7> HIDE DEF d, c, m
            <7> QED BY <3>1, <7>1, <7>2 DEF ClientState
          <6>2. CASE m.kind = "accepted"
            <7>1. d = [c EXCEPT !.canonical = Last(m.commands).after, !.revision = m.to,
                                !.pending = IF m.id = NoId THEN c.pending ELSE <<>>]
              BY <4>7, <5>1, <6>2 DEF applyOnlineUpdate, syncLost
            <7> DEFINE st == Last(m.commands).after
                       pd == IF m.id = NoId THEN c.pending ELSE <<>>
            <7> HIDE DEF d, c, st, pd
            <7>2. d = [c EXCEPT !.canonical = st, !.revision = m.to, !.pending = pd]
              BY <7>1 DEF st, pd
            <7> QED BY <3>1, <7>2 DEF ClientState, pd
          <6> QED BY <4>7, <6>1, <6>2
        <5>3. m.kind # "game-start"
          BY <4>7
        <5> HIDE DEF d
        <5>4. SeatSound(server', uplink[s], d, s)
          BY <2>1, <2>2, <2>4, <3>1, <4>1, <4>7, <5>2, <5>3, SeatArrived DEF Alike
        <5> QED BY <2>2, <5>4 DEF d
      <4>8. /\ m.kind \in {"accepted", "rejected"} /\ isTerminal(c.screen) => d = c
            /\ c.screen = "left" => d = c
            /\ m.kind \in {"game-start", "accepted", "rejected", "closed", "opponent-disconnected"}
        BY <2>1, <3>2 DEF afterPacket, Packet, Started, Accepted, Rejected, Notice
      <4> QED BY <3>4, <4>2, <4>4, <4>5, <4>6, <4>7, <4>8
    <3> QED BY <3>3, <3>4
  <2> QED BY <2>3, <2>4
<1>6. ASSUME NEW a \in Seats, Leave(a)
      PROVE  SeatSound(server', uplink'[s], clients'[s], s)
  <2>1. PICK n \in 0 .. Len(uplink[a]) :
            uplink' = [uplink EXCEPT ![a] = Append(SubSeq(uplink[a], 1, n), [kind |-> "close"])]
    BY <1>6 DEF Leave
  <2>2. /\ server' = server
        /\ clients' = [clients EXCEPT ![a] = [clients[a] EXCEPT !.screen = "left", !.pending = <<>>]]
    BY <1>1, <1>6 DEF Leave
  <2>3. CASE s = a
    <3> DEFINE d == [clients[s] EXCEPT !.screen = "left", !.pending = <<>>]
    <3>1. /\ clients'[s] = d /\ d.screen = "left" /\ d.run = clients[s].run
          /\ d.nextCommandId = clients[s].nextCommandId
          /\ uplink'[s] = Append(SubSeq(uplink[s], 1, n), [kind |-> "close"])
          /\ n \in 0 .. Len(uplink[s])
      BY <1>1, <2>1, <2>2, <2>3 DEF ClientState
    <3> HIDE DEF d
    <3> QED BY <1>1, <2>2, <3>1, SeatLeft
  <2>4. CASE s # a
    BY <1>1, <1>2, <2>1, <2>2, <2>4
  <2> QED BY <2>3, <2>4
<1> QED BY <1>3, <1>4, <1>5, <1>6 DEF ClientNext

\* Every seat's affairs start in order.
LEMMA SettledInit == Init => Settled
<1> SUFFICES ASSUME Init, NEW s \in Seats PROVE SeatSound(server, uplink[s], clients[s], s)
  BY DEF Settled
<1>1. /\ server = createMatchRoom /\ uplink[s] = <<>> /\ clients[s] = newClient
  BY DEF Init
<1>2. /\ server.sent[s] = <<>> /\ server.readySeats = {} /\ server.run.id = 0
      /\ server.run.acceptedCommandIds[s] = {} /\ server.run.commandCaches[s] = <<>>
  <2> DEFINE run == newRun(NoRun, 0)
  <2>1. /\ run.id = 0 /\ run.acceptedCommandIds[s] = {} /\ run.commandCaches[s] = <<>>
        /\ [run EXCEPT !.phase = "ready"].id = run.id
        /\ [run EXCEPT !.phase = "ready"].acceptedCommandIds = run.acceptedCommandIds
        /\ [run EXCEPT !.phase = "ready"].commandCaches = run.commandCaches
    BY DEF newRun, NoRun
  <2> HIDE DEF run
  <2>2. /\ server.run = [run EXCEPT !.phase = "ready"] /\ server.sent[s] = <<>>
        /\ server.readySeats = {}
    BY <1>1 DEF createMatchRoom, run
  <2> QED BY <2>1, <2>2
<1>3. /\ newClient.screen = "ready" /\ newClient.run = 0 /\ newClient.nextCommandId = 0
      /\ newClient.pending = <<>>
  BY DEF newClient, NoRun
<1>4. requests(<<>>) = {} /\ readies(<<>>) = {} /\ starts(<<>>) = {} /\ replies(<<>>) = {}
  BY DEF requests, readies, starts, replies
<1>5. MaxRuns \in Nat /\ MaxCommands[s] \in Nat
  BY SyncAssumption
<1>6. ReadyOnce(server, uplink[s], clients[s], s) /\ InOrder(server, uplink[s], clients[s], s)
  BY <1>1, <1>2, <1>4 DEF ReadyOnce, InOrder
<1>7. RunsFit(server, uplink[s], clients[s], s)
  BY <1>1, <1>2, <1>3, <1>4, <1>5 DEF RunsFit, NoRun
<1>8. IdsFresh(server, uplink[s], clients[s], s)
  BY <1>1, <1>2, <1>3, <1>4, <1>5 DEF IdsFresh, Range
<1>9. Awaited(server, uplink[s], clients[s], s)
  BY <1>1, <1>2, <1>3, <1>4 DEF Awaited
<1> QED BY <1>6, <1>7, <1>8, <1>9 DEF SeatSound

\* Every step leaves each seat's affairs in order.
LEMMA SettledNext == Sound /\ Settled /\ [Next]_vars => Settled'
<1> SUFFICES ASSUME Sound, Settled, [Next]_vars, NEW s \in Seats
             PROVE  SeatSound(server', uplink'[s], clients'[s], s)
  BY DEF Settled
<1>1. CASE ClientNext
  BY <1>1, ClientStepSettled
<1>2. CASE ServerNext /\ UNCHANGED clients
  BY <1>2, ServerStepSettled
<1>3. CASE UNCHANGED vars
  BY <1>3 DEF vars, Settled
<1> QED BY <1>1, <1>2, <1>3 DEF Next

\* Each command and each readiness has its place between a client and the room.
THEOREM SettledInvariant == Spec => [](Sound /\ Settled)
BY SoundInit, SoundNext, SettledInit, SettledNext, PTL DEF Spec

\* A pending command is in exactly one place, whatever is lost, late or overtaken: on its way
\* to handleGameCommand, or answered on the way back (onlineAuthority.ts).
THEOREM CommandsAnsweredOnce == Spec => []OneAnswer
<1>1. Sound /\ Settled => OneAnswer
  <2> DEFINE id(q) == {i \in DOMAIN q : q[i].kind \in {"command", "accepted", "rejected"}
                                        /\ q[i].id # NoId}
  <2> SUFFICES ASSUME Sound, Settled, NEW s \in Seats, ~isTerminal(clients[s].screen)
               PROVE  Cardinality(id(uplink[s])) + Cardinality(id(server.sent[s]))
                          = Len(clients[s].pending)
    BY DEF OneAnswer
  <2>1. /\ uplink[s] \in Seq(Upward) /\ server.sent[s] \in Seq(Packet) /\ clients[s] \in ClientState
        /\ Awaited(server, uplink[s], clients[s], s)
    BY SeatTypes DEF Sound, Settled, SeatSound
  <2>2. id(uplink[s]) = requests(uplink[s])
    <3>1. \A x \in Upward : x.kind \in {"command", "accepted", "rejected"} /\ x.id # NoId
                            <=> x.kind = "command"
      <4>1. \A x \in Upward : /\ x.kind \in {"command", "ready", "close"}
                              /\ x.kind = "command" => x.id \in Nat
        BY DEF Upward, Envelope
      <4> QED BY <4>1 DEF NoId
    <3> QED BY <2>1, <3>1 DEF requests
  <2>3. id(server.sent[s]) = replies(server.sent[s])
    <3>1. \A x \in Packet : x.kind # "command"
      BY DEF Packet, Started, Accepted, Rejected, Notice
    <3> QED BY <2>1, <3>1 DEF replies
  <2> HIDE DEF id
  <2>4. CASE clients[s].pending = <<>>
    <3>1. requests(uplink[s]) = {} /\ replies(server.sent[s]) = {}
      BY <2>1, <2>4 DEF Awaited
    <3> QED BY <2>2, <2>3, <2>4, <3>1, FS_EmptySet
  <2>5. CASE clients[s].pending # <<>>
    <3>1. Len(clients[s].pending) = 1
      BY <2>1, <2>5 DEF ClientState
    <3>2. \/ replies(server.sent[s]) = {} /\ \E i : requests(uplink[s]) = {i}
          \/ requests(uplink[s]) = {} /\ \E i : replies(server.sent[s]) = {i}
      BY <2>1, <2>5 DEF Awaited
    <3>3. Cardinality({}) = 0 /\ \A i : Cardinality({i}) = 1
      BY FS_EmptySet, FS_Singleton
    <3>4. CASE replies(server.sent[s]) = {} /\ \E i : requests(uplink[s]) = {i}
      <4>1. Cardinality(replies(server.sent[s])) = 0 /\ Cardinality(requests(uplink[s])) = 1
        BY <3>3, <3>4
      <4> QED BY <2>2, <2>3, <3>1, <4>1
    <3>5. CASE requests(uplink[s]) = {} /\ \E i : replies(server.sent[s]) = {i}
      <4>1. Cardinality(replies(server.sent[s])) = 1 /\ Cardinality(requests(uplink[s])) = 0
        BY <3>3, <3>5
      <4> QED BY <2>2, <2>3, <3>1, <4>1
    <3> QED BY <3>2, <3>4, <3>5
  <2> QED BY <2>4, <2>5
<1> QED BY <1>1, SettledInvariant, PTL

\* Rooms, runs and clients keep their types, their runs and commands within the bounds.
THEOREM RoomTypes == Spec => []TypeOK
<1>1. Sound /\ Settled => TypeOK
  <2> SUFFICES ASSUME Sound, Settled PROVE TypeOK
    OBVIOUS
  <2> DEFINE buffer == server.run.bufferedOpponentUpdate
  <2>1. server \in ServerState /\ server.run \in RunState
    BY DEF Sound, ServerSound, RunSound, ServerState
  <2>2. /\ server.phase \in Phases /\ server.run.phase \in Phases
        /\ server.readySeats \subseteq Seats /\ server.run.revision \in Nat
        /\ server.run.state \in TurnState /\ server.run.id \in Nat
        /\ server.turnTimer \in BOOLEAN /\ server.expired \in BOOLEAN
        /\ server.revealTimers \subseteq Seats
        /\ \A s \in Seats : server.run.acceptedCommandIds[s] \subseteq Nat
        /\ buffer \in {<<>>} \cup {<<b>> : b \in Withheld}
    BY <2>1 DEF ServerState, RunState
  <2>3. Len(buffer) <= 1 /\ Range(buffer) \subseteq Buffer
    <3>1. CASE buffer = <<>>
      BY <3>1 DEF Range
    <3>2. CASE buffer # <<>>
      <4>1. PICK b \in Withheld : buffer = <<b>>
        BY <2>2, <3>2
      <4>2. b \in Buffer
        BY DEF Withheld
      <4> HIDE DEF buffer
      <4> QED BY <4>1, <4>2 DEF Range
    <3> QED BY <3>1, <3>2
  <2>4. server.run.id \in 0 .. MaxRuns
    <3>1. SeatSound(server, uplink[0], clients[0], 0)
      BY DEF Settled, Seats
    <3> QED BY <2>2, <3>1, SyncAssumption DEF SeatSound, RunsFit
  <2>5. ASSUME NEW s \in Seats
        PROVE  /\ clients[s].screen \in Screens /\ clients[s].run \in 0 .. MaxRuns
               /\ clients[s].canonical \in TurnState /\ clients[s].revision \in Nat
               /\ clients[s].nextCommandId \in 0 .. MaxCommands[s]
               /\ server.run.acceptedCommandIds[s] \subseteq 0 .. MaxCommands[s] - 1
               /\ Range(clients[s].pending) \subseteq Pending
    <3>1. clients[s] \in ClientState /\ MaxCommands[s] \in Nat
      BY SyncAssumption DEF Sound
    <3>2. /\ clients[s].screen \in Screens /\ clients[s].run \in Nat
          /\ clients[s].canonical \in TurnState /\ clients[s].revision \in Nat
          /\ clients[s].nextCommandId \in Nat
          /\ clients[s].pending \in {<<>>} \cup {<<p>> : p \in Pending}
      BY <3>1 DEF ClientState
    <3>3. /\ clients[s].run <= server.run.id /\ clients[s].nextCommandId <= MaxCommands[s]
          /\ \A n \in server.run.acceptedCommandIds[s] : n < clients[s].nextCommandId
      BY DEF Settled, SeatSound, RunsFit, IdsFresh
    <3>4. Range(clients[s].pending) \subseteq Pending
      BY <3>2 DEF Range
    <3>5. server.run.acceptedCommandIds[s] \subseteq 0 .. MaxCommands[s] - 1
      <4> SUFFICES ASSUME NEW n \in server.run.acceptedCommandIds[s]
                   PROVE  n \in 0 .. MaxCommands[s] - 1
        OBVIOUS
      <4> QED BY <2>2, <3>1, <3>2, <3>3
    <3> QED BY <2>4, <3>1, <3>2, <3>3, <3>4, <3>5, SyncAssumption
  <2> QED BY <2>2, <2>3, <2>4, <2>5 DEF TypeOK, Phases
<1> QED BY <1>1, SettledInvariant, PTL

-----------------------------------------------------------------------------

(* Chains of updates.                                                        *)

\* The updates of a queue with one packet more.
LEMMA UpdatesAppended ==
    ASSUME NEW run, NEW q \in Seq(Packet), NEW p \in Packet
    PROVE  LET n == Len(q) + 1
               a == Append(q, p)
           IN  /\ updates(run, a) = updates(run, q) \cup
                    {i \in {n} : p.kind = "accepted" /\ p.run = run}
               /\ a[n] = p /\ n \in Nat /\ \A i \in DOMAIN q : a[i] = q[i] /\ i < n /\ i \in Nat
               /\ updates(run, q) \subseteq DOMAIN q
<1> DEFINE n == Len(q) + 1
           a == Append(q, p)
<1>1. /\ n \in Nat /\ DOMAIN a = DOMAIN q \cup {n} /\ n \notin DOMAIN q /\ a[n] = p
      /\ \A i \in DOMAIN q : a[i] = q[i] /\ i < n /\ i \in Nat
  BY Appended
<1> HIDE DEF n, a
<1> QED BY <1>1 DEF updates, n, a

\* The updates of a queue without its head.
LEMMA UpdatesShortened ==
    ASSUME NEW run, NEW q \in Seq(Packet), q # <<>>
    PROVE  LET t == Tail(q)
           IN  /\ updates(run, t) = {i \in Nat \ {0} : i + 1 \in updates(run, q)}
               /\ \A i \in DOMAIN t : t[i] = q[i + 1]
               /\ updates(run, t) \subseteq DOMAIN t /\ updates(run, q) \subseteq Nat \ {0}
               /\ q[1] = Head(q)
               /\ 1 \in updates(run, q) <=> Head(q).kind = "accepted" /\ Head(q).run = run
<1> DEFINE t == Tail(q)
<1>1. /\ 1 \in DOMAIN q /\ q[1] = Head(q) /\ DOMAIN q \subseteq Nat \ {0}
      /\ DOMAIN t = {i \in Nat \ {0} : i + 1 \in DOMAIN q}
      /\ \A i \in DOMAIN t : t[i] = q[i + 1]
  BY Shortened
<1> HIDE DEF t
<1> QED BY <1>1 DEF updates, t

\* An update in a queue is an update.
LEMMA UpdateTypes ==
    ASSUME NEW run, NEW q \in Seq(Packet), NEW i \in updates(run, q)
    PROVE  q[i] \in Accepted /\ q[i].from \in Nat /\ q[i].to \in Nat
<1>1. i \in DOMAIN q /\ q[i] \in Packet /\ q[i].kind = "accepted"
  BY DEF updates
<1> QED BY <1>1 DEF Packet, Started, Accepted, Rejected, Notice

\* A chain goes on with the update that tells what has just been done.
LEMMA ChainExtended ==
    ASSUME NEW sv, NEW r, NEW s \in Seats, NEW p \in Packet, NEW base \in Nat, NEW canonical,
           ServerSound(sv), Chained(sv, s, base, canonical), sv.phase # "abandoned",
           r.sent[s] = Append(sv.sent[s], p), r.run.id = sv.run.id,
           r.run.revision = sv.run.revision + 1, p.kind = "accepted", p.run = sv.run.id,
           p.from = told(sv, s), p.to = r.run.revision, told(r, s) = r.run.revision,
           Last(p.commands).after = r.run.state
    PROVE  Chained(r, s, base, canonical)
<1> DEFINE q == sv.sent[s]
           n == Len(q) + 1
           a == Append(q, p)
           U == updates(sv.run.id, q)
           W == updates(sv.run.id, a)
<1>1. q \in Seq(Packet) /\ sv.run.revision \in Nat
  BY SeatTypes
<1>2. /\ W = U \cup {n} /\ a[n] = p /\ n \in Nat
      /\ \A i \in U : a[i] = q[i] /\ i < n /\ i \in Nat
  <2>1. /\ W = U \cup {i \in {n} : p.kind = "accepted" /\ p.run = sv.run.id}
        /\ a[n] = p /\ n \in Nat /\ \A i \in DOMAIN q : a[i] = q[i] /\ i < n /\ i \in Nat
        /\ U \subseteq DOMAIN q
    BY <1>1, UpdatesAppended
  <2> QED BY <2>1
<1>3. \A i \in U : q[i].from \in Nat /\ q[i].to \in Nat
  BY <1>1, UpdateTypes
<1>4. /\ base <= sv.run.revision
      /\ \A i \in U :
            /\ q[i].to <= sv.run.revision
            /\ (\A k \in U : i <= k) => q[i].from = base
            /\ (\A k \in U : k <= i) => q[i].to = told(sv, s)
      /\ \A i, j \in U : i < j /\ (\A k \in U : k <= i \/ j <= k) => q[j].from = q[i].to
      /\ U = {} => base = told(sv, s)
  BY DEF Chained
<1>5. r.sent[s] = a
  OBVIOUS
<1> HIDE DEF n, a, U, W, q
<1>6. base <= r.run.revision /\ base # r.run.revision
  BY <1>1, <1>4
<1>7. ASSUME NEW i \in W
      PROVE  /\ a[i].to <= r.run.revision
             /\ a[i].to = r.run.revision => Last(a[i].commands).after = r.run.state
             /\ (\A k \in W : i <= k) => a[i].from = base
             /\ (\A k \in W : k <= i) => a[i].to = told(r, s)
  <2>1. CASE i = n
    <3>1. a[i] = p
      BY <1>2, <2>1
    <3>2. (\A k \in W : i <= k) => U = {}
      BY <1>2, <2>1
    <3> QED BY <1>1, <1>4, <3>1, <3>2
  <2>2. CASE i \in U
    <3>1. a[i] = q[i] /\ i < n /\ n \in W
      BY <1>2, <2>2
    <3>2. ~(\A k \in W : k <= i)
      BY <1>2, <2>2, <3>1
    <3>3. (\A k \in W : i <= k) => \A k \in U : i <= k
      BY <1>2
    <3>4. a[i].to <= sv.run.revision /\ a[i].to \in Nat
      BY <1>3, <1>4, <2>2, <3>1
    <3> QED BY <1>1, <1>4, <2>2, <3>1, <3>2, <3>3, <3>4
  <2> QED BY <1>2, <2>1, <2>2
<1>8. ASSUME NEW i \in W, NEW j \in W, i < j, \A k \in W : k <= i \/ j <= k
      PROVE  a[j].from = a[i].to
  <2>1. i \in U /\ a[i] = q[i]
    BY <1>2, <1>8
  <2>2. CASE j = n
    <3>1. \A k \in U : k <= i
      BY <1>2, <1>8, <2>2
    <3> QED BY <1>2, <1>4, <2>1, <2>2, <3>1
  <2>3. CASE j \in U
    <3>1. a[j] = q[j] /\ \A k \in U : k <= i \/ j <= k
      BY <1>2, <1>8, <2>3
    <3> QED BY <1>4, <1>8, <2>1, <2>3, <3>1
  <2> QED BY <1>2, <2>2, <2>3
<1>9. W # {}
  BY <1>2
<1> QED BY <1>5, <1>6, <1>7, <1>8, <1>9 DEF Chained, W

\* A chain stays as it is while what is done is withheld from the seat.
LEMMA ChainHeld ==
    ASSUME NEW sv, NEW r, NEW s \in Seats, NEW base \in Nat, NEW canonical,
           ServerSound(sv), Chained(sv, s, base, canonical), sv.phase # "abandoned",
           r.sent[s] = sv.sent[s], r.run.id = sv.run.id,
           r.run.revision = sv.run.revision + 1, told(r, s) = told(sv, s)
    PROVE  Chained(r, s, base, canonical)
<1> DEFINE q == sv.sent[s]
           U == updates(sv.run.id, q)
<1>1. q \in Seq(Packet) /\ sv.run.revision \in Nat
  BY SeatTypes
<1>2. \A i \in U : q[i].from \in Nat /\ q[i].to \in Nat
  BY <1>1, UpdateTypes
<1>3. updates(r.run.id, r.sent[s]) = U
  BY DEF updates
<1>4. \A i \in U : q[i].to <= r.run.revision /\ q[i].to # r.run.revision
  BY <1>1, <1>2 DEF Chained
<1>5. base <= r.run.revision /\ base # r.run.revision
  BY <1>1 DEF Chained
<1> HIDE DEF U
<1> QED BY <1>3, <1>4, <1>5 DEF Chained, U

\* A step that neither moves the run nor tells of it leaves the chain alone.
LEMMA ChainKept ==
    ASSUME NEW sv, NEW r, NEW s \in Seats, NEW base, NEW canonical,
           Chained(sv, s, base, canonical),
           updates(r.run.id, r.sent[s]) = updates(sv.run.id, sv.sent[s]),
           \A i \in updates(sv.run.id, sv.sent[s]) : r.sent[s][i] = sv.sent[s][i],
           r.run.revision = sv.run.revision, r.run.state = sv.run.state,
           r.phase # "abandoned" => sv.phase # "abandoned" /\ told(r, s) = told(sv, s)
    PROVE  Chained(r, s, base, canonical)
<1> DEFINE U == updates(sv.run.id, sv.sent[s])
<1> HIDE DEF U
<1> QED BY DEF Chained, U

\* A packet arrives that is not an update of the run.
LEMMA ChainPassed ==
    ASSUME NEW sv, NEW r, NEW s \in Seats, NEW base, NEW canonical,
           Chained(sv, s, base, canonical), sv.sent[s] \in Seq(Packet), sv.sent[s] # <<>>,
           1 \notin updates(sv.run.id, sv.sent[s]), r.sent[s] = Tail(sv.sent[s]), r.run = sv.run,
           r.phase = sv.phase
    PROVE  Chained(r, s, base, canonical)
<1> DEFINE q == sv.sent[s]
           t == Tail(q)
           U == updates(sv.run.id, q)
           W == updates(sv.run.id, t)
<1>1. /\ W = {i \in Nat \ {0} : i + 1 \in U}
      /\ \A i \in W : t[i] = q[i + 1]
      /\ U \subseteq Nat \ {0, 1}
  BY UpdatesShortened
<1>2. told(r, s) = told(sv, s) /\ r.sent[s] = t
  BY DEF told
<1> HIDE DEF t, U, W
<1>3. /\ \A k \in U : k \in Nat /\ k - 1 \in W
      /\ \A i \in W : i \in Nat /\ i + 1 \in U /\ t[i] = q[i + 1]
  BY <1>1
<1>4. ASSUME NEW i \in W
      PROVE  /\ t[i] = q[i + 1] /\ i + 1 \in U
             /\ (\A k \in W : i <= k) => \A k \in U : i + 1 <= k
             /\ (\A k \in W : k <= i) => \A k \in U : k <= i + 1
  <2>1. ASSUME NEW k \in U PROVE (i <= k - 1 => i + 1 <= k) /\ (k - 1 <= i => k <= i + 1)
    BY <1>3
  <2> QED BY <1>3, <2>1
<1>5. ASSUME NEW i \in W, NEW j \in W, i < j, \A k \in W : k <= i \/ j <= k
      PROVE  i + 1 < j + 1 /\ \A k \in U : k <= i + 1 \/ j + 1 <= k
  <2>1. ASSUME NEW k \in U PROVE k <= i + 1 \/ j + 1 <= k
    <3>1. k - 1 <= i \/ j <= k - 1
      BY <1>3, <1>5
    <3> QED BY <1>3, <3>1
  <2> QED BY <1>3, <1>5, <2>1
<1>6. W = {} => U = {}
  BY <1>3
<1>7. ASSUME NEW i \in W
      PROVE  /\ t[i].to <= r.run.revision
             /\ t[i].to = r.run.revision => Last(t[i].commands).after = r.run.state
             /\ (\A k \in W : i <= k) => t[i].from = base
             /\ r.phase # "abandoned" => ((\A k \in W : k <= i) => t[i].to = told(r, s))
  BY <1>2, <1>4 DEF Chained, U
<1>8. ASSUME NEW i \in W, NEW j \in W, i < j, \A k \in W : k <= i \/ j <= k
      PROVE  t[j].from = t[i].to
  BY <1>4, <1>5, <1>8 DEF Chained, U
<1> QED BY <1>2, <1>6, <1>7, <1>8 DEF Chained, W, U

\* The next update of the run arrives.
LEMMA ChainAdvanced ==
    ASSUME NEW sv, NEW r, NEW s \in Seats, NEW base, NEW canonical,
           Chained(sv, s, base, canonical), sv.sent[s] \in Seq(Packet), sv.sent[s] # <<>>,
           1 \in updates(sv.run.id, sv.sent[s]), r.sent[s] = Tail(sv.sent[s]), r.run = sv.run,
           r.phase = sv.phase
    PROVE  Chained(r, s, Head(sv.sent[s]).to, Last(Head(sv.sent[s]).commands).after)
<1> DEFINE q == sv.sent[s]
           m == Head(q)
           t == Tail(q)
           U == updates(sv.run.id, q)
           W == updates(sv.run.id, t)
<1>1. /\ W = {i \in Nat \ {0} : i + 1 \in U}
      /\ \A i \in W : t[i] = q[i + 1]
      /\ U \subseteq Nat \ {0} /\ q[1] = m
  BY UpdatesShortened
<1>2. told(r, s) = told(sv, s) /\ r.sent[s] = t /\ 1 \in U
  BY DEF told
<1> HIDE DEF t, U, W, m
<1>3. /\ \A k \in U : k \in Nat /\ (k = 1 \/ k - 1 \in W)
      /\ \A i \in W : i \in Nat /\ 1 < i + 1 /\ i + 1 \in U /\ t[i] = q[i + 1]
  <2>1. ASSUME NEW k \in U, k # 1 PROVE k - 1 \in W
    <3>1. k - 1 \in Nat \ {0} /\ (k - 1) + 1 = k
      BY <1>1, <2>1
    <3> QED BY <1>1, <3>1
  <2>2. ASSUME NEW i \in W PROVE i \in Nat /\ 1 < i + 1 /\ i + 1 \in U /\ t[i] = q[i + 1]
    BY <1>1
  <2> QED BY <1>1, <2>1, <2>2
<1>4. ASSUME NEW i \in W
      PROVE  /\ t[i] = q[i + 1] /\ i + 1 \in U /\ 1 < i + 1
             /\ (\A k \in W : i <= k) => \A k \in U : k <= 1 \/ i + 1 <= k
             /\ (\A k \in W : k <= i) => \A k \in U : k <= i + 1
  <2>1. ASSUME NEW k \in U PROVE (i <= k - 1 => i + 1 <= k) /\ (k - 1 <= i => k <= i + 1)
    BY <1>3
  <2> QED BY <1>3, <2>1
<1>5. ASSUME NEW i \in W, NEW j \in W, i < j, \A k \in W : k <= i \/ j <= k
      PROVE  i + 1 < j + 1 /\ \A k \in U : k <= i + 1 \/ j + 1 <= k
  <2>1. ASSUME NEW k \in U PROVE k <= i + 1 \/ j + 1 <= k
    <3>1. k = 1 \/ k - 1 <= i \/ j <= k - 1
      BY <1>3, <1>5
    <3> QED BY <1>3, <3>1
  <2> QED BY <1>3, <1>5, <2>1
<1>6. W = {} => \A k \in U : k <= 1
  BY <1>3
<1>7. ASSUME NEW i \in W
      PROVE  /\ t[i].to <= r.run.revision
             /\ t[i].to = r.run.revision => Last(t[i].commands).after = r.run.state
             /\ (\A k \in W : i <= k) => t[i].from = m.to
             /\ r.phase # "abandoned" => ((\A k \in W : k <= i) => t[i].to = told(r, s))
  <2>1. (\A k \in W : i <= k) => q[i + 1].from = q[1].to
    BY <1>2, <1>4 DEF Chained, U
  <2>2. /\ q[i + 1].to <= sv.run.revision
        /\ q[i + 1].to = sv.run.revision => Last(q[i + 1].commands).after = sv.run.state
        /\ sv.phase # "abandoned" => ((\A k \in U : k <= i + 1) => q[i + 1].to = told(sv, s))
    BY <1>4 DEF Chained, U
  <2> QED BY <1>1, <1>2, <1>4, <2>1, <2>2
<1>8. ASSUME NEW i \in W, NEW j \in W, i < j, \A k \in W : k <= i \/ j <= k
      PROVE  t[j].from = t[i].to
  BY <1>4, <1>5, <1>8 DEF Chained, U
<1>9. /\ m.to <= r.run.revision
      /\ m.to = r.run.revision => Last(m.commands).after = r.run.state
      /\ r.phase # "abandoned" => (W = {} => m.to = told(r, s))
  BY <1>1, <1>2, <1>6 DEF Chained, U
<1> QED BY <1>2, <1>7, <1>8, <1>9 DEF Chained, W, m

-----------------------------------------------------------------------------

(* What a step of the run does to the chains and to the half turn.           *)

\* The room plays on, and neither the run nor what a seat is told of it has moved.
Quiet(r, sv, s) ==
    /\ r.run.id = sv.run.id /\ r.run.revision = sv.run.revision /\ r.run.state = sv.run.state
    /\ r.phase # "abandoned" =>
        /\ sv.phase # "abandoned"
        /\ r.run.bufferedOpponentUpdate = sv.run.bufferedOpponentUpdate
    /\ \/ r.sent[s] = sv.sent[s]
       \/ \E p \in Packet : /\ p.kind \notin {"game-start", "accepted"}
                            /\ r.sent[s] = Append(sv.sent[s], p)

\* A seat replays the run as before.
LEMMA ReplayQuiet ==
    ASSUME NEW sv, NEW r, NEW s \in Seats, NEW u, NEW c, ServerSound(sv), Quiet(r, sv, s),
           ReplaySound(sv, u, c, s)
    PROVE  ReplaySound(r, u, c, s)
<1> DEFINE q == sv.sent[s]
<1>1. q \in Seq(Packet)
  BY SeatTypes
<1>2. /\ r.run.id = sv.run.id /\ r.run.revision = sv.run.revision /\ r.run.state = sv.run.state
      /\ r.phase # "abandoned" => sv.phase # "abandoned" /\ told(r, s) = told(sv, s)
  BY DEF Quiet, told
<1>3. /\ updates(r.run.id, r.sent[s]) = updates(sv.run.id, q)
      /\ starts(r.sent[s]) = starts(q)
      /\ \A i \in DOMAIN q : r.sent[s][i] = q[i]
      /\ \A i \in DOMAIN r.sent[s] :
            i \in DOMAIN q \/ r.sent[s][i].kind \notin {"game-start", "accepted"}
  <2>1. CASE r.sent[s] = q
    BY <1>2, <2>1
  <2>2. CASE \E p \in Packet : /\ p.kind \notin {"game-start", "accepted"}
                               /\ r.sent[s] = Append(q, p)
    <3>1. PICK p \in Packet : p.kind \notin {"game-start", "accepted"} /\ r.sent[s] = Append(q, p)
      BY <2>2
    <3> DEFINE a == Append(q, p)
               n == Len(q) + 1
    <3>2. /\ updates(sv.run.id, a) = updates(sv.run.id, q) \cup
                {i \in {n} : p.kind = "accepted" /\ p.run = sv.run.id}
          /\ a[n] = p /\ n \in Nat /\ \A i \in DOMAIN q : a[i] = q[i] /\ i < n /\ i \in Nat
          /\ updates(sv.run.id, q) \subseteq DOMAIN q
      BY <1>1, UpdatesAppended
    <3>3. starts(a) = starts(q) \cup {i \in {n} : p.kind = "game-start"}
      BY <1>1, SentDown
    <3>4. DOMAIN a = DOMAIN q \cup {n} /\ a[n] = p
      BY <1>1, Appended
    <3> HIDE DEF a, n, q
    <3>5. updates(sv.run.id, a) = updates(sv.run.id, q) /\ starts(a) = starts(q)
      BY <3>1, <3>2, <3>3
    <3>6. r.sent[s] = a
      BY <3>1 DEF a
    <3> QED BY <1>2, <3>1, <3>2, <3>4, <3>5, <3>6
  <2> QED BY <2>1, <2>2 DEF Quiet
<1>4. updates(sv.run.id, q) \subseteq DOMAIN q /\ starts(q) \subseteq DOMAIN q
  BY DEF updates, starts
<1>5. ASSUME NEW base, NEW canonical, Chained(sv, s, base, canonical)
      PROVE  Chained(r, s, base, canonical)
  BY <1>2, <1>3, <1>4, <1>5, ChainKept
<1> HIDE DEF q
<1>6. Fitting(r, u, s)
  BY <1>2 DEF ReplaySound, Fitting
<1>7. HalvesKept(r, s)
  BY <1>2, <1>3 DEF ReplaySound, HalvesKept, q
<1>8. Replayed(r, c, s)
  BY <1>3, <1>4, <1>5 DEF ReplaySound, Replayed, q
<1> QED BY <1>6, <1>7, <1>8 DEF ReplaySound

\* A seat that plays a step of the run, or is told of it, replays it in its turn.
LEMMA ReplayMoved ==
    ASSUME NEW sv, NEW r, NEW s \in Seats, NEW u \in Seq(Upward), NEW c \in ClientState,
           ServerSound(sv), Moved(r, sv, s), ReplaySound(sv, u, c, s)
    PROVE  ReplaySound(r, u, c, s)
<1> DEFINE q == sv.sent[s]
<1>1. q \in Seq(Packet) /\ sv.run.revision \in Nat /\ c.revision \in Nat /\ 0 \in Nat
  BY SeatTypes DEF ClientState
<1>2. /\ r.run.id = sv.run.id /\ r.run.revision = sv.run.revision + 1
      /\ sv.phase # "abandoned"
  BY DEF Moved
<1>3. Fitting(r, u, s)
  <2> SUFFICES ASSUME NEW i \in requests(u), u[i].run = sv.run.id
               PROVE  u[i].expected <= r.run.revision /\ u[i].expected # r.run.revision
    BY <1>2 DEF Fitting
  <2>1. u[i] \in Upward /\ u[i].kind = "command"
    BY DEF requests
  <2>2. u[i].expected \in Nat
    BY <2>1 DEF Upward, Envelope
  <2>3. u[i].expected <= sv.run.revision
    BY DEF ReplaySound, Fitting
  <2> QED BY <1>1, <1>2, <2>2, <2>3
<1>4. c.canonical.extraTurnInProgress \subseteq {s}
  BY DEF ReplaySound
<1>5. CASE Uninformed(r, sv, s)
  <2>1. r.sent[s] = q /\ told(r, s) = told(sv, s)
    BY <1>5 DEF Uninformed
  <2>2. ASSUME NEW base \in Nat, NEW canonical, Chained(sv, s, base, canonical)
        PROVE  Chained(r, s, base, canonical)
    BY <1>2, <2>1, <2>2, ChainHeld
  <2>3. HalvesKept(r, s)
    BY <1>2, <2>1 DEF ReplaySound, HalvesKept
  <2>4. Replayed(r, c, s)
    BY <1>1, <1>2, <2>1, <2>2 DEF ReplaySound, Replayed
  <2> QED BY <1>3, <1>4, <2>3, <2>4 DEF ReplaySound
<1>6. CASE Informed(r, sv, s)
  <2>1. PICK p \in Packet :
            /\ r.sent[s] = Append(q, p)
            /\ p.kind = "accepted" /\ p.run = sv.run.id
            /\ p.from = told(sv, s) /\ p.to = r.run.revision
            /\ Last(p.commands).after = r.run.state
            /\ told(r, s) = r.run.revision
            /\ r.run.state.extraTurnInProgress \subseteq {s}
    BY <1>6 DEF Informed
  <2> DEFINE a == Append(q, p)
             n == Len(q) + 1
  <2>2. ASSUME NEW base \in Nat, NEW canonical, Chained(sv, s, base, canonical)
        PROVE  Chained(r, s, base, canonical)
    BY <1>2, <2>1, <2>2, ChainExtended
  <2>3. /\ updates(sv.run.id, a) = updates(sv.run.id, q) \cup
                {i \in {n} : p.kind = "accepted" /\ p.run = sv.run.id}
        /\ a[n] = p /\ n \in Nat /\ \A i \in DOMAIN q : a[i] = q[i] /\ i < n /\ i \in Nat
        /\ updates(sv.run.id, q) \subseteq DOMAIN q
    BY <1>1, UpdatesAppended
  <2>4. starts(a) = starts(q) \cup {i \in {n} : p.kind = "game-start"}
    BY <1>1, SentDown
  <2>5. DOMAIN a = DOMAIN q \cup {n} /\ a[n] = p
    BY <1>1, Appended
  <2>6. starts(q) \subseteq DOMAIN q
    BY DEF starts
  <2>7. r.sent[s] = a /\ sv.run.id \in Nat
    BY <2>1, SeatTypes
  <2> HIDE DEF a, n, q
  <2>8. starts(a) = starts(q) /\ updates(sv.run.id, a) = updates(sv.run.id, q) \cup {n}
    BY <2>1, <2>3, <2>4
  <2>9. HalvesKept(r, s)
    <3>1. \A i \in DOMAIN q :
            /\ q[i].kind = "accepted" =>
                /\ q[i].run <= sv.run.id
                /\ Last(q[i].commands).after.extraTurnInProgress \subseteq {s}
            /\ q[i].kind = "game-start" => q[i].state.extraTurnInProgress = {}
      BY DEF ReplaySound, HalvesKept, q
    <3>2. ASSUME NEW i \in DOMAIN a
          PROVE  /\ a[i].kind = "accepted" =>
                      /\ a[i].run <= r.run.id
                      /\ Last(a[i].commands).after.extraTurnInProgress \subseteq {s}
                 /\ a[i].kind = "game-start" => a[i].state.extraTurnInProgress = {}
      <4>1. CASE i \in DOMAIN q
        BY <1>2, <2>3, <3>1, <4>1
      <4>2. CASE i = n
        <5>1. a[i] = p /\ p.run <= r.run.id
          BY <1>2, <2>1, <2>5, <2>7, <4>2
        <5> QED BY <2>1, <5>1
      <4> QED BY <2>5, <4>1, <4>2
    <3> QED BY <2>7, <3>2 DEF HalvesKept
  <2>10. Replayed(r, c, s)
    <3>1. c.screen = "match" => Chained(r, s, c.revision, c.canonical)
      BY <1>1, <2>2 DEF ReplaySound, Replayed
    <3>2. \A g \in starts(q) : Chained(sv, s, 0, q[g].state) /\ \A i \in updates(sv.run.id, q) : g < i
      BY DEF ReplaySound, Replayed, q
    <3> QED BY <1>1, <1>2, <2>2, <2>3, <2>6, <2>7, <2>8, <3>1, <3>2 DEF Replayed
  <2> QED BY <1>3, <1>4, <2>9, <2>10 DEF ReplaySound
<1> QED BY <1>5, <1>6 DEF Moved

-----------------------------------------------------------------------------

(* The server's steps.                                                       *)

\* What is read from a client is one packet less for it to have sent.
LEMMA ReplayRead ==
    ASSUME NEW sv, NEW s \in Seats, NEW u \in Seq(Upward), NEW c, u # <<>>,
           ReplaySound(sv, u, c, s)
    PROVE  ReplaySound(sv, Tail(u), c, s)
<1> DEFINE v == Tail(u)
<1>1. \A i \in requests(v) : i + 1 \in requests(u) /\ v[i] = u[i + 1]
  BY ReadUp
<1> HIDE DEF v
<1>2. Fitting(sv, v, s)
  BY <1>1 DEF ReplaySound, Fitting
<1> QED BY <1>2 DEF ReplaySound, v

\* The start of a run is the start of its chain.
LEMMA ReplayBegun ==
    ASSUME NEW sv, NEW x, NEW r, NEW s \in Seats, NEW u, NEW c, NEW first \in Seats,
           ServerSound(sv), SeatSound(x, u, c, s), s \in x.readySeats, x.sent[s] = sv.sent[s],
           Begun(r, sv, first), HalvesKept(sv, s), c.canonical.extraTurnInProgress \subseteq {s}
    PROVE  ReplaySound(r, u, c, s)
<1> DEFINE q == sv.sent[s]
           id == sv.run.id + 1
           turns == newTurns(first)
           p == [kind |-> "game-start", run |-> id, state |-> turns]
           a == Append(q, p)
           n == Len(q) + 1
<1>1. q \in Seq(Packet) /\ sv.run.id \in Nat
  BY SeatTypes
<1>2. turns \in TurnState /\ turns.extraTurnInProgress = {}
  BY NewTurns DEF TurnSound
<1>3. /\ r.run.id = id /\ r.run.revision = 0 /\ r.run.state = turns
      /\ r.run.bufferedOpponentUpdate = <<>> /\ r.sent[s] = a
  BY DEF Begun, newRun
<1>4. p \in Packet /\ p.kind = "game-start" /\ p.state = turns /\ id \in Nat
  BY <1>1, <1>2 DEF Packet, Started
<1>5. requests(u) = {} /\ starts(q) = {} /\ c.screen # "match"
  BY DEF SeatSound, ReadyOnce, InOrder, isTerminal
<1> HIDE DEF p, turns
<1>6. /\ starts(a) = starts(q) \cup {i \in {n} : p.kind = "game-start"}
      /\ a[n] = p /\ n \in Nat /\ \A i \in DOMAIN q : a[i] = q[i] /\ i < n /\ i \in Nat
      /\ DOMAIN a = DOMAIN q \cup {n}
  BY <1>1, <1>4, SentDown, Appended
<1>7. \A i \in DOMAIN q :
          /\ q[i].kind = "accepted" =>
                /\ q[i].run <= sv.run.id /\ q[i].run \in Nat
                /\ Last(q[i].commands).after.extraTurnInProgress \subseteq {s}
          /\ q[i].kind = "game-start" => q[i].state.extraTurnInProgress = {}
  <2>1. \A i \in DOMAIN q : q[i].kind = "accepted" => q[i].run \in Nat
    BY <1>1 DEF Packet, Started, Accepted, Rejected, Notice
  <2> QED BY <2>1 DEF HalvesKept
<1> HIDE DEF a, n, q
<1>8. starts(a) = {n} /\ updates(id, a) = {}
  <2>1. starts(a) = {n}
    BY <1>4, <1>5, <1>6
  <2>2. ASSUME NEW i \in DOMAIN a, a[i].kind = "accepted" PROVE a[i].run # id
    BY <1>1, <1>4, <1>6, <1>7, <2>2
  <2> QED BY <2>1, <2>2 DEF updates
<1>9. Fitting(r, u, s)
  BY <1>5 DEF Fitting
<1>10. HalvesKept(r, s)
  <2>1. ASSUME NEW i \in DOMAIN a
        PROVE  /\ a[i].kind = "accepted" =>
                    /\ a[i].run <= id
                    /\ Last(a[i].commands).after.extraTurnInProgress \subseteq {s}
               /\ a[i].kind = "game-start" => a[i].state.extraTurnInProgress = {}
    <3>1. CASE i \in DOMAIN q
      <4>1. /\ a[i] = q[i] /\ sv.run.id <= id
            /\ q[i].kind = "accepted" => q[i].run <= sv.run.id /\ q[i].run \in Nat
        BY <1>1, <1>6, <1>7, <3>1
      <4>2. a[i].kind = "accepted" => a[i].run <= id
        BY <1>1, <1>4, <4>1
      <4> QED BY <1>7, <3>1, <4>1, <4>2
    <3>2. CASE i = n
      BY <1>2, <1>4, <1>6, <3>2
    <3> QED BY <1>6, <3>1, <3>2
  <2> QED BY <1>3, <2>1 DEF HalvesKept
<1>11. Chained(r, s, 0, turns)
  <2>1. told(r, s) = 0
    BY <1>3 DEF told
  <2> QED BY <1>3, <1>8, <2>1 DEF Chained
<1>12. Replayed(r, c, s)
  BY <1>3, <1>4, <1>5, <1>6, <1>8, <1>11 DEF Replayed
<1> QED BY <1>9, <1>10, <1>12 DEF ReplaySound

\* A command that is read is answered, and what it did is told or withheld.
LEMMA ReplayAnswered ==
    ASSUME NEW sv, NEW r, NEW a \in Seats, NEW u \in Seq(Upward), u # <<>>,
           Head(u) \in Envelope, Answered(sv, r, a, Head(u)),
           NEW c \in ClientState, NEW d \in ClientState, NEW v \in Seq(Upward),
           ServerSound(sv), ServerSound(r), Halved(sv), SeatSound(sv, u, c, a),
           ReplaySound(sv, u, c, a), ReplaySound(sv, v, d, otherSeat(a))
    PROVE  Halved(r) /\ ReplaySound(r, u, c, a) /\ ReplaySound(r, v, d, otherSeat(a))
<1> DEFINE e == Head(u)
           o == otherSeat(a)
<1>1. /\ e \in Envelope /\ e.kind = "command" /\ 1 \in requests(u) /\ u[1] = e
      /\ o \in Seats /\ o # a /\ sv \in ServerState
  <2>1. e.kind = "command" /\ o \in Seats /\ o # a
    BY DEF Envelope, otherSeat, Seats
  <2> QED BY <2>1, ReadUp DEF ServerSound, RunSound
<1> HIDE DEF e
<1>2. CASE \E p \in Rejected : p.id = e.id /\ r = send(sv, a, p)
  <2>1. PICK p \in Rejected : p.id = e.id /\ r = send(sv, a, p)
    BY <1>2
  <2>2. p \in Packet /\ p.kind = "rejected"
    BY DEF Packet, Rejected
  <2>3. /\ Alike(r, sv) /\ r.sent[a] = Append(sv.sent[a], p) /\ r.sent[o] = sv.sent[o]
        /\ r.run = sv.run
    BY <1>1, <2>1, <2>2, Sent
  <2>4. Quiet(r, sv, a) /\ Quiet(r, sv, o)
    BY <2>2, <2>3 DEF Quiet, Alike
  <2>5. Halved(r)
    BY <2>3, HalvedKept DEF Alike
  <2> QED BY <1>1, <2>4, <2>5, ReplayQuiet
<1>3. CASE \E x \in repeated(sv, a, e) : r = send(sv, a, x.reply)
  <2>1. PICK x \in repeated(sv, a, e) : r = send(sv, a, x.reply)
    BY <1>3
  <2>2. x \in Range(sv.run.commandCaches[a]) /\ x.id = e.id
    BY <1>1, <2>1, CachedReply
  <2>3. e.id \in sv.run.acceptedCommandIds[a]
    BY <2>2 DEF SeatSound, IdsFresh
  <2> QED BY <1>1, <2>3 DEF SeatSound, IdsFresh
<1>4. CASE /\ sv.phase = "active" /\ e.run = sv.run.id /\ e.expected = sv.run.revision
           /\ \E st \in outcomes(sv.run.state, a, e.type) :
                r = remembered(acceptClientCommand(sv, a, e.id, e.type, st), a, e)
  <2>1. PICK st \in outcomes(sv.run.state, a, e.type) :
            r = remembered(acceptClientCommand(sv, a, e.id, e.type, st), a, e)
    BY <1>4
  <2> DEFINE n == acceptClientCommand(sv, a, e.id, e.type, st)
             hold == a \in st.extraTurnInProgress /\ (buffering(sv) \/ e.type = "place")
  <2>2. /\ ServerSound(n) /\ InPhase(n, st) /\ Kept(r, n, a, e)
        /\ Spread(sv, n, a, e.id, [type |-> e.type, after |-> st], hold)
    <3> DEFINE k == remembered(n, a, e)
               command == [type |-> e.type, after |-> st]
    <3>1. ServerSound(n) /\ InPhase(n, st) /\ Kept(k, n, a, e)
      BY <1>1, <1>4, <2>1, CommandAccepted
    <3>2. Spread(sv, n, a, e.id, command, hold)
      BY <1>1, <1>4, <2>1, CommandAccepted
    <3>3. r = k
      BY <2>1
    <3> HIDE DEF n, k, hold
    <3> QED BY <3>1, <3>2, <3>3
  <2>3. a = sv.run.state.activeSeat
    BY <1>1, <1>4 DEF ReplaySound, Fitting
  <2>4. e.type \in CommandTypes
    BY <1>1 DEF Envelope
  <2> HIDE DEF n
  <2>5. \E command \in Command : Played(n, sv, a, e.id, command)
    BY <1>4, <2>2, <2>3, <2>4, AcceptedPlayed DEF InPhase
  <2>6. Halved(n) /\ Moved(n, sv, a) /\ Moved(n, sv, o)
    BY <2>2, <2>5, PlayedMoves
  <2>7. ReplaySound(n, u, c, a) /\ ReplaySound(n, v, d, o)
    BY <1>1, <2>6, ReplayMoved
  <2>8. Quiet(r, n, a) /\ Quiet(r, n, o)
    BY <2>2 DEF Quiet, Kept
  <2>9. Halved(r)
    BY <2>2, <2>6, HalvedKept DEF Kept
  <2> QED BY <1>1, <2>2, <2>7, <2>8, <2>9, ReplayQuiet
<1> QED BY <1>2, <1>3, <1>4 DEF Answered, e

\* A step that plays the run on leaves every chain whole.
LEMMA PlayedReplays ==
    ASSUME Sound, Replays, NEW r, NEW a \in Seats, NEW id, ServerSound(r),
           \E command \in Command : Played(r, server, a, id, command)
    PROVE  /\ Halved(r)
           /\ \A s \in Seats : ReplaySound(r, uplink[s], clients[s], s)
<1>1. ServerSound(server) /\ Halved(server)
  BY DEF Sound, Replays
<1>2. Halved(r) /\ Moved(r, server, a) /\ Moved(r, server, otherSeat(a))
  BY <1>1, PlayedMoves
<1>3. ASSUME NEW s \in Seats PROVE ReplaySound(r, uplink[s], clients[s], s)
  <2>1. s = a \/ s = otherSeat(a)
    BY DEF Seats, otherSeat
  <2>2. /\ ReplaySound(server, uplink[s], clients[s], s)
        /\ uplink[s] \in Seq(Upward) /\ clients[s] \in ClientState
    BY DEF Sound, Replays
  <2>3. Moved(r, server, s)
    BY <1>2, <2>1
  <2> QED BY <1>1, <2>2, <2>3, ReplayMoved
<1> QED BY <1>2, <1>3

\* A deadline that is resolved leaves every chain whole.
LEMMA ResolvedReplays ==
    ASSUME Sound, Replays, NEW r, ServerSound(r), r = server \/ Resolved(server, r)
    PROVE  /\ Halved(r)
           /\ \A s \in Seats : ReplaySound(r, uplink[s], clients[s], s)
<1>1. CASE r = server
  BY <1>1 DEF Replays
<1>2. CASE server.phase = "active" /\ Resolved(server, r)
  <2>1. server.run.state.activeSeat \in Seats
    BY DEF Sound, ServerSound, RunSound, ServerState, RunState, TurnState
  <2>2. \E command \in Command : Played(r, server, server.run.state.activeSeat, NoId, command)
    BY <1>2, ResolvedPlayed DEF Sound, Replays
  <2> QED BY <2>1, <2>2, PlayedReplays
<1> QED BY <1>1, <1>2 DEF Resolved

\* A step that leaves the run and the chains alone.
LEMMA QuietReplays ==
    ASSUME Sound, Replays, NEW r, Halved(r), \A s \in Seats : Quiet(r, server, s)
    PROVE  \A s \in Seats : ReplaySound(r, uplink[s], clients[s], s)
BY ReplayQuiet DEF Sound, Replays

\* Every step of the server leaves the chains whole and the half turn withheld.
LEMMA ServerStepReplays ==
    ASSUME Sound, Settled, Replays, ServerNext, clients' = clients
    PROVE  Replays'
<1>1. /\ ServerSound(server) /\ ServerSound(server') /\ uplink \in [Seats -> Seq(Upward)]
      /\ Halved(server) /\ clients \in [Seats -> ClientState] /\ server \in ServerState
  BY ServerStepSound DEF Sound, Replays, ServerSound, RunSound
<1> DEFINE Kind(r) == Halved(r) /\ \A s \in Seats : ReplaySound(r, uplink[s], clients[s], s)
<1>2. ASSUME Kind(server'), uplink' = uplink PROVE Replays'
  BY <1>2 DEF Replays
<1>3. ASSUME NEW a \in Seats,
             received(a, "ready") \/ received(a, "command") \/ received(a, "close"),
             Kind(server')
      PROVE  Replays'
  <2>1. /\ uplink[a] \in Seq(Upward) /\ uplink[a] # <<>> /\ uplink'[a] = Tail(uplink[a])
        /\ \A o \in Seats \ {a} : uplink'[o] = uplink[o]
    BY <1>3, ReceivedPacket
  <2>2. ReplaySound(server', uplink'[a], clients'[a], a)
    <3>1. ReplaySound(server', uplink[a], clients[a], a)
      BY <1>3
    <3> QED BY <2>1, <3>1, ReplayRead
  <2>3. \A o \in Seats \ {a} : ReplaySound(server', uplink'[o], clients'[o], o)
    BY <1>3, <2>1
  <2> QED BY <1>3, <2>2, <2>3 DEF Replays
<1>4. CASE TurnTimerFires
  <2>1. server.phase = "active"
    BY <1>1, <1>4 DEF TurnTimerFires, ServerSound
  <2>2. Resolved(server, server') /\ uplink' = uplink
    BY <1>1, <1>4, <2>1, DeadlineResolved DEF TurnTimerFires
  <2> QED BY <1>1, <1>2, <2>2, ResolvedReplays
<1>5. CASE DeadlinePasses
  <2>1. server' = [server EXCEPT !.expired = TRUE] /\ uplink' = uplink
    BY <1>5 DEF DeadlinePasses
  <2>2. /\ server'.run = server.run /\ server'.phase = server.phase
        /\ server'.sent = server.sent
    BY <1>1, <2>1 DEF ServerState
  <2>3. Halved(server') /\ \A s \in Seats : Quiet(server', server, s)
    BY <1>1, <2>2, HalvedKept DEF Quiet
  <2> QED BY <1>2, <2>1, <2>3, QuietReplays
<1>6. ASSUME NEW a \in Seats, HandleReady(a) PROVE Replays'
  <2>1. received(a, "ready") /\ Head(uplink[a]).kind = "ready" /\ Head(uplink[a]).ready = TRUE
    BY <1>6, ReceivedPacket DEF HandleReady
  <2>2. CASE server.phase = "abandoned"
    <3> DEFINE p == [kind |-> "closed"]
    <3>1. server' = send(server, a, p) /\ p \in Packet /\ p.kind = "closed"
      BY <1>6, <2>2 DEF HandleReady, Packet, Notice
    <3> HIDE DEF p
    <3>2. /\ Alike(server', server) /\ server'.sent[a] = Append(server.sent[a], p)
          /\ server'.sent[otherSeat(a)] = server.sent[otherSeat(a)] /\ server'.run = server.run
      BY <1>1, <3>1, Sent
    <3>3. ASSUME NEW s \in Seats PROVE Quiet(server', server, s)
      <4>1. s = a \/ s = otherSeat(a)
        BY DEF Seats, otherSeat
      <4> QED BY <3>1, <3>2, <4>1 DEF Quiet, Alike
    <3>4. Halved(server')
      BY <1>1, <3>2, HalvedKept DEF Alike
    <3> QED BY <1>3, <2>1, <3>3, <3>4, QuietReplays
  <2>3. CASE server.phase # "abandoned"
    <3> DEFINE marked == [server EXCEPT !.readySeats = server.readySeats \cup {a}]
    <3>1. server' \in setReady(server, a, TRUE)
      BY <1>6, <2>1, <2>3 DEF HandleReady
    <3>2. \/ server' = server
          \/ server' = marked
          \/ /\ server.readySeats \cup {a} = Seats
             /\ \E first \in FirstSeats : Begun(server', server, first)
      BY <1>1, <2>3, <3>1, ReadySet
    <3>3. /\ marked.run = server.run /\ marked.sent = server.sent
          /\ marked.phase = server.phase /\ marked.readySeats = server.readySeats \cup {a}
      BY <1>1 DEF ServerState
    <3> HIDE DEF marked
    <3>4. CASE server' = server \/ server' = marked
      <4>1. /\ server'.run = server.run /\ server'.phase = server.phase
            /\ server'.sent = server.sent
        BY <3>3, <3>4
      <4>2. Halved(server') /\ \A s \in Seats : Quiet(server', server, s)
        BY <1>1, <4>1, HalvedKept DEF Quiet
      <4> QED BY <1>3, <2>1, <4>2, QuietReplays
    <3>5. CASE /\ server.readySeats \cup {a} = Seats
               /\ \E first \in FirstSeats : Begun(server', server, first)
      <4>1. PICK first \in FirstSeats : Begun(server', server, first)
        BY <3>5
      <4>2. first \in Seats
        BY CoordinatorAssumption
      <4>3. Halved(server')
        <5>1. /\ server'.run.bufferedOpponentUpdate = <<>>
              /\ server'.run.state.extraTurnInProgress = {}
          BY <4>1, <4>2, NewTurns DEF Begun, newRun
        <5> QED BY <5>1 DEF Halved, Range
      <4>4. ASSUME NEW s \in Seats PROVE ReplaySound(server', uplink'[s], clients'[s], s)
        <5>1. SeatSound(marked, uplink'[s], clients[s], s)
          <6>1. /\ uplink[a] \in Seq(Upward) /\ uplink[a] # <<>> /\ uplink'[a] = Tail(uplink[a])
                /\ \A o \in Seats \ {a} : uplink'[o] = uplink[o]
            BY <2>1, ReceivedPacket
          <6>2. SeatSound(server, uplink[s], clients[s], s) /\ clients[s] \in ClientState
            BY <1>1 DEF Settled
          <6>3. CASE s = a
            <7>1. marked.run = server.run /\ marked.sent[a] = server.sent[a]
              BY <3>3
            <7>2. SeatSound(marked, Tail(uplink[a]), clients[a], a)
              BY <1>1, <2>1, <3>3, <6>1, <6>2, <6>3, <7>1, SeatReady
            <7> QED BY <6>1, <6>3, <7>2
          <6>4. CASE s # a
            <7>1. Undisturbed(marked, server, s)
              BY <3>3, <6>4 DEF Undisturbed
            <7> QED BY <1>1, <6>1, <6>2, <6>4, <7>1, SeatUndisturbed
          <6> QED BY <6>3, <6>4
        <5>2. s \in marked.readySeats /\ marked.sent[s] = server.sent[s]
          BY <3>3, <3>5
        <5>3. HalvesKept(server, s) /\ clients[s].canonical.extraTurnInProgress \subseteq {s}
          BY DEF Replays, ReplaySound
        <5> QED BY <1>1, <4>1, <4>2, <5>1, <5>2, <5>3, ReplayBegun
      <4> QED BY <4>3, <4>4 DEF Replays
    <3> QED BY <3>2, <3>4, <3>5
  <2> QED BY <2>2, <2>3
<1>7. ASSUME NEW a \in Seats, HandleCommand(a) PROVE Replays'
  <2> DEFINE o == otherSeat(a)
             u == uplink[a]
             v == uplink[o]
             c == clients[a]
             d == clients[o]
  <2>1. received(a, "command") /\ server' \in handleGameCommand(server, a, Head(u))
    BY <1>7 DEF HandleCommand
  <2>2. /\ u \in Seq(Upward) /\ u # <<>> /\ Head(u) \in Envelope
        /\ o \in Seats /\ v \in Seq(Upward) /\ c \in ClientState /\ d \in ClientState
    <3>1. o \in Seats
      BY DEF otherSeat, Seats
    <3>2. u # <<>> /\ Head(u) \in Envelope
      BY <2>1, ReceivedPacket
    <3> HIDE DEF o
    <3> QED BY <1>1, <3>1, <3>2
  <2>3. PICK w : /\ ServerSound(w) /\ Answered(w, server', a, Head(u))
                 /\ w = server \/ Resolved(server, w)
    BY <1>1, <2>1, <2>2, CommandHandled
  <2>4. Undisturbed(w, server, a)
    BY <1>1, <2>3, ResolvedUndisturbed DEF Undisturbed
  <2>5. SeatSound(w, u, c, a)
    BY <1>1, <2>2, <2>4, SeatUndisturbed DEF Settled
  <2>6. /\ Halved(w) /\ ReplaySound(w, u, c, a) /\ ReplaySound(w, v, d, o)
    BY <2>2, <2>3, ResolvedReplays
  <2>7. Halved(server') /\ ReplaySound(server', u, c, a) /\ ReplaySound(server', v, d, o)
    BY <1>1, <2>2, <2>3, <2>5, <2>6, ReplayAnswered
  <2>8. \A s \in Seats : s = a \/ s = o
    BY DEF Seats, otherSeat
  <2>9. Kind(server')
    BY <2>7, <2>8
  <2> QED BY <1>3, <2>1, <2>9
<1>8. ASSUME NEW a \in Seats, HandleClose(a) PROVE Replays'
  <2> DEFINE p == [kind |-> "opponent-disconnected"]
  <2>1. received(a, "close") /\ server' = abandon(server, a)
    BY <1>8 DEF HandleClose
  <2>2. /\ server'.run.id = server.run.id /\ server'.phase = "abandoned"
        /\ server'.run.state = server.run.state /\ server'.run.revision = server.run.revision
        /\ server.phase = "abandoned" => server' = server
        /\ server.phase # "abandoned" =>
              /\ server'.run.bufferedOpponentUpdate = <<>>
              /\ server'.sent[a] = server.sent[a]
              /\ server'.sent[otherSeat(a)] = Append(server.sent[otherSeat(a)], p)
    BY <1>1, <2>1, Abandoned
  <2>3. p \in Packet /\ p.kind = "opponent-disconnected"
    BY DEF Packet, Notice
  <2> HIDE DEF p
  <2>4. ASSUME NEW s \in Seats PROVE Quiet(server', server, s)
    <3>1. s = a \/ s = otherSeat(a)
      BY DEF Seats, otherSeat
    <3> QED BY <2>2, <2>3, <3>1 DEF Quiet
  <2>5. Halved(server')
    <3>1. CASE server.phase = "abandoned"
      BY <1>1, <2>2, <3>1
    <3>2. CASE server.phase # "abandoned"
      BY <2>2, <3>2 DEF Halved, Range
    <3> QED BY <3>1, <3>2
  <2> QED BY <1>3, <2>1, <2>4, <2>5, QuietReplays
<1>9. ASSUME NEW a \in Seats, RevealTimerFires(a) PROVE Replays'
  <2>1. /\ a \in server.revealTimers /\ uplink' = uplink
        /\ server' \in closeRevealWindow([server EXCEPT !.revealTimers = server.revealTimers \ {a}], a)
    BY <1>9 DEF RevealTimerFires
  <2>2. /\ server'.phase = "active"
        /\ \E st \in endReveal(server.run.state, a) :
            Spread(server, server', a, NoId, [type |-> "end-reveal", after |-> st],
                   buffering(server))
    BY <1>1, <2>1, WindowClosed
  <2>3. \E command \in Command : Played(server', server, a, NoId, command)
    BY <1>1, <2>1, <2>2, WindowPlayed
  <2> QED BY <1>1, <1>2, <2>1, <2>3, PlayedReplays
<1> QED BY <1>4, <1>5, <1>6, <1>7, <1>8, <1>9 DEF ServerNext

-----------------------------------------------------------------------------

(* The clients' steps.                                                       *)

\* A client that only asks, or is gone, shows what it did.
LEMMA ReplayAsked ==
    ASSUME NEW sv, NEW s \in Seats, NEW u, NEW v, NEW c, NEW d, ReplaySound(sv, u, c, s),
           d.canonical = c.canonical,
           d.screen = "match" => c.screen = "match" /\ d.revision = c.revision,
           Fitting(sv, v, s)
    PROVE  ReplaySound(sv, v, d, s)
BY DEF ReplaySound, Replayed

\* A client commands the run at the revision it shows, when it is to act.
LEMMA FittingSent ==
    ASSUME NEW sv, NEW s \in Seats, NEW u \in Seq(Upward), NEW c, NEW x \in Envelope,
           ReplaySound(sv, u, c, s), c.screen = "match", x.expected = c.revision,
           c.canonical.activeSeat = s
    PROVE  Fitting(sv, Append(u, x), s)
<1> DEFINE v == Append(u, x)
           n == Len(u) + 1
<1>1. x \in Upward
  BY DEF Upward
<1>2. /\ requests(v) = requests(u) \cup {i \in {n} : x.kind = "command"}
      /\ v[n] = x /\ \A i \in DOMAIN u : v[i] = u[i]
      /\ requests(u) \subseteq DOMAIN u
  BY <1>1, SentUp
<1>3. /\ c.revision <= sv.run.revision
      /\ c.revision = sv.run.revision => c.canonical = sv.run.state
  BY DEF ReplaySound, Replayed, Chained
<1> HIDE DEF v, n
<1> QED BY <1>2, <1>3 DEF ReplaySound, Fitting, v

\* What is lost with a connection was fit to be read.
LEMMA FittingLeft ==
    ASSUME NEW sv, NEW s \in Seats, NEW u \in Seq(Upward), NEW n \in 0 .. Len(u),
           Fitting(sv, u, s)
    PROVE  Fitting(sv, Append(SubSeq(u, 1, n), [kind |-> "close"]), s)
<1> DEFINE x == [kind |-> "close"]
           k == SubSeq(u, 1, n)
           v == Append(k, x)
<1>1. x \in Upward /\ x.kind = "close"
  BY DEF Upward
<1>2. /\ k \in Seq(Upward) /\ DOMAIN k \subseteq DOMAIN u
      /\ \A i \in DOMAIN k : k[i] = u[i]
  OBVIOUS
<1> HIDE DEF k, x
<1>3. /\ requests(v) = requests(k) \cup {i \in {Len(k) + 1} : x.kind = "command"}
      /\ \A i \in DOMAIN k : v[i] = k[i]
      /\ requests(k) \subseteq DOMAIN k
  BY <1>1, <1>2, SentUp
<1> HIDE DEF v
<1>4. \A i \in requests(v) : i \in requests(u) /\ v[i] = u[i]
  BY <1>1, <1>2, <1>3 DEF requests
<1> QED BY <1>4 DEF Fitting, v, x, k

\* The packets that are left tell as little of the opponent's half turn.
LEMMA HalvesArrived ==
    ASSUME NEW sv, NEW r, NEW s \in Seats, HalvesKept(sv, s), sv.sent[s] \in Seq(Packet),
           sv.sent[s] # <<>>, r.sent[s] = Tail(sv.sent[s]), r.run = sv.run
    PROVE  HalvesKept(r, s)
<1> DEFINE q == sv.sent[s]
           t == Tail(q)
<1>1. /\ DOMAIN t = {i \in Nat \ {0} : i + 1 \in DOMAIN q}
      /\ \A i \in DOMAIN t : t[i] = q[i + 1]
  BY Shortened
<1> HIDE DEF t
<1>2. \A i \in DOMAIN t : i + 1 \in DOMAIN q /\ t[i] = q[i + 1]
  BY <1>1
<1>3. r.sent[s] = t
  BY DEF t
<1>4. \A i \in DOMAIN q :
          /\ q[i].kind = "accepted" =>
                q[i].run <= sv.run.id /\ Last(q[i].commands).after.extraTurnInProgress \subseteq {s}
          /\ q[i].kind = "game-start" => q[i].state.extraTurnInProgress = {}
  BY DEF HalvesKept
<1> HIDE DEF q
<1>5. ASSUME NEW i \in DOMAIN t
      PROVE  /\ t[i].kind = "accepted" =>
                t[i].run <= sv.run.id /\ Last(t[i].commands).after.extraTurnInProgress \subseteq {s}
             /\ t[i].kind = "game-start" => t[i].state.extraTurnInProgress = {}
  <2> DEFINE x == q[i + 1]
  <2>1. x = t[i] /\ i + 1 \in DOMAIN q
    BY <1>2
  <2>2. /\ x.kind = "accepted" =>
                x.run <= sv.run.id /\ Last(x.commands).after.extraTurnInProgress \subseteq {s}
        /\ x.kind = "game-start" => x.state.extraTurnInProgress = {}
    BY <1>4, <2>1
  <2> HIDE DEF x
  <2> QED BY <2>1, <2>2
<1> QED BY <1>3, <1>5 DEF HalvesKept

\* A packet arrives: an update of the run a client plays is played, any other leaves it where
\* it is.
LEMMA ReplayArrived ==
    ASSUME NEW sv, NEW r, NEW s \in Seats, NEW u, NEW c, NEW d, ReplaySound(sv, u, c, s),
           sv.sent[s] \in Seq(Packet), sv.sent[s] # <<>>, r.sent[s] = Tail(sv.sent[s]),
           r.run = sv.run, r.phase = sv.phase, d.canonical.extraTurnInProgress \subseteq {s},
           d.screen = "match" =>
                /\ c.screen = "match"
                /\ IF 1 \in updates(sv.run.id, sv.sent[s])
                   THEN /\ d.revision = Head(sv.sent[s]).to
                        /\ d.canonical = Last(Head(sv.sent[s]).commands).after
                   ELSE d.revision = c.revision /\ d.canonical = c.canonical
    PROVE  ReplaySound(r, u, d, s)
<1> DEFINE q == sv.sent[s]
           t == Tail(q)
           U == updates(sv.run.id, q)
           W == updates(sv.run.id, t)
<1>1. /\ W = {i \in Nat \ {0} : i + 1 \in U}
      /\ U \subseteq Nat \ {0}
  BY UpdatesShortened
<1>2. /\ starts(t) = {i \in Nat \ {0} : i + 1 \in starts(q)}
      /\ \A i \in DOMAIN t : t[i] = q[i + 1]
      /\ starts(t) \subseteq DOMAIN t
  BY ReadDown
<1>3. d.screen = "match" => Chained(r, s, d.revision, d.canonical)
  <2>1. CASE d.screen = "match" /\ 1 \in U
    <3>1. Chained(sv, s, c.revision, c.canonical)
      BY <2>1 DEF ReplaySound, Replayed
    <3>2. Chained(r, s, Head(q).to, Last(Head(q).commands).after)
      BY <2>1, <3>1, ChainAdvanced
    <3> QED BY <2>1, <3>2
  <2>2. CASE d.screen = "match" /\ 1 \notin U
    <3>1. Chained(sv, s, c.revision, c.canonical)
      BY <2>2 DEF ReplaySound, Replayed
    <3> QED BY <2>2, <3>1, ChainPassed
  <2> QED BY <2>1, <2>2
<1>4. ASSUME NEW g \in starts(t)
      PROVE  Chained(r, s, 0, t[g].state) /\ \A i \in W : g < i
  <2>1. /\ g \in Nat \ {0} /\ g + 1 \in starts(q) /\ t[g] = q[g + 1]
    BY <1>2
  <2>2. Chained(sv, s, 0, q[g + 1].state) /\ \A i \in U : g + 1 < i
    BY <2>1 DEF ReplaySound, Replayed
  <2>3. 1 \notin U
    BY <1>1, <2>1, <2>2
  <2>4. Chained(r, s, 0, q[g + 1].state)
    BY <2>2, <2>3, ChainPassed
  <2>5. ASSUME NEW i \in W PROVE g < i
    <3>1. i \in Nat /\ i + 1 \in U
      BY <1>1
    <3>2. g + 1 < i + 1
      BY <2>2, <3>1
    <3> QED BY <2>1, <3>1, <3>2
  <2> HIDE DEF t, W
  <2> QED BY <2>1, <2>4, <2>5
<1>5. Fitting(r, u, s) /\ HalvesKept(r, s)
  BY HalvesArrived DEF ReplaySound, Fitting
<1> HIDE DEF t, W
<1>6. r.sent[s] = t /\ updates(r.run.id, r.sent[s]) = W
  BY DEF t, W
<1>7. Replayed(r, d, s)
  BY <1>3, <1>4, <1>6 DEF Replayed
<1> QED BY <1>5, <1>7 DEF ReplaySound

\* The start of a run arrives, and its chain becomes the client's.
LEMMA ReplayStarted ==
    ASSUME NEW sv, NEW r, NEW s \in Seats, NEW u, NEW c, ReplaySound(sv, u, c, s),
           ReadyOnce(sv, u, c, s),
           sv.sent[s] \in Seq(Packet), sv.sent[s] # <<>>, r.sent[s] = Tail(sv.sent[s]),
           r.run = sv.run, r.phase = sv.phase, Head(sv.sent[s]).kind = "game-start"
    PROVE  ReplaySound(r, u, createOnlineAuthority(Head(sv.sent[s])), s)
<1> DEFINE q == sv.sent[s]
           m == Head(q)
           t == Tail(q)
           d == createOnlineAuthority(m)
           U == updates(sv.run.id, q)
<1>1. /\ q[1] = m /\ 1 \notin U /\ 1 \in DOMAIN q
  BY UpdatesShortened, Shortened
<1>2. /\ starts(t) = {i \in Nat \ {0} : i + 1 \in starts(q)}
      /\ 1 \in starts(q)
  BY ReadDown
<1>3. d.screen = "match" /\ d.revision = 0 /\ d.canonical = m.state
  BY DEF createOnlineAuthority
<1> HIDE DEF d, m
<1>4. starts(t) = {}
  <2>1. \A i, j \in starts(q) : i = j
    BY DEF ReadyOnce
  <2>2. \A i \in starts(t) : i \in Nat \ {0} /\ i + 1 = 1
    BY <1>2, <2>1
  <2> QED BY <2>2
<1>5. Chained(sv, s, 0, m.state)
  BY <1>1, <1>2 DEF ReplaySound, Replayed
<1>6. Chained(r, s, 0, m.state)
  BY <1>1, <1>5, ChainPassed
<1>7. m.state.extraTurnInProgress = {}
  BY <1>1 DEF ReplaySound, HalvesKept, m
<1>8. Fitting(r, u, s) /\ HalvesKept(r, s)
  BY HalvesArrived DEF ReplaySound, Fitting
<1>9. Replayed(r, d, s)
  BY <1>3, <1>4, <1>6 DEF Replayed
<1> QED BY <1>3, <1>7, <1>8, <1>9 DEF ReplaySound, d, m

\* Every step of a client leaves the chains whole and the half turn withheld.
LEMMA ClientStepReplays ==
    ASSUME Sound, Settled, Replays, ClientNext
    PROVE  Replays'
<1>1. /\ ServerSound(server) /\ Halved(server) /\ uplink \in [Seats -> Seq(Upward)]
      /\ clients \in [Seats -> ClientState]
      /\ \A s \in Seats : /\ SeatSound(server, uplink[s], clients[s], s)
                          /\ ReplaySound(server, uplink[s], clients[s], s)
                          /\ server.sent[s] \in Seq(Packet)
  BY SeatTypes DEF Sound, Settled, Replays
<1>2. ASSUME NEW a \in Seats, server' = server,
             \A o \in Seats \ {a} : uplink'[o] = uplink[o] /\ clients'[o] = clients[o],
             ReplaySound(server, uplink'[a], clients'[a], a)
      PROVE  Replays'
  <2>1. ASSUME NEW s \in Seats PROVE ReplaySound(server', uplink'[s], clients'[s], s)
    BY <1>1, <1>2
  <2> QED BY <1>1, <1>2, <2>1 DEF Replays
<1>3. ASSUME NEW a \in Seats, SendReady(a) PROVE Replays'
  <2> DEFINE c == clients[a]
             x == [kind |-> "ready", ready |-> TRUE]
             v == Append(uplink[a], x)
             d == [c EXCEPT !.screen = "waiting"]
  <2>1. /\ server' = server /\ clients' = [clients EXCEPT ![a] = d]
        /\ uplink' = [uplink EXCEPT ![a] = v]
    BY <1>1, <1>3 DEF SendReady, transmit
  <2>2. d.canonical = c.canonical /\ d.screen = "waiting"
    BY <1>1 DEF ClientState
  <2>3. x \in Upward /\ x.kind = "ready"
    BY DEF Upward
  <2> HIDE DEF x
  <2>4. Fitting(server, v, a)
    <3>1. uplink[a] \in Seq(Upward) /\ Fitting(server, uplink[a], a)
      BY <1>1 DEF ReplaySound
    <3>2. \A i \in requests(v) : i \in requests(uplink[a]) /\ v[i] = uplink[a][i]
      BY <2>3, <3>1, SentUp
    <3> QED BY <3>1, <3>2 DEF Fitting
  <2> HIDE DEF v, d, c
  <2>5. ReplaySound(server, v, d, a)
    BY <1>1, <2>2, <2>4, ReplayAsked DEF c
  <2> QED BY <1>1, <1>2, <2>1, <2>5
<1>4. ASSUME NEW a \in Seats, NEW type \in CommandTypes, SendCommand(a, type) PROVE Replays'
  <2> DEFINE c == clients[a]
             x == [kind |-> "command", run |-> c.run, id |-> c.nextCommandId,
                   expected |-> c.revision, type |-> type]
             p == <<[id |-> c.nextCommandId, type |-> type]>>
             v == Append(uplink[a], x)
             d == [c EXCEPT !.nextCommandId = c.nextCommandId + 1, !.pending = p]
  <2>1. /\ c.screen = "match" /\ c.canonical.activeSeat = a
        /\ server' = server /\ clients' = [clients EXCEPT ![a] = d]
        /\ uplink' = [uplink EXCEPT ![a] = v]
    BY <1>1, <1>4 DEF SendCommand, transmit
  <2> HIDE DEF p
  <2>2. d.canonical = c.canonical /\ d.screen = c.screen /\ d.revision = c.revision
    BY <1>1 DEF ClientState
  <2>3. x \in Envelope /\ x.expected = c.revision
    BY <1>1 DEF Envelope, ClientState
  <2> HIDE DEF x
  <2>4. Fitting(server, v, a)
    <3>1. uplink[a] \in Seq(Upward) /\ ReplaySound(server, uplink[a], c, a)
      BY <1>1
    <3> HIDE DEF c
    <3> QED BY <2>1, <2>3, <3>1, FittingSent
  <2> HIDE DEF v, d, c
  <2>5. ReplaySound(server, v, d, a)
    BY <1>1, <2>2, <2>4, ReplayAsked DEF c
  <2> QED BY <1>1, <1>2, <2>1, <2>5
<1>5. ASSUME NEW a \in Seats, Receive(a) PROVE Replays'
  <2> DEFINE c == clients[a]
             q == server.sent[a]
             m == Head(q)
             d == clients'[a]
  <2>1. q # <<>> /\ q \in Seq(Packet) /\ m \in Packet /\ c \in ClientState
    BY <1>1, <1>5 DEF Receive
  <2>2. /\ Alike(server', server) /\ server'.run = server.run
        /\ server'.sent[a] = Tail(q)
        /\ \A o \in Seats \ {a} : server'.sent[o] = server.sent[o]
        /\ uplink' = uplink
    <3>1. server' = [server EXCEPT !.sent[a] = Tail(@)] /\ uplink' = uplink
      BY <1>5 DEF Receive
    <3>2. ServerSound(server) /\ server.sent[a] # <<>>
      BY <1>1, <2>1
    <3> QED BY <3>1, <3>2, Popped
  <2>3. server'.phase = server.phase
    BY <2>2 DEF Alike
  <2>4. Halved(server')
    BY <1>1, <2>2, <2>3, HalvedKept
  <2>5. ASSUME NEW o \in Seats \ {a} PROVE ReplaySound(server', uplink'[o], clients'[o], o)
    <3>1. clients'[o] = clients[o]
      BY <1>1, <1>5 DEF Receive
    <3>2. Quiet(server', server, o)
      BY <2>2, <2>3 DEF Quiet
    <3> QED BY <1>1, <2>2, <3>1, <3>2, ReplayQuiet
  <2>6. d = IF c.screen = "left" THEN c ELSE afterPacket(c, a, m)
    BY <1>1, <1>5 DEF Receive
  <2>7. ReplaySound(server, uplink[a], c, a) /\ SeatSound(server, uplink[a], c, a)
    BY <1>1
  <2>8. ReplaySound(server', uplink[a], d, a)
    <3>1. CASE m.kind = "game-start" /\ c.screen # "left"
      <4>1. d = createOnlineAuthority(m)
        BY <2>6, <3>1 DEF afterPacket
      <4> HIDE DEF d, c
      <4> QED BY <2>1, <2>2, <2>3, <2>7, <3>1, <4>1, ReplayStarted DEF SeatSound
    <3>2. CASE ~(m.kind = "game-start" /\ c.screen # "left")
      <4> DEFINE U == updates(server.run.id, q)
      <4>1. 1 \in U <=> m.kind = "accepted" /\ m.run = server.run.id
        BY <2>1, UpdatesShortened
      <4>2. c.canonical.extraTurnInProgress \subseteq {a}
        BY <2>7 DEF ReplaySound
      <4>3. c.screen = "match" => c.run = server.run.id
        BY <2>7 DEF SeatSound, RunsFit
      <4>4. /\ syncLost(c).canonical = c.canonical /\ syncLost(c).screen # "match"
            /\ disconnected(c).canonical = c.canonical /\ disconnected(c).screen # "match"
        BY <2>1 DEF syncLost, disconnected, ClientState, isTerminal
      <4>5. CASE \/ d = syncLost(c)
                \/ d = disconnected(c)
                \/ (d = c /\ c.screen # "match")
        <5>1. d.screen # "match" /\ d.canonical = c.canonical
          BY <4>4, <4>5
        <5> HIDE DEF d, c
        <5> QED BY <2>1, <2>2, <2>3, <2>7, <4>2, <5>1, ReplayArrived
      <4>6. CASE /\ 1 \notin U /\ d.canonical = c.canonical /\ d.revision = c.revision
                 /\ d.screen = c.screen
        <5> HIDE DEF d, c
        <5> QED BY <2>1, <2>2, <2>3, <2>7, <4>2, <4>6, ReplayArrived
      <4>7. CASE /\ m.kind = "accepted" /\ d.screen = c.screen
                 /\ d.revision = m.to /\ d.canonical = Last(m.commands).after
                 /\ c.screen = "match" => m.run = c.run
        <5>1. d.canonical.extraTurnInProgress \subseteq {a}
          <6>1. 1 \in DOMAIN q /\ q[1] = m
            BY <2>1, Shortened
          <6> QED BY <2>7, <4>7, <6>1 DEF ReplaySound, HalvesKept
        <5>2. d.screen = "match" => 1 \in U
          BY <4>1, <4>3, <4>7
        <5> HIDE DEF d, c
        <5> QED BY <2>1, <2>2, <2>3, <2>7, <4>7, <5>1, <5>2, ReplayArrived
      <4>8. CASE m.kind = "accepted" /\ d = applyOnlineUpdate(c, a, m) /\ d # syncLost(c)
        <5> DEFINE st == Last(m.commands).after
                   pd == IF m.id = NoId THEN c.pending ELSE <<>>
        <5>1. /\ d = [c EXCEPT !.canonical = st, !.revision = m.to, !.pending = pd]
              /\ m.run = c.run
          BY <4>8 DEF applyOnlineUpdate
        <5> HIDE DEF st, pd, d
        <5>2. d.screen = c.screen /\ d.revision = m.to /\ d.canonical = st
          BY <2>1, <5>1 DEF ClientState
        <5> QED BY <4>7, <4>8, <5>1, <5>2 DEF st, d
      <4>9. CASE m.kind = "rejected" /\ d = applyOnlineUpdate(c, a, m) /\ d # syncLost(c)
        <5>1. d = [c EXCEPT !.pending = <<>>]
          BY <4>9 DEF applyOnlineUpdate
        <5>2. d.screen = c.screen /\ d.revision = c.revision /\ d.canonical = c.canonical
          BY <2>1, <5>1 DEF ClientState
        <5> QED BY <4>1, <4>6, <4>9, <5>2
      <4>10. CASE m.kind \in {"closed", "opponent-disconnected"}
        <5>1. d = c \/ d = disconnected(c)
          BY <2>6, <4>10 DEF afterPacket
        <5>2. CASE d = c
          BY <4>1, <4>6, <4>10, <5>2
        <5> QED BY <4>5, <5>1, <5>2
      <4>11. \/ c.screen = "left" /\ d = c
             \/ m.kind \in {"closed", "opponent-disconnected"}
             \/ /\ m.kind \in {"accepted", "rejected"}
                /\ \/ (isTerminal(c.screen) /\ d = c)
                   \/ d = syncLost(c)
                   \/ d = applyOnlineUpdate(c, a, m)
        BY <2>1, <2>6, <3>2 DEF afterPacket, Packet, Started, Accepted, Rejected, Notice
      <4>12. isTerminal(c.screen) \/ c.screen = "left" => c.screen # "match"
        BY DEF isTerminal
      <4> QED BY <4>5, <4>8, <4>9, <4>10, <4>11, <4>12
    <3> QED BY <3>1, <3>2
  <2>9. ASSUME NEW s \in Seats PROVE ReplaySound(server', uplink'[s], clients'[s], s)
    BY <2>2, <2>5, <2>8
  <2> QED BY <2>4, <2>9 DEF Replays
<1>6. ASSUME NEW a \in Seats, Leave(a) PROVE Replays'
  <2> DEFINE c == clients[a]
             d == [c EXCEPT !.screen = "left", !.pending = <<>>]
  <2>1. PICK n \in 0 .. Len(uplink[a]) :
            uplink' = [uplink EXCEPT ![a] = Append(SubSeq(uplink[a], 1, n), [kind |-> "close"])]
    BY <1>6 DEF Leave
  <2> DEFINE v == Append(SubSeq(uplink[a], 1, n), [kind |-> "close"])
  <2>2. server' = server /\ clients' = [clients EXCEPT ![a] = d]
    BY <1>1, <1>6 DEF Leave
  <2>3. d.canonical = c.canonical /\ d.screen = "left"
    BY <1>1 DEF ClientState
  <2>4. Fitting(server, v, a)
    BY <1>1, FittingLeft DEF ReplaySound
  <2> HIDE DEF v, d, c
  <2>5. ReplaySound(server, v, d, a)
    BY <1>1, <2>3, <2>4, ReplayAsked DEF c
  <2>6. uplink'[a] = v /\ clients'[a] = d
    BY <1>1, <2>1, <2>2 DEF v
  <2> QED BY <1>1, <1>2, <2>1, <2>2, <2>5, <2>6
<1> QED BY <1>3, <1>4, <1>5, <1>6 DEF ClientNext

\* The chains start empty.
LEMMA ReplaysInit == Init => Replays
<1> SUFFICES ASSUME Init PROVE Replays
  OBVIOUS
<1> DEFINE turns == newTurns(0)
           run == newRun(NoRun, 0)
<1>1. turns.extraTurnInProgress = {}
  BY NewTurns DEF Seats
<1>2. /\ run.bufferedOpponentUpdate = <<>> /\ run.revision = 0 /\ run.state = turns
      /\ [run EXCEPT !.phase = "ready"].bufferedOpponentUpdate = run.bufferedOpponentUpdate
      /\ [run EXCEPT !.phase = "ready"].revision = run.revision
      /\ [run EXCEPT !.phase = "ready"].state = run.state
  BY DEF newRun
<1> HIDE DEF run, turns
<1>3. /\ server.run = [run EXCEPT !.phase = "ready"] /\ server.phase = "ready"
      /\ \A s \in Seats : server.sent[s] = <<>> /\ uplink[s] = <<>> /\ clients[s] = newClient
  BY DEF Init, createMatchRoom, run
<1>4. newClient.canonical = turns /\ newClient.screen = "ready"
  BY DEF newClient, turns
<1>5. Halved(server)
  BY <1>2, <1>3 DEF Halved, Range
<1>6. requests(<<>>) = {} /\ starts(<<>>) = {} /\ DOMAIN <<>> = {}
  BY DEF requests, starts
<1>7. ASSUME NEW s \in Seats PROVE ReplaySound(server, uplink[s], clients[s], s)
  BY <1>1, <1>3, <1>4, <1>6 DEF ReplaySound, Fitting, HalvesKept, Replayed
<1> QED BY <1>5, <1>7 DEF Replays

\* Every step leaves the chains whole and the half turn withheld.
LEMMA ReplaysNext == Sound /\ Settled /\ Replays /\ [Next]_vars => Replays'
<1> SUFFICES ASSUME Sound, Settled, Replays, [Next]_vars PROVE Replays'
  OBVIOUS
<1>1. CASE ClientNext
  BY <1>1, ClientStepReplays
<1>2. CASE ServerNext /\ UNCHANGED clients
  BY <1>2, ServerStepReplays
<1>3. CASE UNCHANGED vars
  BY <1>3 DEF vars, Replays
<1> QED BY <1>1, <1>2, <1>3 DEF Next

\* What a client shows, and the updates on their way to it, replay the run.
THEOREM ReplaysInvariant == Spec => [](Sound /\ Settled /\ Replays)
BY SoundInit, SoundNext, SettledInit, SettledNext, ReplaysInit, ReplaysNext, PTL DEF Spec

\* The buffer of commitRunUpdate holds what is half played, and no client ever shows its
\* opponent's half turn (matchCoordinator.ts, onlineAuthority.ts).
THEOREM HalfTurnsStayHidden == Spec => []HalfTurnsHidden
<1>1. Sound /\ Settled /\ Replays => HalfTurnsHidden
  BY DEF Replays, ReplaySound, Halved, HalfTurnsHidden, HalfWithheld, OpponentHalfHidden
<1> QED BY <1>1, ReplaysInvariant, PTL

\* The updates of the run on their way to a client go on from its revision, without gap or
\* overlap, to what it has been told, and a client that is up to date has the run's state.
THEOREM UpdatesAlwaysReplay == Spec => []UpdatesReplay
<1>1. Sound /\ Settled /\ Replays => UpdatesReplay
  <2> SUFFICES ASSUME Sound, Settled, Replays PROVE UpdatesReplay
    OBVIOUS
  <2>1. ASSUME NEW s \in Seats, playing(s)
        PROVE  Chained(server, s, clients[s].revision, clients[s].canonical)
    BY <2>1 DEF Replays, ReplaySound, Replayed, playing
  <2>2. CanonicalIsReplay
    BY <2>1 DEF CanonicalIsReplay, Chained
  <2>3. StreamContiguous
    <3> SUFFICES ASSUME NEW s \in Seats, playing(s), server.phase # "abandoned"
                 PROVE  LET q == server.sent[s]
                            U == {i \in DOMAIN q : isUpdate(q[i])}
                        IN  /\ U = {} => clients[s].revision = toldTo(s)
                            /\ \A i \in U :
                                /\ (\A k \in U : i <= k) => q[i].from = clients[s].revision
                                /\ (\A k \in U : k <= i) => q[i].to = toldTo(s)
                            /\ \A i, j \in U :
                                i < j /\ (\A k \in U : k <= i \/ j <= k) => q[j].from = q[i].to
      BY DEF StreamContiguous
    <3> DEFINE q == server.sent[s]
               U == updates(server.run.id, q)
    <3>1. U = {i \in DOMAIN q : isUpdate(q[i])}
      BY DEF updates, isUpdate
    <3>2. told(server, s) = toldTo(s)
      BY DEF told, toldTo
    <3>3. /\ U = {} => clients[s].revision = told(server, s)
          /\ \A i \in U :
                /\ (\A k \in U : i <= k) => q[i].from = clients[s].revision
                /\ (\A k \in U : k <= i) => q[i].to = told(server, s)
          /\ \A i, j \in U :
                i < j /\ (\A k \in U : k <= i \/ j <= k) => q[j].from = q[i].to
      BY <2>1 DEF Chained
    <3> HIDE DEF U
    <3> QED BY <3>1, <3>2, <3>3
  <2> QED BY <2>2, <2>3 DEF UpdatesReplay
<1> QED BY <1>1, ReplaysInvariant, PTL

\* A set of naturals that is not empty has a first element.
LEMMA FirstOf ==
    ASSUME NEW U \in SUBSET Nat, U # {}
    PROVE  \E i \in U : \A k \in U : i <= k
<1> DEFINE R == OpToRel(<, Nat)
<1>1. IsWellFoundedOn(R, Nat)
  BY NatLessThanWellFounded
<1>2. \A x, y \in Nat : <<y, x>> \in R <=> y < x
  BY DEF OpToRel
<1> HIDE DEF R
<1>3. PICK i \in U : \A y \in U : ~(<<y, i>> \in R)
  BY <1>1, WFMin
<1>4. ASSUME NEW k \in U PROVE i <= k
  <2>1. ~(k < i) /\ i \in Nat /\ k \in Nat
    BY <1>2, <1>3
  <2> QED BY <2>1
<1> QED BY <1>4

-----------------------------------------------------------------------------

(* In what order updates and answers come.                                   *)

reports(q)  == {i \in DOMAIN q : q[i].kind = "accepted"}
refusals(q) == {i \in DOMAIN q : q[i].kind = "rejected"}
losses(q)   == {i \in DOMAIN q : q[i].kind = "opponent-disconnected"}

acts(st, s) == st.phase = "active" /\ st.activeSeat = s

\* An update of one command, or of several that all but the last leave the seat its turn.
Coherent(m) ==
    /\ m.to = m.from + Len(m.commands)
    /\ \A k \in DOMAIN m.commands :
        k + 1 \in DOMAIN m.commands => m.commands[k].after.activeSeat = m.seat
    /\ m.timed <=> Last(m.commands).after.phase = "active"

\* What is withheld from a seat leaves its opponent the turn.
Holding(sv) ==
    \A b \in Range(sv.run.bufferedOpponentUpdate) :
        \A k \in DOMAIN b.commands : b.commands[k].after.activeSeat = b.seat

\* An update, on its way or withheld, is of the seat that is to act where it is replayed: at
\* base, in the state canonical, or after the update before.
Linked(sv, s, base, canonical) ==
    LET q == sv.sent[s]
        U == updates(sv.run.id, q)
    IN  /\ \A i \in U : q[i].from = base => acts(canonical, q[i].seat)
        /\ \A i, j \in U : q[j].from = q[i].to => acts(Last(q[i].commands).after, q[j].seat)
        /\ \A b \in Range(sv.run.bufferedOpponentUpdate) : b.seat # s =>
            /\ b.from = base => acts(canonical, b.seat)
            /\ \A i \in U : b.from = q[i].to => acts(Last(q[i].commands).after, b.seat)

Coheres(sv, c, s) ==
    LET q == sv.sent[s]
    IN  /\ \A i \in reports(q) : Coherent(q[i])
        /\ c.screen = "match" => Linked(sv, s, c.revision, c.canonical)
        /\ \A g \in starts(q) : Linked(sv, s, 0, q[g].state)

\* The updates on their way to a client are of the run it plays, or of the one whose start is
\* on its way before them; a client that waits for a rematch has seen all of the last run.
Current(sv, c, s) ==
    LET q == sv.sent[s]
    IN  /\ ~isTerminal(c.screen) =>
            /\ c.run < sv.run.id => starts(q) # {}
            /\ \A i \in reports(q) :
                q[i].run = sv.run.id /\ (c.screen # "match" => c.run < sv.run.id)
        /\ \A g \in starts(q) : \A i \in reports(q) : g < i => q[i].run = sv.run.id
        /\ c.screen = "match" => c.run # NoRun
        /\ c.screen = "waiting" /\ c.run = sv.run.id /\ c.run # NoRun =>
            /\ sv.phase # "active"
            /\ sv.phase # "abandoned" => c.revision = sv.run.revision

\* The answer on its way to a client, or the command on its way to the server, is the one
\* that is pending.
Expected(sv, u, c, s) ==
    LET q == sv.sent[s]
    IN  /\ requests(u) # {} => c.run # NoRun
        /\ refusals(q) \subseteq replies(q)
        /\ ~isTerminal(c.screen) /\ c.pending # <<>> =>
            /\ c.run # NoRun
            /\ \A i \in requests(u) : u[i].id = c.pending[1].id /\ u[i].type = c.pending[1].type
            /\ \A i \in replies(q) :
                /\ q[i].id = c.pending[1].id /\ q[i].run = c.run
                /\ q[i].kind = "accepted" =>
                    q[i].seat = s /\ Last(q[i].commands).type = c.pending[1].type

\* A client in a match is told that its opponent is gone before it is refused for that.
Forewarned(sv, u, c, s) ==
    LET q == sv.sent[s]
    IN  /\ \A i \in DOMAIN u : u[i].kind = "close" => c.screen = "left"
        /\ losses(q) # {} => sv.phase = "abandoned"
        /\ sv.phase = "abandoned" =>
            \/ c.screen = "left" \/ losses(q) # {}
            \/ starts(q) = {} /\ (isTerminal(c.screen) \/ c.run = NoRun)
        /\ \A g \in starts(q), j \in losses(q) : g < j
        /\ \A i \in refusals(q) :
            q[i].reason = "no-active-match" =>
                /\ sv.phase = "abandoned"
                /\ \/ c.screen = "left" \/ \E j \in losses(q) : j < i
                   \/ starts(q) = {} /\ isTerminal(c.screen)

\* The refusal in place i names the revision its client will be at when it arrives,
Exact(sv, c, s, i) ==
    LET q == sv.sent[s]
        U == updates(sv.run.id, q)
    IN  /\ (\A k \in U : i < k) => q[i].revision = c.revision
        /\ \A k \in U : k < i /\ (\A l \in U : l <= k \/ i < l) => q[k].to = q[i].revision

\* or that one or a later one, within an update of the opponent.
Near(sv, c, s, i) ==
    LET q == sv.sent[s]
        U == updates(sv.run.id, q)
    IN  /\ c.revision <= q[i].revision /\ q[i].revision <= sv.run.revision
        /\ \A k \in U : k < i => q[k].to <= q[i].revision
        /\ \A k \in U : i < k =>
            \/ q[i].revision <= q[k].from
            \/ q[k].seat = otherSeat(s) /\ q[i].revision <= q[k].to

\* A refusal names the revision its client will be at, or is a stale command's.
Refusable(sv, c, s) ==
    LET q == sv.sent[s]
    IN  \A i \in refusals(q) : q[i].reason # "no-active-match" =>
            /\ c.screen = "match" =>
                IF q[i].reason = "stale-revision"
                THEN sv.phase # "abandoned" => Near(sv, c, s, i)
                ELSE Exact(sv, c, s, i)
            /\ c.screen = "waiting" =>
                \/ q[i].revision = c.revision
                \/ q[i].reason = "stale-revision" /\ sv.phase = "abandoned"

Tracked(sv, u, c, s) ==
    /\ Coheres(sv, c, s) /\ Current(sv, c, s) /\ Expected(sv, u, c, s)
    /\ Forewarned(sv, u, c, s) /\ Refusable(sv, c, s)

Ordered ==
    Holding(server) /\ \A s \in Seats : Tracked(server, uplink[s], clients[s], s)

-----------------------------------------------------------------------------

(* Queues with one packet more or less.                                      *)

\* The kinds of packets in a queue with one more.
LEMMA Grown ==
    ASSUME NEW q \in Seq(Packet), NEW p \in Packet, NEW run
    PROVE  LET n == Len(q) + 1
               a == Append(q, p)
           IN  /\ starts(a) = starts(q) \cup {i \in {n} : p.kind = "game-start"}
               /\ reports(a) = reports(q) \cup {i \in {n} : p.kind = "accepted"}
               /\ refusals(a) = refusals(q) \cup {i \in {n} : p.kind = "rejected"}
               /\ losses(a) = losses(q) \cup {i \in {n} : p.kind = "opponent-disconnected"}
               /\ replies(a) = replies(q) \cup
                    {i \in {n} : p.kind \in {"accepted", "rejected"} /\ p.id # NoId}
               /\ updates(run, a) = updates(run, q) \cup
                    {i \in {n} : p.kind = "accepted" /\ p.run = run}
               /\ a[n] = p /\ n \in Nat /\ n \notin DOMAIN q
               /\ \A i \in DOMAIN q : a[i] = q[i] /\ i < n /\ i \in Nat
<1> DEFINE n == Len(q) + 1
           a == Append(q, p)
<1>1. /\ n \in Nat /\ DOMAIN a = DOMAIN q \cup {n} /\ n \notin DOMAIN q /\ a[n] = p
      /\ \A i \in DOMAIN q : a[i] = q[i] /\ i < n /\ i \in Nat
  BY Appended
<1> HIDE DEF n, a
<1> QED BY <1>1 DEF starts, reports, refusals, losses, replies, updates, n, a

\* The places of a queue.
LEMMA Placed ==
    ASSUME NEW q, NEW run
    PROVE  /\ starts(q) \subseteq DOMAIN q /\ reports(q) \subseteq DOMAIN q
           /\ refusals(q) \subseteq DOMAIN q /\ losses(q) \subseteq DOMAIN q
           /\ replies(q) \subseteq DOMAIN q /\ updates(run, q) \subseteq reports(q)
           /\ refusals(q) \cap reports(q) = {} /\ starts(q) \cap reports(q) = {}
BY DEF starts, reports, refusals, losses, replies, updates

\* The kinds of packets in a queue without its head.
LEMMA Dropped ==
    ASSUME NEW q \in Seq(Packet), q # <<>>, NEW run
    PROVE  LET t == Tail(q)
               m == Head(q)
           IN  /\ starts(t) = {i \in Nat \ {0} : i + 1 \in starts(q)}
               /\ reports(t) = {i \in Nat \ {0} : i + 1 \in reports(q)}
               /\ refusals(t) = {i \in Nat \ {0} : i + 1 \in refusals(q)}
               /\ losses(t) = {i \in Nat \ {0} : i + 1 \in losses(q)}
               /\ replies(t) = {i \in Nat \ {0} : i + 1 \in replies(q)}
               /\ updates(run, t) = {i \in Nat \ {0} : i + 1 \in updates(run, q)}
               /\ \A i \in DOMAIN t : t[i] = q[i + 1] /\ i \in Nat \ {0}
               /\ DOMAIN q \subseteq Nat \ {0} /\ 1 \in DOMAIN q /\ q[1] = m /\ m \in Packet
               /\ 1 \in starts(q) <=> m.kind = "game-start"
               /\ 1 \in reports(q) <=> m.kind = "accepted"
               /\ 1 \in refusals(q) <=> m.kind = "rejected"
               /\ 1 \in losses(q) <=> m.kind = "opponent-disconnected"
               /\ 1 \in replies(q) <=> m.kind \in {"accepted", "rejected"} /\ m.id # NoId
               /\ 1 \in updates(run, q) <=> m.kind = "accepted" /\ m.run = run
<1> DEFINE t == Tail(q)
           m == Head(q)
<1>1. /\ t \in Seq(Packet) /\ 1 \in DOMAIN q /\ q[1] = m /\ DOMAIN q \subseteq Nat \ {0}
      /\ DOMAIN t = {i \in Nat \ {0} : i + 1 \in DOMAIN q}
      /\ \A i \in DOMAIN t : t[i] = q[i + 1]
  BY Shortened
<1>2. m \in Packet
  OBVIOUS
<1> HIDE DEF t, m
<1> QED BY <1>1, <1>2 DEF starts, reports, refusals, losses, replies, updates, t, m

-----------------------------------------------------------------------------

(* What a step of the run adds to the updates.                               *)

\* The seat s is told of a's command, in an update that answers it if it is its own.
Reported(r, sv, s, a, id, command) ==
    \E p \in Packet :
        /\ r.sent[s] = Append(sv.sent[s], p)
        /\ p.kind = "accepted" /\ p.run = sv.run.id /\ p.seat = a /\ Coherent(p)
        /\ p.from = told(sv, s) /\ p.to = r.run.revision
        /\ \/ p.id = NoId
           \/ s = a /\ p.id = id /\ Last(p.commands) = command
        /\ \A b \in Range(r.run.bufferedOpponentUpdate) : b.seat = s

\* It is withheld from s.
Unreported(r, sv, s, a) ==
    /\ r.sent[s] = sv.sent[s] /\ s # a
    /\ \E x \in Withheld : /\ r.run.bufferedOpponentUpdate = <<x>>
                           /\ x.seat = a /\ x.from = told(sv, s)

Progress(r, sv, s, a, id, command) ==
    /\ sv.phase = "active" /\ r.phase # "abandoned"
    /\ r.run.id = sv.run.id /\ r.run.revision = sv.run.revision + 1
    /\ acts(sv.run.state, a)
    /\ \A b \in Range(sv.run.bufferedOpponentUpdate) : b.seat = a
    /\ Reported(r, sv, s, a, id, command) \/ Unreported(r, sv, s, a)

\* A command that is played is reported to both seats, or withheld from the opponent.
LEMMA PlayedProgress ==
    ASSUME NEW sv, NEW r, NEW a \in Seats, NEW id, NEW command, ServerSound(sv), ServerSound(r),
           Halved(sv), Holding(sv), command \in Command, Played(r, sv, a, id, command)
    PROVE  /\ Holding(r)
           /\ \A s \in Seats : Progress(r, sv, s, a, id, command)
<1> DEFINE o == otherSeat(a)
           rev == sv.run.revision
           from == heldFrom(sv)
           commands == Append(held(sv), command)
           timed == command.after.phase = "active"
           p == update(sv, id, rev, a, <<command>>, timed)
           w == update(sv, NoId, from, heldSeat(sv, a), commands, timed)
           x == [seat |-> heldSeat(sv, a), commands |-> commands, from |-> from, to |-> rev + 1]
<1>1. /\ o \in Seats /\ o # a /\ rev \in Nat /\ sv.sent[a] \in Seq(Packet)
      /\ sv.sent[o] \in Seq(Packet) /\ \A s \in Seats : s = a \/ s = o
  BY SeatTypes DEF otherSeat, Seats
<1>2. /\ heldSeat(sv, a) = a /\ told(sv, a) = rev /\ told(sv, o) = from
      /\ held(sv) \in Seq(Command) /\ from + Len(held(sv)) = rev /\ from \in Nat
      /\ \A b \in Range(sv.run.bufferedOpponentUpdate) : b.seat = a
      /\ \A k \in DOMAIN held(sv) : held(sv)[k].after.activeSeat = a
  <2>1. CASE ~buffering(sv)
    <3>1. sv.run.bufferedOpponentUpdate = <<>>
      BY <2>1 DEF buffering
    <3> QED BY <1>1, <2>1, <3>1 DEF heldSeat, told, heldFrom, held, Range
  <2>2. CASE buffering(sv)
    <3>1. sv.run.bufferedOpponentUpdate \in {<<>>} \cup {<<b>> : b \in Withheld}
      BY DEF ServerSound, RunSound, ServerState, RunState
    <3>2. PICK b \in Withheld : sv.run.bufferedOpponentUpdate = <<b>>
      BY <2>2, <3>1 DEF buffering
    <3>3. Range(sv.run.bufferedOpponentUpdate) = {b}
      BY <3>2 DEF Range
    <3>4. /\ sv.run.state.extraTurnInProgress = {b.seat} /\ b.to = rev
          /\ b.to = b.from + Len(b.commands)
      BY <3>3 DEF Halved
    <3>5. sv.run.state.extraTurnInProgress \subseteq {a}
      BY DEF ServerSound, RunSound, TurnSound, Played
    <3>6. b.seat = a /\ b.commands \in Seq(Command) /\ b.from \in Nat
      BY <3>4, <3>5 DEF Withheld, Buffer
    <3>7. \A k \in DOMAIN b.commands : b.commands[k].after.activeSeat = a
      BY <3>3, <3>6 DEF Holding
    <3> QED BY <1>1, <2>2, <3>2, <3>3, <3>4, <3>6, <3>7 DEF heldSeat, told, heldFrom, held
  <2> QED BY <2>1, <2>2
<1>3. /\ r.run.id = sv.run.id /\ r.run.revision = rev + 1 /\ r.run.state = command.after
      /\ r.sent[a] = Append(sv.sent[a], p)
  BY DEF Played, Spread, SameRun
<1>4. /\ command.after.extraTurnInProgress # {} =>
            r.sent[o] = sv.sent[o] /\ r.run.bufferedOpponentUpdate = <<x>>
      /\ command.after.extraTurnInProgress = {} =>
            r.sent[o] = Append(sv.sent[o], w) /\ r.run.bufferedOpponentUpdate = <<>>
  BY DEF Played, Spread
<1>5. /\ p.kind = "accepted" /\ p.run = sv.run.id /\ p.from = rev /\ p.to = rev + 1
      /\ p.commands = <<command>> /\ p.seat = a /\ p.id = id /\ p.timed = timed
      /\ w.kind = "accepted" /\ w.run = sv.run.id /\ w.from = from /\ w.to = rev + 1
      /\ w.commands = commands /\ w.seat = a /\ w.id = NoId /\ w.timed = timed
      /\ x.seat = a /\ x.commands = commands /\ x.from = from
  BY <1>2 DEF update
<1>6. /\ Last(<<command>>) = command /\ Last(commands) = command
      /\ commands \in Seq(Command) /\ Len(commands) = Len(held(sv)) + 1
      /\ DOMAIN commands = DOMAIN held(sv) \cup {Len(commands)}
      /\ \A k \in DOMAIN held(sv) : commands[k] = held(sv)[k]
      /\ commands[Len(commands)] = command
  <2> DEFINE h == held(sv)
  <2>1. h \in Seq(Command)
    BY <1>2
  <2> HIDE DEF h
  <2> QED BY <2>1 DEF Last, h
<1>7. /\ sv.phase = "active" /\ r.phase # "abandoned" /\ acts(sv.run.state, a)
      /\ command.after.extraTurnInProgress # {} => command.after.activeSeat = a
  <2>1. command.after.phase \in {"active", "finished"} /\ TurnSound(command.after)
    BY DEF Played, TurnSound, TurnState
  <2> QED BY <2>1 DEF Played, TurnSound, ServerSound, RunSound, acts
<1>8. Coherent(p)
  <2> DEFINE one == <<command>>
  <2>1. Len(one) = 1 /\ \A k \in DOMAIN one : k + 1 \notin DOMAIN one
    OBVIOUS
  <2>2. p.commands = one /\ Last(one) = command
    BY <1>5, <1>6
  <2> HIDE DEF p, one, rev
  <2> QED BY <1>5, <2>1, <2>2 DEF Coherent, timed
<1>9. Coherent(w)
  <2>1. Len(held(sv)) \in Nat /\ DOMAIN held(sv) = 1 .. Len(held(sv))
    BY <1>2
  <2>2. from + Len(commands) = rev + 1
    BY <1>1, <1>2, <1>6, <2>1
  <2>3. ASSUME NEW k \in DOMAIN commands, k + 1 \in DOMAIN commands
        PROVE  commands[k].after.activeSeat = a
    <3>1. k \in DOMAIN held(sv)
      BY <1>6, <2>1, <2>3
    <3> QED BY <1>2, <1>6, <3>1
  <2> HIDE DEF w, commands, from, rev
  <2> QED BY <1>5, <1>6, <2>2, <2>3 DEF Coherent, timed
<1> HIDE DEF p, w, x, commands, from, timed, rev, o
<1>10. p \in Packet
  BY <1>1, <1>3, LastSent
<1>11. CASE command.after.extraTurnInProgress # {}
  <2>1. r.sent[o] = sv.sent[o] /\ r.run.bufferedOpponentUpdate = <<x>>
    BY <1>4, <1>11
  <2>2. Range(<<x>>) = {x}
    BY DEF Range
  <2>3. x \in Withheld
    <3>1. r.run.bufferedOpponentUpdate \in {<<>>} \cup {<<b>> : b \in Withheld}
      BY DEF ServerSound, RunSound, ServerState, RunState
    <3> QED BY <2>1, <3>1
  <2>4. Reported(r, sv, a, a, id, command)
    BY <1>2, <1>3, <1>5, <1>6, <1>8, <1>10, <2>1, <2>2 DEF Reported
  <2>5. Unreported(r, sv, o, a)
    BY <1>1, <1>2, <1>5, <2>1, <2>3 DEF Unreported
  <2>6. Holding(r)
    <3>1. \A k \in DOMAIN commands : commands[k].after.activeSeat = a
      BY <1>2, <1>6, <1>7, <1>11
    <3> QED BY <1>5, <2>1, <2>2, <3>1 DEF Holding
  <2> QED BY <1>1, <1>2, <1>3, <1>7, <2>4, <2>5, <2>6 DEF Progress, rev
<1>12. CASE command.after.extraTurnInProgress = {}
  <2>1. r.sent[o] = Append(sv.sent[o], w) /\ r.run.bufferedOpponentUpdate = <<>>
    BY <1>4, <1>12
  <2>2. Range(<<>>) = {}
    BY DEF Range
  <2>3. w \in Packet
    BY <1>1, <2>1, LastSent
  <2>4. Reported(r, sv, a, a, id, command)
    BY <1>2, <1>3, <1>5, <1>6, <1>8, <1>10, <2>1, <2>2 DEF Reported
  <2>5. Reported(r, sv, o, a, id, command)
    <3>1. /\ w.kind = "accepted" /\ w.run = sv.run.id /\ w.seat = a /\ w.id = NoId
          /\ w.from = told(sv, o) /\ w.to = r.run.revision
      BY <1>2, <1>3, <1>5
    <3>2. \A b \in Range(r.run.bufferedOpponentUpdate) : b.seat = o
      BY <2>1, <2>2
    <3> QED BY <1>9, <2>1, <2>3, <3>1, <3>2 DEF Reported
  <2>6. Holding(r)
    BY <2>1, <2>2 DEF Holding
  <2> QED BY <1>1, <1>2, <1>3, <1>7, <2>4, <2>5, <2>6 DEF Progress, rev
<1> QED BY <1>11, <1>12

\* What a seat has been told ends at the run's state, or where the buffer starts.
LEMMA ToldTo ==
    ASSUME NEW sv, ServerSound(sv), NEW s \in Seats
    PROVE  \/ told(sv, s) = sv.run.revision
           \/ \E b \in Range(sv.run.bufferedOpponentUpdate) : b.seat # s /\ b.from = told(sv, s)
<1>1. sv.run.bufferedOpponentUpdate \in {<<>>} \cup {<<b>> : b \in Withheld}
  BY DEF ServerSound, RunSound, ServerState, RunState
<1>2. CASE sv.run.bufferedOpponentUpdate = <<>>
  BY <1>2 DEF told
<1>3. CASE \E b \in Withheld : sv.run.bufferedOpponentUpdate = <<b>>
  <2>1. PICK b \in Withheld : sv.run.bufferedOpponentUpdate = <<b>>
    BY <1>3
  <2>2. Range(<<b>>) = {b} /\ Head(<<b>>) = b
    BY DEF Range
  <2> QED BY <2>1, <2>2 DEF told
<1> QED BY <1>1, <1>2, <1>3

\* Where an update is replayed that tells a seat, or keeps from it, what has just been done.
LEMMA LinkPoint ==
    ASSUME NEW sv, NEW s \in Seats, NEW a \in Seats, NEW base, NEW canonical,
           ServerSound(sv), Chained(sv, s, base, canonical), Linked(sv, s, base, canonical),
           acts(sv.run.state, a), \A b \in Range(sv.run.bufferedOpponentUpdate) : b.seat = a
    PROVE  LET q == sv.sent[s]
               U == updates(sv.run.id, q)
           IN  /\ told(sv, s) = base => acts(canonical, a)
               /\ \A i \in U : told(sv, s) = q[i].to => acts(Last(q[i].commands).after, a)
<1> DEFINE q == sv.sent[s]
           U == updates(sv.run.id, q)
<1> HIDE DEF q, U
<1>1. CASE told(sv, s) = sv.run.revision
  BY <1>1 DEF Chained, q, U
<1>2. CASE \E b \in Range(sv.run.bufferedOpponentUpdate) : b.seat # s /\ b.from = told(sv, s)
  BY <1>2 DEF Linked, q, U
<1> QED BY <1>1, <1>2, ToldTo DEF q, U

\* A step of the run is linked to what a seat has been told.
LEMMA LinkProgress ==
    ASSUME NEW sv, NEW r, NEW s \in Seats, NEW a \in Seats, NEW id, NEW command,
           NEW base \in Nat, NEW canonical, ServerSound(sv),
           Chained(sv, s, base, canonical), Linked(sv, s, base, canonical),
           \A i \in reports(sv.sent[s]) : Coherent(sv.sent[s][i]),
           Progress(r, sv, s, a, id, command)
    PROVE  Linked(r, s, base, canonical)
<1> DEFINE q == sv.sent[s]
           U == updates(sv.run.id, q)
           rev == sv.run.revision
<1>1. /\ q \in Seq(Packet) /\ rev \in Nat /\ r.run.id = sv.run.id
      /\ acts(sv.run.state, a)
      /\ \A b \in Range(sv.run.bufferedOpponentUpdate) : b.seat = a
  BY SeatTypes DEF Progress
<1>2. /\ told(sv, s) = base => acts(canonical, a)
      /\ \A i \in U : told(sv, s) = q[i].to => acts(Last(q[i].commands).after, a)
  BY <1>1, LinkPoint
<1>3. ASSUME NEW i \in U PROVE q[i].from \in Nat /\ q[i].from <= rev /\ i \in DOMAIN q
  <2>1. q[i] \in Accepted /\ q[i].from \in Nat /\ q[i].to \in Nat
    BY <1>1, <1>3, UpdateTypes
  <2>2. Coherent(q[i]) /\ i \in DOMAIN q
    BY <1>3, Placed
  <2>3. Len(q[i].commands) \in Nat
    BY <2>1 DEF Accepted, Batch
  <2>4. q[i].to <= rev
    BY <1>3 DEF Chained
  <2> HIDE DEF q
  <2> QED BY <1>1, <2>1, <2>2, <2>3, <2>4 DEF Coherent
<1>4. /\ \A i \in U : q[i].from = base => acts(canonical, q[i].seat)
      /\ \A i, j \in U : q[j].from = q[i].to => acts(Last(q[i].commands).after, q[j].seat)
  BY DEF Linked
<1>5. base <= rev
  BY DEF Chained
<1> HIDE DEF q, U, rev
<1>6. CASE Reported(r, sv, s, a, id, command)
  <2>1. PICK p \in Packet :
            /\ r.sent[s] = Append(q, p) /\ p.kind = "accepted" /\ p.run = sv.run.id
            /\ p.seat = a /\ Coherent(p) /\ p.from = told(sv, s) /\ p.to = rev + 1
            /\ \A b \in Range(r.run.bufferedOpponentUpdate) : b.seat = s
    BY <1>6 DEF Reported, Progress, q, rev
  <2> DEFINE n == Len(q) + 1
             t == Append(q, p)
  <2>2. /\ updates(sv.run.id, t) = U \cup {n} /\ t[n] = p
        /\ \A i \in DOMAIN q : t[i] = q[i]
    <3>1. /\ updates(sv.run.id, t) = updates(sv.run.id, q) \cup
                {i \in {n} : p.kind = "accepted" /\ p.run = sv.run.id}
          /\ t[n] = p /\ \A i \in DOMAIN q : t[i] = q[i]
      BY <1>1, Grown
    <3> HIDE DEF n, t
    <3> QED BY <2>1, <3>1 DEF U
  <2>3. p.from # p.to /\ p.from \in Nat
    <3>1. p \in Accepted
      BY <2>1 DEF Packet, Started, Rejected, Notice
    <3>2. p.from \in Nat /\ p.commands \in Batch
      BY <3>1 DEF Accepted
    <3>3. Len(p.commands) \in Nat \ {0}
      BY <3>2 DEF Batch
    <3> QED BY <2>1, <3>2, <3>3 DEF Coherent
  <2> HIDE DEF n, t
  <2>4. \A i \in U : t[i] = q[i]
    BY <1>3, <2>2
  <2>5. ASSUME NEW i \in U \cup {n}, t[i].from = base PROVE acts(canonical, t[i].seat)
    BY <1>2, <1>4, <2>1, <2>2, <2>4, <2>5
  <2>6. ASSUME NEW i \in U \cup {n}, NEW j \in U \cup {n}, t[j].from = t[i].to
        PROVE  acts(Last(t[i].commands).after, t[j].seat)
    <3>1. CASE i \in U /\ j \in U
      BY <1>4, <2>4, <2>6, <3>1
    <3>2. CASE i \in U /\ j = n
      BY <1>2, <2>1, <2>2, <2>4, <2>6, <3>2
    <3>3. CASE i = n /\ j \in U
      <4>1. t[j].from \in Nat /\ t[j].from <= rev /\ t[i].to = rev + 1
        BY <1>3, <2>1, <2>2, <2>4, <3>3
      <4> QED BY <1>1, <2>6, <4>1 DEF rev
    <3>4. CASE i = n /\ j = n
      BY <2>2, <2>3, <2>6, <3>4
    <3> QED BY <3>1, <3>2, <3>3, <3>4
  <2>7. r.sent[s] = t
    BY <2>1 DEF t
  <2> QED BY <1>1, <2>1, <2>2, <2>5, <2>6, <2>7 DEF Linked
<1>7. CASE Unreported(r, sv, s, a)
  <2>1. PICK x \in Withheld : /\ r.run.bufferedOpponentUpdate = <<x>>
                              /\ x.seat = a /\ x.from = told(sv, s) /\ r.sent[s] = q
    BY <1>7 DEF Unreported, q
  <2>2. Range(<<x>>) = {x}
    BY DEF Range
  <2>3. updates(r.run.id, r.sent[s]) = U
    BY <1>1, <2>1 DEF U
  <2> QED BY <1>2, <1>4, <2>1, <2>2, <2>3 DEF Linked
<1> QED BY <1>6, <1>7 DEF Progress

\* What is left of the links when a packet arrives, and when it is the next update.
LEMMA LinkShrunk ==
    ASSUME NEW sv, NEW r, NEW s \in Seats, NEW base, NEW canonical,
           Linked(sv, s, base, canonical), sv.sent[s] \in Seq(Packet), sv.sent[s] # <<>>,
           r.sent[s] = Tail(sv.sent[s]), r.run = sv.run
    PROVE  /\ Linked(r, s, base, canonical)
           /\ 1 \in updates(sv.run.id, sv.sent[s]) =>
                Linked(r, s, Head(sv.sent[s]).to, Last(Head(sv.sent[s]).commands).after)
<1> DEFINE q == sv.sent[s]
           t == Tail(q)
           U == updates(sv.run.id, q)
           W == updates(sv.run.id, t)
<1>1. /\ W = {i \in Nat \ {0} : i + 1 \in U} /\ \A i \in W : t[i] = q[i + 1] /\ q[1] = Head(q)
  <2>1. W = {i \in Nat \ {0} : i + 1 \in U} /\ W \subseteq DOMAIN t /\ q[1] = Head(q)
    BY Dropped, Placed
  <2>2. \A i \in DOMAIN t : t[i] = q[i + 1]
    BY Dropped
  <2> QED BY <2>1, <2>2
<1>2. r.sent[s] = t /\ q[1] = Head(q)
  BY Dropped
<1> HIDE DEF t, U, W
<1>3. updates(r.run.id, r.sent[s]) = W
  BY <1>2 DEF W
<1> HIDE DEF q
<1>4. \A i \in W : i + 1 \in U /\ t[i] = q[i + 1]
  BY <1>1
<1>5. /\ \A i \in U : q[i].from = base => acts(canonical, q[i].seat)
      /\ \A i, j \in U : q[j].from = q[i].to => acts(Last(q[i].commands).after, q[j].seat)
      /\ \A b \in Range(r.run.bufferedOpponentUpdate) : b.seat # s =>
            /\ b.from = base => acts(canonical, b.seat)
            /\ \A i \in U : b.from = q[i].to => acts(Last(q[i].commands).after, b.seat)
  BY DEF Linked, U, q
<1>6. ASSUME NEW i \in W
      PROVE  /\ t[i].from = base => acts(canonical, t[i].seat)
             /\ \A j \in W : t[j].from = t[i].to => acts(Last(t[i].commands).after, t[j].seat)
             /\ \A b \in Range(r.run.bufferedOpponentUpdate) :
                    b.seat # s /\ b.from = t[i].to => acts(Last(t[i].commands).after, b.seat)
             /\ 1 \in U /\ t[i].from = q[1].to => acts(Last(q[1].commands).after, t[i].seat)
  <2>1. i + 1 \in U /\ t[i] = q[i + 1] /\ \A j \in W : j + 1 \in U /\ t[j] = q[j + 1]
    BY <1>4
  <2> QED BY <1>5, <2>1
<1>7. Linked(r, s, base, canonical)
  BY <1>2, <1>3, <1>5, <1>6 DEF Linked
<1>8. ASSUME 1 \in U
      PROVE  Linked(r, s, q[1].to, Last(q[1].commands).after)
  BY <1>2, <1>3, <1>5, <1>6, <1>8 DEF Linked
<1> QED BY <1>2, <1>7, <1>8 DEF U, q

-----------------------------------------------------------------------------

(* What the server's steps do to the order.                                  *)

\* A step that neither moves the run nor sends the seat anything.
LEMMA TrackedKept ==
    ASSUME NEW sv, NEW r, NEW s \in Seats, NEW u, NEW c, Tracked(sv, u, c, s),
           r.run.id = sv.run.id, r.run.revision = sv.run.revision, r.phase = sv.phase,
           r.run.bufferedOpponentUpdate = sv.run.bufferedOpponentUpdate, r.sent[s] = sv.sent[s]
    PROVE  Tracked(r, u, c, s)
<1>1. Coheres(r, c, s)
  BY DEF Tracked, Coheres, Linked
<1>2. Current(r, c, s) /\ Expected(r, u, c, s)
  BY DEF Tracked, Current, Expected
<1>3. Forewarned(r, u, c, s)
  BY DEF Tracked, Forewarned
<1>4. Refusable(r, c, s)
  BY DEF Tracked, Refusable, Exact, Near
<1> QED BY <1>1, <1>2, <1>3, <1>4 DEF Tracked

\* A step of the run, told to a seat or withheld from it.
LEMMA TrackedProgress ==
    ASSUME NEW sv, NEW r, NEW s \in Seats, NEW u, NEW c \in ClientState, NEW a \in Seats, NEW id,
           NEW command, ServerSound(sv), SeatSound(sv, u, c, s), ReplaySound(sv, u, c, s),
           Tracked(sv, u, c, s), Progress(r, sv, s, a, id, command),
           s = a /\ id # NoId /\ ~isTerminal(c.screen) /\ c.pending # <<>> =>
                c.pending[1].id = id /\ c.pending[1].type = command.type /\ c.run = sv.run.id
    PROVE  Tracked(r, u, c, s)
<1> DEFINE q == sv.sent[s]
           t == r.sent[s]
           n == Len(q) + 1
           U == updates(sv.run.id, q)
           W == updates(sv.run.id, t)
           rev == sv.run.revision
<1>1. /\ q \in Seq(Packet) /\ rev \in Nat /\ c.revision \in Nat /\ c.run \in Nat
      /\ sv.run.id \in Nat /\ sv.run.id # NoRun /\ 0 \in Nat
      /\ r.run.id = sv.run.id /\ r.run.revision = rev + 1
      /\ sv.phase = "active" /\ r.phase # "abandoned" /\ c.run <= sv.run.id
      /\ c.screen = "ready" => sv.run.id = NoRun
  BY SeatTypes DEF Progress, ServerSound, RunSound, ClientState, SeatSound, RunsFit
<1>2. /\ \A i \in DOMAIN q : t[i] = q[i] /\ i \in Nat
      /\ starts(t) = starts(q) /\ refusals(t) = refusals(q) /\ losses(t) = losses(q)
      /\ U \subseteq W
      /\ \/ reports(t) = reports(q) /\ replies(t) = replies(q) /\ W = U
         \/ /\ reports(t) = reports(q) \cup {n} /\ W = U \cup {n}
            /\ \A i \in DOMAIN q : i < n
            /\ t[n] \in Packet
            /\ t[n].kind = "accepted" /\ t[n].run = sv.run.id /\ Coherent(t[n]) /\ t[n].seat = a
            /\ t[n].from = told(sv, s) /\ t[n].to = rev + 1
            /\ \/ replies(t) = replies(q)
               \/ /\ replies(t) = replies(q) \cup {n} /\ t[n].id # NoId
                  /\ s = a /\ t[n].id = id /\ Last(t[n].commands) = command
  <2>1. CASE Unreported(r, sv, s, a)
    <3>1. t = q /\ \A i \in DOMAIN q : i \in Nat
      BY <1>1, <2>1 DEF Unreported
    <3> HIDE DEF t, q
    <3> QED BY <3>1
  <2>2. CASE Reported(r, sv, s, a, id, command)
    <3>1. PICK p \in Packet :
              /\ t = Append(q, p)
              /\ p.kind = "accepted" /\ p.run = sv.run.id /\ p.seat = a /\ Coherent(p)
              /\ p.from = told(sv, s) /\ p.to = r.run.revision
              /\ \/ p.id = NoId
                 \/ s = a /\ p.id = id /\ Last(p.commands) = command
      BY <2>2 DEF Reported
    <3> HIDE DEF t, q, U, W, rev
    <3> DEFINE b == Append(q, p)
    <3>2. /\ starts(b) = starts(q) \cup {i \in {n} : p.kind = "game-start"}
          /\ reports(b) = reports(q) \cup {i \in {n} : p.kind = "accepted"}
          /\ refusals(b) = refusals(q) \cup {i \in {n} : p.kind = "rejected"}
          /\ losses(b) = losses(q) \cup {i \in {n} : p.kind = "opponent-disconnected"}
          /\ replies(b) = replies(q) \cup
                {i \in {n} : p.kind \in {"accepted", "rejected"} /\ p.id # NoId}
          /\ updates(sv.run.id, b) = updates(sv.run.id, q) \cup
                {i \in {n} : p.kind = "accepted" /\ p.run = sv.run.id}
          /\ b[n] = p
          /\ \A i \in DOMAIN q : b[i] = q[i] /\ i < n /\ i \in Nat
      BY <1>1, Grown
    <3>3. b = t
      BY <3>1
    <3> HIDE DEF b, n
    <3> QED BY <1>1, <3>1, <3>2, <3>3 DEF U, W
  <2> QED BY <2>1, <2>2 DEF Progress
<1>3. /\ starts(q) \subseteq DOMAIN q /\ reports(q) \subseteq DOMAIN q
      /\ refusals(q) \subseteq DOMAIN q /\ losses(q) \subseteq DOMAIN q
      /\ replies(q) \subseteq DOMAIN q /\ U \subseteq DOMAIN q
  BY Placed
<1>4. \A i \in reports(q) : Coherent(q[i])
  BY DEF Tracked, Coheres
<1>5. ASSUME NEW base \in Nat, NEW canonical, Chained(sv, s, base, canonical),
             Linked(sv, s, base, canonical)
      PROVE  Linked(r, s, base, canonical)
  BY <1>4, <1>5, LinkProgress
<1>6. /\ c.screen = "match" =>
            Linked(sv, s, c.revision, c.canonical) /\ Chained(sv, s, c.revision, c.canonical)
      /\ \A g \in starts(q) : Linked(sv, s, 0, q[g].state) /\ Chained(sv, s, 0, q[g].state)
  BY DEF Tracked, Coheres, ReplaySound, Replayed
<1>7. told(sv, s) = rev \/ s # a
  <2>1. \A b \in Range(sv.run.bufferedOpponentUpdate) : b.seat = a
    BY DEF Progress
  <2> QED BY <2>1, ToldTo
<1> HIDE DEF q, t, n, U, W, rev
<1>8. Coheres(r, c, s)
  <2>1. \A i \in reports(t) : Coherent(t[i])
    BY <1>2, <1>3, <1>4
  <2>2. c.screen = "match" => Linked(r, s, c.revision, c.canonical)
    BY <1>1, <1>5, <1>6
  <2>3. \A g \in starts(t) : Linked(r, s, 0, t[g].state)
    <3> SUFFICES ASSUME NEW g \in starts(t) PROVE Linked(r, s, 0, t[g].state)
      OBVIOUS
    <3>1. g \in starts(q) /\ t[g] = q[g]
      BY <1>2, <1>3
    <3> QED BY <1>1, <1>5, <1>6, <3>1
  <2> QED BY <2>1, <2>2, <2>3 DEF Coheres, t
<1>9. Current(r, c, s)
  <2>1. /\ ~isTerminal(c.screen) =>
            /\ c.run < sv.run.id => starts(q) # {}
            /\ \A i \in reports(q) :
                q[i].run = sv.run.id /\ (c.screen # "match" => c.run < sv.run.id)
        /\ \A g \in starts(q) : \A i \in reports(q) : g < i => q[i].run = sv.run.id
        /\ c.screen = "match" => c.run # NoRun
        /\ ~(c.screen = "waiting" /\ c.run = sv.run.id)
    BY <1>1 DEF Tracked, Current, q
  <2>2. ~isTerminal(c.screen) /\ c.screen # "match" => c.run < sv.run.id
    <3>1. c.screen \in Screens
      BY DEF ClientState
    <3>2. ~isTerminal(c.screen) => c.screen \in {"ready", "waiting", "match"}
      BY <3>1 DEF Screens, isTerminal
    <3> QED BY <1>1, <2>1, <3>2
  <2>3. \A i \in reports(t) : (i \in reports(q) /\ t[i] = q[i]) \/ t[i].run = sv.run.id
    BY <1>2, <1>3
  <2>4. /\ ~isTerminal(c.screen) => \A i \in reports(t) :
                t[i].run = sv.run.id /\ (c.screen # "match" => c.run < sv.run.id)
        /\ \A g \in starts(t) : \A i \in reports(t) : g < i => t[i].run = sv.run.id
    BY <1>2, <2>1, <2>2, <2>3
  <2> QED BY <1>1, <1>2, <2>1, <2>4 DEF Current, t
<1>10. Expected(r, u, c, s)
  <2>1. Expected(sv, u, c, s)
    BY DEF Tracked
  <2>2. ASSUME ~isTerminal(c.screen), c.pending # <<>>, NEW i \in replies(t)
        PROVE  /\ t[i].id = c.pending[1].id /\ t[i].run = c.run
               /\ t[i].kind = "accepted" =>
                    t[i].seat = s /\ Last(t[i].commands).type = c.pending[1].type
    <3>1. CASE i \in replies(q)
      <4>1. t[i] = q[i]
        BY <1>2, <1>3, <3>1
      <4> QED BY <2>1, <2>2, <3>1, <4>1 DEF Expected, q
    <3>2. CASE i \notin replies(q)
      BY <1>2, <2>2, <3>2
    <3> QED BY <3>1, <3>2
  <2>3. refusals(t) \subseteq replies(t)
    BY <1>2, <2>1 DEF Expected, q
  <2> QED BY <2>1, <2>2, <2>3 DEF Expected, t
<1>11. Forewarned(r, u, c, s)
  <2>1. /\ \A i \in DOMAIN u : u[i].kind = "close" => c.screen = "left"
        /\ losses(q) = {} /\ \A i \in refusals(q) : q[i].reason # "no-active-match"
    BY <1>1 DEF Tracked, Forewarned, q
  <2>2. \A i \in refusals(t) : t[i].reason # "no-active-match"
    BY <1>2, <1>3, <2>1
  <2> QED BY <1>1, <1>2, <2>1, <2>2 DEF Forewarned, t
<1>12. Refusable(r, c, s)
  <2> SUFFICES ASSUME NEW i \in refusals(t), t[i].reason # "no-active-match"
               PROVE  /\ c.screen = "match" =>
                            IF t[i].reason = "stale-revision" THEN Near(r, c, s, i)
                            ELSE Exact(r, c, s, i)
                      /\ c.screen = "waiting" => t[i].revision = c.revision
    BY DEF Refusable, t
  <2>1. i \in refusals(q) /\ t[i] = q[i] /\ i \in Nat /\ i \in DOMAIN q
    BY <1>2, <1>3
  <2>2. /\ c.screen = "match" =>
            IF q[i].reason = "stale-revision" THEN Near(sv, c, s, i) ELSE Exact(sv, c, s, i)
        /\ c.screen = "waiting" => q[i].revision = c.revision
    BY <1>1, <2>1 DEF Tracked, Refusable, q
  <2>3. q[i].revision \in Nat
    <3>1. q[i] \in Packet /\ q[i].kind = "rejected"
      BY <1>1, <2>1 DEF refusals
    <3> QED BY <3>1 DEF Packet, Started, Accepted, Rejected, Notice
  <2>4. \A k \in U : t[k] = q[k] /\ k \in Nat
    BY <1>2, <1>3
  <2>5. \A k \in W : k \in U \/ (k = n /\ i < k)
    BY <1>2, <2>1
  <2>6. ASSUME Near(sv, c, s, i) PROVE Near(r, c, s, i)
    <3>1. /\ c.revision <= q[i].revision /\ q[i].revision <= rev
          /\ \A k \in U : k < i => q[k].to <= q[i].revision
          /\ \A k \in U : i < k =>
                \/ q[i].revision <= q[k].from
                \/ q[k].seat = otherSeat(s) /\ q[i].revision <= q[k].to
      BY <2>6 DEF Near, q, U, rev
    <3>2. c.revision <= t[i].revision /\ t[i].revision <= rev + 1
      BY <1>1, <2>1, <2>3, <3>1 DEF rev
    <3>3. ASSUME NEW k \in W, k < i PROVE t[k].to <= t[i].revision
      <4>1. k \in U
        BY <1>2, <2>1, <2>5, <3>3 DEF n
      <4> QED BY <2>1, <2>4, <3>1, <3>3, <4>1
    <3>4. ASSUME NEW k \in W, i < k
          PROVE  \/ t[i].revision <= t[k].from
                 \/ t[k].seat = otherSeat(s) /\ t[i].revision <= t[k].to
      <4>1. CASE k \in U
        BY <2>1, <2>4, <3>1, <3>4, <4>1
      <4>2. CASE k \notin U
        <5>1. k = n /\ t[k].seat = a /\ t[k].from = told(sv, s) /\ t[k].to = rev + 1
          BY <1>2, <4>2
        <5>2. s # a => a = otherSeat(s)
          BY DEF Seats, otherSeat
        <5> QED BY <1>7, <2>1, <3>1, <3>2, <5>1, <5>2
      <4> QED BY <4>1, <4>2
    <3> QED BY <1>1, <3>2, <3>3, <3>4 DEF Near, t, W
  <2>7. ASSUME Exact(sv, c, s, i) PROVE Exact(r, c, s, i)
    <3>1. /\ (\A k \in U : i < k) => q[i].revision = c.revision
          /\ \A k \in U : k < i /\ (\A l \in U : l <= k \/ i < l) => q[k].to = q[i].revision
      BY <2>7 DEF Exact, q, U
    <3>2. (\A k \in W : i < k) => t[i].revision = c.revision
      BY <1>2, <2>1, <3>1
    <3>3. ASSUME NEW k \in W, k < i, \A l \in W : l <= k \/ i < l
          PROVE  t[k].to = t[i].revision
      <4>1. k \in U
        BY <1>2, <2>1, <2>5, <3>3 DEF n
      <4> QED BY <1>2, <2>1, <2>4, <3>1, <3>3, <4>1
    <3> QED BY <1>1, <3>2, <3>3 DEF Exact, t, W
  <2> QED BY <2>1, <2>2, <2>6, <2>7
<1> QED BY <1>8, <1>9, <1>10, <1>11, <1>12 DEF Tracked


\* A packet that is no update, and a room that is left, do not disturb the updates.
LEMMA NotedOrder ==
    ASSUME NEW sv, NEW r, NEW s \in Seats, NEW c, NEW p \in Packet, ServerSound(sv),
           Coheres(sv, c, s), Current(sv, c, s), Refusable(sv, c, s),
           r.run.id = sv.run.id, r.run.revision = sv.run.revision,
           r.phase = sv.phase \/ r.phase = "abandoned",
           \/ r.run.bufferedOpponentUpdate = sv.run.bufferedOpponentUpdate
           \/ r.run.bufferedOpponentUpdate = <<>>,
           p.kind \notin {"accepted", "game-start"},
           \/ r.sent[s] = sv.sent[s]
           \/ r.sent[s] = Append(sv.sent[s], p)
    PROVE  /\ Coheres(r, c, s) /\ Current(r, c, s)
           /\ p.kind # "rejected" => Refusable(r, c, s)
           /\ \A i \in refusals(sv.sent[s]) :
                /\ Near(sv, c, s, i) => Near(r, c, s, i)
                /\ Exact(sv, c, s, i) => Exact(r, c, s, i)
<1> DEFINE q == sv.sent[s]
           t == r.sent[s]
           U == updates(sv.run.id, q)
<1>1. q \in Seq(Packet)
  BY SeatTypes
<1>2. /\ starts(t) = starts(q) /\ reports(t) = reports(q) /\ updates(sv.run.id, t) = U
      /\ p.kind # "rejected" => refusals(t) = refusals(q)
      /\ \A i \in DOMAIN q : t[i] = q[i]
  <2>1. CASE t = q
    BY <2>1
  <2>2. CASE t = Append(q, p)
    <3> HIDE DEF q, t, U
    <3> DEFINE n == Len(q) + 1
               b == Append(q, p)
    <3>1. /\ starts(b) = starts(q) \cup {i \in {n} : p.kind = "game-start"}
          /\ reports(b) = reports(q) \cup {i \in {n} : p.kind = "accepted"}
          /\ refusals(b) = refusals(q) \cup {i \in {n} : p.kind = "rejected"}
          /\ updates(sv.run.id, b) = updates(sv.run.id, q) \cup
                {i \in {n} : p.kind = "accepted" /\ p.run = sv.run.id}
          /\ \A i \in DOMAIN q : b[i] = q[i]
      BY <1>1, Grown
    <3>2. t = b
      BY <2>2
    <3> HIDE DEF b, n
    <3> QED BY <3>1, <3>2 DEF U
  <2> QED BY <2>1, <2>2
<1>3. /\ starts(q) \subseteq DOMAIN q /\ reports(q) \subseteq DOMAIN q
      /\ refusals(q) \subseteq DOMAIN q /\ U \subseteq DOMAIN q
  BY Placed
<1> HIDE DEF q, t, U
<1>4. ASSUME NEW base, NEW canonical, Linked(sv, s, base, canonical)
      PROVE  Linked(r, s, base, canonical)
  <2>1. /\ \A i \in U : q[i].from = base => acts(canonical, q[i].seat)
        /\ \A i, j \in U : q[j].from = q[i].to => acts(Last(q[i].commands).after, q[j].seat)
        /\ \A b \in Range(sv.run.bufferedOpponentUpdate) : b.seat # s =>
            /\ b.from = base => acts(canonical, b.seat)
            /\ \A i \in U : b.from = q[i].to => acts(Last(q[i].commands).after, b.seat)
    BY <1>4 DEF Linked, q, U
  <2>2. Range(r.run.bufferedOpponentUpdate) \subseteq Range(sv.run.bufferedOpponentUpdate)
    BY DEF Range
  <2>3. \A i \in U : t[i] = q[i]
    BY <1>2, <1>3
  <2>4. updates(r.run.id, r.sent[s]) = U
    BY <1>2 DEF t
  <2> QED BY <2>1, <2>2, <2>3, <2>4 DEF Linked, t
<1>5. Coheres(r, c, s)
  <2>1. /\ \A i \in reports(q) : Coherent(q[i])
        /\ c.screen = "match" => Linked(sv, s, c.revision, c.canonical)
        /\ \A g \in starts(q) : Linked(sv, s, 0, q[g].state)
    BY DEF Coheres, q
  <2>2. \A i \in reports(t) : Coherent(t[i])
    BY <1>2, <1>3, <2>1
  <2>3. \A g \in starts(t) : Linked(r, s, 0, t[g].state)
    BY <1>2, <1>3, <1>4, <2>1
  <2> QED BY <1>4, <2>1, <2>2, <2>3 DEF Coheres, t
<1>6. Current(r, c, s)
  <2>1. \A i \in reports(q) : t[i] = q[i]
    BY <1>2, <1>3
  <2> QED BY <1>2, <2>1 DEF Current, t, q
<1>7. ASSUME NEW i \in refusals(q)
      PROVE  /\ Near(sv, c, s, i) => Near(r, c, s, i)
             /\ Exact(sv, c, s, i) => Exact(r, c, s, i)
             /\ t[i] = q[i]
  <2>1. t[i] = q[i] /\ \A k \in U : t[k] = q[k]
    BY <1>2, <1>3
  <2>2. updates(r.run.id, t) = U
    BY <1>2
  <2> QED BY <2>1, <2>2 DEF Near, Exact, t, q, U
<1>8. p.kind # "rejected" => Refusable(r, c, s)
  BY <1>2, <1>7 DEF Refusable, t, q
<1> QED BY <1>5, <1>6, <1>7, <1>8 DEF q

\* A refusal that is justified names the revision that its client will be at.
LEMMA RefusalNear ==
    ASSUME NEW sv, NEW s \in Seats, NEW u \in Seq(Upward), NEW c \in ClientState,
           NEW p \in Rejected, ServerSound(sv), Halved(sv), SeatSound(sv, u, c, s),
           ReplaySound(sv, u, c, s), Tracked(sv, u, c, s), u # <<>>, Head(u) \in Envelope,
           Justified(sv, s, Head(u), p), p.reason # "no-active-match",
           ~isTerminal(c.screen)
    PROVE  /\ p.run = c.run /\ c.run = sv.run.id /\ p.revision = sv.run.revision
           /\ sv.phase # "abandoned"
           /\ p.reason # "stale-revision" => told(sv, s) = sv.run.revision
<1> DEFINE e == Head(u)
<1>1. e \in Envelope /\ e.kind = "command" /\ 1 \in requests(u) /\ u[1] = e /\ c.run \in Nat
  <2>1. e.kind = "command"
    BY DEF Envelope
  <2> QED BY <2>1, ReadUp DEF ClientState
<1> HIDE DEF e
<1>2. /\ p.run = sv.run.id /\ p.revision = sv.run.revision
      /\ sv.phase # "abandoned"
      /\ p.reason = "wrong-match" => e.run # sv.run.id
      /\ p.reason = "command-id-reused" =>
            cachedFor(sv, s, e) # {} \/ e.id \in sv.run.acceptedCommandIds[s]
      /\ p.reason = "game-finished" => sv.run.phase = "finished" \/ sv.phase = "finished"
      /\ p.reason = "rules" => e.run = sv.run.id /\ e.expected = sv.run.revision
  BY DEF Justified, e
<1>3. starts(sv.sent[s]) = {}
  BY <1>1 DEF SeatSound, InOrder
<1>4. c.run = sv.run.id
  <2>1. c.run <= sv.run.id /\ sv.run.id \in Nat
    BY SeatTypes DEF SeatSound, RunsFit
  <2>2. ~(c.run < sv.run.id)
    BY <1>3 DEF Tracked, Current
  <2> QED BY <1>1, <2>1, <2>2
<1>5. e.run = c.run /\ p.reason # "command-id-reused"
  <2>1. e.id \notin sv.run.acceptedCommandIds[s] /\ e.run = c.run
    BY <1>1 DEF SeatSound, IdsFresh
  <2>2. cachedFor(sv, s, e) = {}
    BY <2>1 DEF SeatSound, IdsFresh, cachedFor
  <2> QED BY <1>2, <2>1, <2>2
<1>6. ASSUME p.reason # "stale-revision" PROVE told(sv, s) = sv.run.revision
  <2>1. p.reason = "game-finished" \/ p.reason = "rules"
    BY <1>2, <1>4, <1>5, <1>6 DEF Rejected, Reasons
  <2>2. CASE p.reason = "game-finished"
    <3>1. sv.phase # "active"
      BY <1>2, <2>2 DEF ServerSound, RunSound
    <3>2. sv.run.bufferedOpponentUpdate = <<>>
      BY <3>1 DEF Halved
    <3> QED BY <3>2 DEF told
  <2>3. CASE p.reason = "rules"
    <3>1. sv.run.state.activeSeat = s
      BY <1>1, <1>2, <1>4, <1>5, <2>3 DEF ReplaySound, Fitting
    <3>2. sv.run.state.extraTurnInProgress \subseteq {s}
      BY <3>1 DEF ServerSound, RunSound, TurnSound
    <3>3. \A b \in Range(sv.run.bufferedOpponentUpdate) : b.seat = s
      BY <3>2 DEF Halved
    <3> QED BY <3>3, ToldTo
  <2> QED BY <2>1, <2>2, <2>3
<1> QED BY <1>2, <1>4, <1>6

\* A command is refused.
LEMMA TrackedRefused ==
    ASSUME NEW sv, NEW r, NEW s \in Seats, NEW u \in Seq(Upward), NEW c \in ClientState,
           NEW p \in Rejected, ServerSound(sv), Halved(sv), SeatSound(sv, u, c, s),
           ReplaySound(sv, u, c, s), Tracked(sv, u, c, s), u # <<>>, Head(u) \in Envelope,
           p.id = Head(u).id, Justified(sv, s, Head(u), p),
           r.sent[s] = Append(sv.sent[s], p), r.run = sv.run, r.phase = sv.phase
    PROVE  Tracked(r, u, c, s)
<1> DEFINE e == Head(u)
           q == sv.sent[s]
           t == r.sent[s]
           n == Len(q) + 1
           U == updates(sv.run.id, q)
           rev == sv.run.revision
<1>1. /\ e \in Envelope /\ e.kind = "command" /\ 1 \in requests(u) /\ u[1] = e
      /\ c.run \in Nat /\ e.id # NoId /\ p \in Packet /\ p.kind = "rejected"
      /\ q \in Seq(Packet) /\ sv.run.id \in Nat /\ rev \in Nat
  <2>1. e.kind = "command" /\ e.id \in Nat
    BY DEF Envelope
  <2>2. c.run \in Nat /\ e.id # NoId /\ p \in Packet /\ p.kind = "rejected"
    BY <2>1 DEF ClientState, NoId, Packet, Rejected
  <2> QED BY <2>1, <2>2, ReadUp, SeatTypes
<1> HIDE DEF e, q, U, rev
<1>2. /\ starts(t) = starts(q) /\ losses(t) = losses(q) /\ updates(sv.run.id, t) = U
      /\ refusals(t) = refusals(q) \cup {n} /\ replies(t) = replies(q) \cup {n}
      /\ t[n] = p /\ n \in Nat
      /\ \A i \in DOMAIN q : t[i] = q[i] /\ i < n /\ i \in Nat
  <2> DEFINE b == Append(q, p)
  <2>1. /\ starts(b) = starts(q) \cup {i \in {n} : p.kind = "game-start"}
        /\ reports(b) = reports(q) \cup {i \in {n} : p.kind = "accepted"}
        /\ refusals(b) = refusals(q) \cup {i \in {n} : p.kind = "rejected"}
        /\ losses(b) = losses(q) \cup {i \in {n} : p.kind = "opponent-disconnected"}
        /\ replies(b) = replies(q) \cup
                {i \in {n} : p.kind \in {"accepted", "rejected"} /\ p.id # NoId}
        /\ updates(sv.run.id, b) = updates(sv.run.id, q) \cup
                {i \in {n} : p.kind = "accepted" /\ p.run = sv.run.id}
        /\ b[n] = p /\ n \in Nat
        /\ \A i \in DOMAIN q : b[i] = q[i] /\ i < n /\ i \in Nat
    BY <1>1, Grown
  <2>2. t = b
    BY DEF q
  <2>3. p.id # NoId
    BY <1>1 DEF e
  <2> HIDE DEF b, n, t
  <2> QED BY <1>1, <2>1, <2>2, <2>3 DEF U
<1>3. /\ refusals(q) \subseteq DOMAIN q /\ U \subseteq DOMAIN q /\ losses(q) \subseteq DOMAIN q
      /\ replies(q) \subseteq DOMAIN q /\ starts(q) \subseteq DOMAIN q
  BY Placed DEF U
<1>4. /\ Coheres(r, c, s) /\ Current(r, c, s)
      /\ \A i \in refusals(q) :
            /\ Near(sv, c, s, i) => Near(r, c, s, i)
            /\ Exact(sv, c, s, i) => Exact(r, c, s, i)
  BY <1>1, NotedOrder DEF Tracked, q
<1>5. /\ ~isTerminal(c.screen) /\ p.reason # "no-active-match" =>
            /\ p.run = c.run /\ c.run = sv.run.id /\ p.revision = rev
            /\ sv.phase # "abandoned"
            /\ p.reason # "stale-revision" => told(sv, s) = rev
      /\ p.reason = "no-active-match" => p.run = e.run /\ sv.phase = "abandoned"
      /\ e.run = c.run /\ c.run # NoRun
  <2>1. e.run = c.run /\ c.run # NoRun /\ c.run <= sv.run.id
    BY <1>1 DEF SeatSound, IdsFresh, RunsFit, Tracked, Expected
  <2>2. p.reason = "no-active-match" => p.run = e.run /\ sv.phase = "abandoned"
    BY <1>1, <2>1 DEF Justified, e, NoRun
  <2>3. ASSUME ~isTerminal(c.screen), p.reason # "no-active-match"
        PROVE  /\ p.run = c.run /\ c.run = sv.run.id /\ p.revision = rev
               /\ sv.phase # "abandoned"
               /\ p.reason # "stale-revision" => told(sv, s) = rev
    BY <2>3, RefusalNear DEF rev
  <2> QED BY <2>1, <2>2, <2>3
<1> HIDE DEF t, n
<1>6. Expected(r, u, c, s)
  <2>1. /\ requests(u) # {} => c.run # NoRun
        /\ refusals(t) \subseteq replies(t)
    BY <1>2 DEF Tracked, Expected, q
  <2>2. ASSUME ~isTerminal(c.screen), c.pending # <<>>
        PROVE  /\ c.run # NoRun
               /\ \A i \in requests(u) : u[i].id = c.pending[1].id /\ u[i].type = c.pending[1].type
               /\ \A i \in replies(q) :
                    /\ q[i].id = c.pending[1].id /\ q[i].run = c.run
                    /\ q[i].kind = "accepted" =>
                        q[i].seat = s /\ Last(q[i].commands).type = c.pending[1].type
    BY <2>2 DEF Tracked, Expected, q
  <2>3. ASSUME ~isTerminal(c.screen), c.pending # <<>>, NEW i \in replies(t)
        PROVE  /\ t[i].id = c.pending[1].id /\ t[i].run = c.run
               /\ t[i].kind = "accepted" =>
                    t[i].seat = s /\ Last(t[i].commands).type = c.pending[1].type
    <3>1. CASE i \in replies(q)
      <4>1. t[i] = q[i]
        BY <1>2, <1>3, <3>1
      <4> QED BY <2>2, <2>3, <3>1, <4>1
    <3>2. CASE i \notin replies(q)
      <4>1. t[i] = p /\ p.run = c.run /\ e.id = c.pending[1].id
        BY <1>1, <1>2, <1>5, <2>2, <2>3, <3>2
      <4> QED BY <1>1, <4>1 DEF e
    <3> QED BY <3>1, <3>2
  <2> QED BY <2>1, <2>2, <2>3 DEF Expected, t
<1>7. Forewarned(r, u, c, s)
  <2>1. Forewarned(sv, u, c, s)
    BY DEF Tracked
  <2>2. ASSUME NEW i \in refusals(t), t[i].reason = "no-active-match"
        PROVE  /\ sv.phase = "abandoned"
               /\ \/ c.screen = "left" \/ \E j \in losses(t) : j < i
                  \/ starts(t) = {} /\ isTerminal(c.screen)
    <3>1. CASE i \in refusals(q)
      <4>1. t[i] = q[i]
        BY <1>2, <1>3, <3>1
      <4> QED BY <1>2, <2>1, <2>2, <3>1, <4>1 DEF Forewarned, q
    <3>2. CASE i \notin refusals(q)
      <4>1. i = n /\ sv.phase = "abandoned"
        BY <1>2, <1>5, <2>2, <3>2
      <4>2. \A j \in losses(q) : j < n
        BY <1>2, <1>3
      <4> QED BY <1>2, <1>5, <2>1, <4>1, <4>2 DEF Forewarned, q
    <3> QED BY <3>1, <3>2
  <2>3. \A g \in starts(t), j \in losses(t) : g < j
    BY <1>2, <2>1 DEF Forewarned, q
  <2> QED BY <1>2, <2>1, <2>2, <2>3 DEF Forewarned, t, q
<1>8. Refusable(r, c, s)
  <2> SUFFICES ASSUME NEW i \in refusals(t), t[i].reason # "no-active-match"
               PROVE  /\ c.screen = "match" =>
                            IF t[i].reason = "stale-revision"
                            THEN sv.phase # "abandoned" => Near(r, c, s, i)
                            ELSE Exact(r, c, s, i)
                      /\ c.screen = "waiting" =>
                            \/ t[i].revision = c.revision
                            \/ t[i].reason = "stale-revision" /\ sv.phase = "abandoned"
    BY DEF Refusable, t
  <2>1. CASE i \in refusals(q)
    <3>1. t[i] = q[i]
      BY <1>2, <1>3, <2>1
    <3> QED BY <1>4, <2>1, <3>1 DEF Tracked, Refusable, q
  <2>2. CASE i \notin refusals(q)
    <3>1. i = n /\ t[i] = p
      BY <1>2, <2>2
    <3>2. c.screen \in {"match", "waiting"} =>
              /\ c.run = sv.run.id /\ c.run # NoRun /\ p.revision = rev
              /\ sv.phase # "abandoned"
              /\ p.reason # "stale-revision" => told(sv, s) = rev
      BY <1>5, <3>1 DEF isTerminal
    <3>3. c.screen = "waiting" => p.revision = c.revision
      BY <3>2 DEF Tracked, Current, rev
    <3>4. c.screen = "match" =>
              /\ c.revision <= rev
              /\ \A k \in U : q[k].to <= rev
              /\ U = {} => c.revision = told(sv, s)
              /\ \A k \in U : (\A l \in U : l <= k) => q[k].to = told(sv, s)
      BY <3>2 DEF ReplaySound, Replayed, Chained, U, q, rev
    <3>5. \A k \in U : k < n /\ ~(n < k) /\ t[k] = q[k] /\ k \in Nat
      BY <1>2, <1>3
    <3>6. ASSUME c.screen = "match" PROVE Near(r, c, s, n)
      <4>1. c.revision <= t[n].revision /\ t[n].revision <= rev /\ t[n].revision = rev
        BY <1>1, <1>2, <3>1, <3>2, <3>4, <3>6
      <4>2. updates(r.run.id, t) = U /\ r.run.revision = rev
        BY <1>2 DEF rev
      <4> QED BY <3>4, <3>5, <3>6, <4>1, <4>2 DEF Near, t
    <3>7. ASSUME c.screen = "match", p.reason # "stale-revision" PROVE Exact(r, c, s, n)
      BY <1>1, <1>2, <3>1, <3>2, <3>4, <3>5, <3>7 DEF Exact, t, rev
    <3> QED BY <3>1, <3>3, <3>6, <3>7
  <2> QED BY <2>1, <2>2
<1> QED BY <1>4, <1>6, <1>7, <1>8 DEF Tracked

\* A client that asks to be ready in a room that is gone is told that it is closed.
LEMMA TrackedClosed ==
    ASSUME NEW sv, NEW r, NEW s \in Seats, NEW u, NEW c, NEW p \in Packet, ServerSound(sv),
           Tracked(sv, u, c, s), p.kind = "closed", r.run = sv.run, r.phase = sv.phase,
           r.sent[s] = Append(sv.sent[s], p)
    PROVE  Tracked(r, u, c, s)
<1> DEFINE q == sv.sent[s]
           t == r.sent[s]
<1>1. q \in Seq(Packet)
  BY SeatTypes
<1>2. Coheres(r, c, s) /\ Current(r, c, s) /\ Refusable(r, c, s)
  BY NotedOrder DEF Tracked
<1> HIDE DEF q
<1>3. /\ starts(t) = starts(q) /\ refusals(t) = refusals(q) /\ losses(t) = losses(q)
      /\ replies(t) = replies(q) /\ \A i \in DOMAIN q : t[i] = q[i]
  <2> DEFINE b == Append(q, p)
             n == Len(q) + 1
  <2>1. /\ starts(b) = starts(q) \cup {i \in {n} : p.kind = "game-start"}
        /\ refusals(b) = refusals(q) \cup {i \in {n} : p.kind = "rejected"}
        /\ losses(b) = losses(q) \cup {i \in {n} : p.kind = "opponent-disconnected"}
        /\ replies(b) = replies(q) \cup
                {i \in {n} : p.kind \in {"accepted", "rejected"} /\ p.id # NoId}
        /\ b[n] = p /\ n \in Nat
        /\ \A i \in DOMAIN q : b[i] = q[i] /\ i < n /\ i \in Nat
    BY <1>1, Grown
  <2>2. t = b
    BY DEF q
  <2> HIDE DEF b, n, t
  <2> QED BY <2>1, <2>2
<1>4. refusals(q) \subseteq DOMAIN q /\ replies(q) \subseteq DOMAIN q
  BY Placed
<1> HIDE DEF t
<1>5. /\ \A i \in refusals(t) : i \in refusals(q) /\ t[i] = q[i]
      /\ \A i \in replies(t) : i \in replies(q) /\ t[i] = q[i]
  BY <1>3, <1>4
<1>6. Expected(r, u, c, s)
  BY <1>3, <1>5 DEF Tracked, Expected, t, q
<1>7. Forewarned(r, u, c, s)
  BY <1>3, <1>5 DEF Tracked, Forewarned, t, q
<1> QED BY <1>2, <1>6, <1>7 DEF Tracked

\* The opponent of a seat is gone, or the seat itself: the room is abandoned.
LEMMA TrackedAbandoned ==
    ASSUME NEW sv, NEW r, NEW s \in Seats, NEW u, NEW c, NEW p \in Packet, ServerSound(sv),
           Tracked(sv, u, c, s), p.kind = "opponent-disconnected",
           sv.phase # "abandoned", r.phase = "abandoned",
           r.run.id = sv.run.id, r.run.revision = sv.run.revision,
           r.run.bufferedOpponentUpdate = <<>>,
           \/ r.sent[s] = sv.sent[s] /\ c.screen = "left"
           \/ r.sent[s] = Append(sv.sent[s], p)
    PROVE  Tracked(r, u, c, s)
<1> DEFINE q == sv.sent[s]
           t == r.sent[s]
           n == Len(q) + 1
<1>1. q \in Seq(Packet)
  BY SeatTypes
<1>2. Coheres(r, c, s) /\ Current(r, c, s) /\ Refusable(r, c, s)
  BY NotedOrder DEF Tracked
<1> HIDE DEF q
<1>3. /\ starts(t) = starts(q) /\ refusals(t) = refusals(q)
      /\ \/ losses(t) = losses(q) /\ c.screen = "left"
         \/ losses(t) = losses(q) \cup {n}
      /\ replies(t) = replies(q) /\ \A i \in DOMAIN q : t[i] = q[i] /\ i < n
  <2>1. CASE r.sent[s] = sv.sent[s] /\ c.screen = "left"
    <3>1. t = q
      BY <2>1 DEF q
    <3>2. \A i \in DOMAIN q : i < n
      BY <1>1
    <3> QED BY <2>1, <3>1, <3>2
  <2>2. CASE r.sent[s] = Append(sv.sent[s], p)
    <3> DEFINE b == Append(q, p)
    <3>1. /\ starts(b) = starts(q) \cup {i \in {n} : p.kind = "game-start"}
          /\ refusals(b) = refusals(q) \cup {i \in {n} : p.kind = "rejected"}
          /\ losses(b) = losses(q) \cup {i \in {n} : p.kind = "opponent-disconnected"}
          /\ replies(b) = replies(q) \cup
                {i \in {n} : p.kind \in {"accepted", "rejected"} /\ p.id # NoId}
          /\ \A i \in DOMAIN q : b[i] = q[i] /\ i < n
      BY <1>1, Grown
    <3>2. t = b
      BY <2>2 DEF q
    <3> HIDE DEF b, n, t
    <3> QED BY <3>1, <3>2
  <2> QED BY <2>1, <2>2
<1>4. refusals(q) \subseteq DOMAIN q /\ replies(q) \subseteq DOMAIN q /\ starts(q) \subseteq DOMAIN q
  BY Placed
<1> HIDE DEF t, n
<1>5. /\ \A i \in refusals(t) : i \in refusals(q) /\ t[i] = q[i]
      /\ \A i \in replies(t) : i \in replies(q) /\ t[i] = q[i]
      /\ \A i \in starts(t) : i \in starts(q) /\ i < n
  BY <1>3, <1>4
<1>6. Expected(r, u, c, s)
  BY <1>3, <1>5 DEF Tracked, Expected, t, q
<1>7. Forewarned(r, u, c, s)
  <2>1. /\ \A i \in DOMAIN u : u[i].kind = "close" => c.screen = "left"
        /\ losses(q) = {} /\ \A i \in refusals(q) : q[i].reason # "no-active-match"
    BY DEF Tracked, Forewarned, q
  <2>2. \A i \in refusals(t) : t[i].reason # "no-active-match"
    BY <1>5, <2>1
  <2>3. \A g \in starts(t), j \in losses(t) : g < j
    BY <1>3, <1>5, <2>1
  <2>4. c.screen = "left" \/ losses(t) # {}
    BY <1>3
  <2> QED BY <2>1, <2>2, <2>3, <2>4 DEF Forewarned, t
<1> QED BY <1>2, <1>6, <1>7 DEF Tracked

\* A run that both clients are ready for starts: its start is all that is on its way of it.
LEMMA TrackedBegun ==
    ASSUME NEW sv, NEW x, NEW r, NEW s \in Seats, NEW u, NEW c \in ClientState,
           NEW first \in Seats,
           ServerSound(sv), SeatSound(x, u, c, s), s \in x.readySeats, x.sent[s] = sv.sent[s],
           x.run = sv.run, Begun(r, sv, first), HalvesKept(sv, s), Tracked(sv, u, c, s),
           sv.phase # "abandoned"
    PROVE  Tracked(r, u, c, s)
<1> DEFINE q == sv.sent[s]
           id == sv.run.id + 1
           turns == newTurns(first)
           p == [kind |-> "game-start", run |-> id, state |-> turns]
           t == r.sent[s]
           n == Len(q) + 1
<1>1. q \in Seq(Packet) /\ sv.run.id \in Nat /\ c.run \in Nat
  BY SeatTypes DEF ClientState
<1>2. /\ r.run.id = id /\ r.run.bufferedOpponentUpdate = <<>> /\ t = Append(q, p)
      /\ r.phase = "active" /\ sv.run.id < id /\ id \in Nat
  <2>1. r.phase = "active" /\ r.run = newRun(id, first)
    BY DEF Begun
  <2>2. t = Append(q, p)
    BY DEF Begun
  <2>3. r.run.id = id /\ r.run.bufferedOpponentUpdate = <<>>
    BY <2>1 DEF newRun
  <2>4. sv.run.id < id /\ id \in Nat
    BY <1>1
  <2> QED BY <2>1, <2>2, <2>3, <2>4
<1>3. p \in Packet /\ p.kind = "game-start" /\ p.state = turns
  BY <1>2, NewTurns DEF Packet, Started, TurnSound
<1> HIDE DEF p, turns, q
<1>4. /\ requests(u) = {} /\ starts(q) = {} /\ c.run = sv.run.id
      /\ c.screen = "waiting" \/ isTerminal(c.screen)
      /\ c.screen # "match" /\ c.screen \notin {"ready"}
  <2>1. /\ requests(u) = {} /\ starts(q) = {} /\ c.run = sv.run.id
        /\ c.screen = "waiting" \/ isTerminal(c.screen)
    BY DEF SeatSound, ReadyOnce, InOrder, q
  <2> QED BY <2>1 DEF isTerminal
<1>5. /\ starts(t) = {n} /\ reports(t) = reports(q) /\ refusals(t) = refusals(q)
      /\ losses(t) = losses(q) /\ replies(t) = replies(q) /\ t[n] = p
      /\ \A i \in DOMAIN q : t[i] = q[i] /\ i < n /\ i \in Nat
      /\ n \in Nat
  <2> DEFINE b == Append(q, p)
  <2>1. /\ starts(b) = starts(q) \cup {i \in {n} : p.kind = "game-start"}
        /\ reports(b) = reports(q) \cup {i \in {n} : p.kind = "accepted"}
        /\ refusals(b) = refusals(q) \cup {i \in {n} : p.kind = "rejected"}
        /\ losses(b) = losses(q) \cup {i \in {n} : p.kind = "opponent-disconnected"}
        /\ replies(b) = replies(q) \cup
                {i \in {n} : p.kind \in {"accepted", "rejected"} /\ p.id # NoId}
        /\ b[n] = p /\ n \in Nat
        /\ \A i \in DOMAIN q : b[i] = q[i] /\ i < n /\ i \in Nat
    BY <1>1, <1>3, Grown
  <2>2. t = b
    BY <1>2
  <2> HIDE DEF b, n, t
  <2> QED BY <1>3, <1>4, <2>1, <2>2
<1>6. /\ refusals(q) \subseteq DOMAIN q /\ replies(q) \subseteq DOMAIN q
      /\ reports(q) \subseteq DOMAIN q /\ losses(q) \subseteq DOMAIN q
  BY Placed
<1> HIDE DEF t, n
<1>7. /\ \A i \in refusals(t) : i \in refusals(q) /\ t[i] = q[i]
      /\ \A i \in replies(t) : i \in replies(q) /\ t[i] = q[i]
      /\ \A i \in reports(t) : i \in reports(q) /\ t[i] = q[i] /\ i < n /\ i \in Nat
  BY <1>5, <1>6
<1>8. updates(id, t) = {}
  <2>1. updates(id, t) \subseteq reports(t)
    BY Placed DEF id
  <2>2. ASSUME NEW i \in reports(t) PROVE t[i].run # id
    <3>1. i \in DOMAIN q /\ q[i].kind = "accepted" /\ t[i] = q[i]
      BY <1>6, <1>7, <2>2 DEF reports
    <3>2. q[i].run <= sv.run.id
      BY <3>1 DEF HalvesKept, q
    <3>3. q[i].run \in Nat
      BY <1>1, <3>1 DEF Packet, Started, Accepted, Rejected, Notice
    <3> QED BY <1>1, <3>1, <3>2, <3>3
  <2>3. \A i \in updates(id, t) : t[i].run = id
    BY DEF updates
  <2> QED BY <2>1, <2>2, <2>3
<1>9. Coheres(r, c, s)
  <2>1. \A i \in reports(t) : Coherent(t[i])
    BY <1>7 DEF Tracked, Coheres, q
  <2>2. Linked(r, s, 0, t[n].state)
    BY <1>2, <1>8 DEF Linked, t, Range
  <2> QED BY <1>4, <1>5, <2>1, <2>2 DEF Coheres, t
<1>10. Current(r, c, s)
  <2>1. ~isTerminal(c.screen) => reports(t) = {}
    BY <1>1, <1>4, <1>7 DEF Tracked, Current, q
  <2>2. \A g \in starts(t), i \in reports(t) : ~(g < i)
    BY <1>5, <1>7
  <2> QED BY <1>1, <1>2, <1>4, <1>5, <2>1, <2>2 DEF Current, t
<1>11. Expected(r, u, c, s)
  BY <1>4, <1>5, <1>7 DEF Tracked, Expected, t, q
<1>12. Forewarned(r, u, c, s)
  <2>1. /\ \A i \in DOMAIN u : u[i].kind = "close" => c.screen = "left"
        /\ losses(q) = {} /\ \A i \in refusals(q) : q[i].reason # "no-active-match"
    BY DEF Tracked, Forewarned, q
  <2> QED BY <1>2, <1>5, <1>7, <2>1 DEF Forewarned, t
<1>13. Refusable(r, c, s)
  BY <1>4, <1>7 DEF Tracked, Refusable, t, q
<1> QED BY <1>9, <1>10, <1>11, <1>12, <1>13 DEF Tracked

\* What is read from a client is one packet less for it to have sent.
LEMMA TrackedRead ==
    ASSUME NEW sv, NEW s \in Seats, NEW u \in Seq(Upward), NEW c, u # <<>>,
           Tracked(sv, u, c, s)
    PROVE  Tracked(sv, Tail(u), c, s)
<1> DEFINE v == Tail(u)
<1>1. /\ \A i \in requests(v) : i + 1 \in requests(u) /\ v[i] = u[i + 1]
      /\ \A i \in DOMAIN v : i + 1 \in DOMAIN u /\ v[i] = u[i + 1]
  BY ReadUp, Shortened
<1> HIDE DEF v
<1>2. Expected(sv, v, c, s)
  BY <1>1 DEF Tracked, Expected
<1>3. Forewarned(sv, v, c, s)
  BY <1>1 DEF Tracked, Forewarned
<1> QED BY <1>2, <1>3 DEF Tracked, v

\* The command that a seat has played is the one it is told of.
LEMMA PlayedCommand ==
    ASSUME NEW sv, NEW r, NEW a \in Seats, NEW id, NEW command, NEW shown, NEW hold,
           ServerSound(sv), Played(r, sv, a, id, command), Spread(sv, r, a, id, shown, hold)
    PROVE  command = shown
<1> DEFINE q == sv.sent[a]
           n == Len(q) + 1
           timed(x) == x.after.phase = "active"
           m(x) == update(sv, id, sv.run.revision, a, <<x>>, timed(x))
<1>1. r.sent[a] = Append(q, m(command)) /\ r.sent[a] = Append(q, m(shown))
  BY DEF Played, Spread
<1>2. q \in Seq(Packet)
  BY SeatTypes
<1>3. m(command).commands = <<command>> /\ m(shown).commands = <<shown>>
  BY DEF update
<1> HIDE DEF m, q
<1>4. Append(q, m(command))[n] = m(command) /\ Append(q, m(shown))[n] = m(shown)
  BY <1>2
<1>5. <<command>> = <<shown>>
  BY <1>1, <1>3, <1>4
<1> QED BY <1>5

\* A command is answered: with a refusal, or by playing it.
LEMMA TrackedAnswered ==
    ASSUME NEW sv, NEW r, NEW a \in Seats, NEW u \in Seq(Upward), u # <<>>,
           Head(u) \in Envelope, Answered(sv, r, a, Head(u)),
           NEW c \in ClientState, NEW d \in ClientState, NEW v \in Seq(Upward),
           ServerSound(sv), ServerSound(r), Halved(sv), Holding(sv),
           SeatSound(sv, u, c, a), ReplaySound(sv, u, c, a), Tracked(sv, u, c, a),
           SeatSound(sv, v, d, otherSeat(a)), ReplaySound(sv, v, d, otherSeat(a)),
           Tracked(sv, v, d, otherSeat(a))
    PROVE  Holding(r) /\ Tracked(r, u, c, a) /\ Tracked(r, v, d, otherSeat(a))
<1> DEFINE e == Head(u)
           o == otherSeat(a)
<1>1. /\ e \in Envelope /\ e.kind = "command" /\ 1 \in requests(u) /\ u[1] = e
      /\ o \in Seats /\ o # a /\ sv \in ServerState
  <2>1. e.kind = "command" /\ o \in Seats /\ o # a
    BY DEF Envelope, otherSeat, Seats
  <2> QED BY <2>1, ReadUp DEF ServerSound, RunSound
<1> HIDE DEF e
<1>2. CASE \E p \in Rejected : p.id = e.id /\ Justified(sv, a, e, p) /\ r = send(sv, a, p)
  <2>1. PICK p \in Rejected : p.id = e.id /\ Justified(sv, a, e, p) /\ r = send(sv, a, p)
    BY <1>2
  <2>2. p \in Packet /\ p.kind = "rejected"
    BY DEF Packet, Rejected
  <2>3. /\ Alike(r, sv) /\ r.sent[a] = Append(sv.sent[a], p) /\ r.sent[o] = sv.sent[o]
        /\ r.run = sv.run
    BY <1>1, <2>1, <2>2, Sent
  <2>4. r.phase = sv.phase
    BY <2>3 DEF Alike
  <2>5. Tracked(r, u, c, a)
    BY <2>1, <2>3, <2>4, TrackedRefused DEF e
  <2>6. Tracked(r, v, d, o)
    BY <1>1, <2>3, <2>4, TrackedKept
  <2>7. Holding(r)
    BY <2>3 DEF Holding
  <2> QED BY <2>5, <2>6, <2>7
<1>3. CASE \E x \in repeated(sv, a, e) : r = send(sv, a, x.reply)
  <2>1. PICK x \in repeated(sv, a, e) : r = send(sv, a, x.reply)
    BY <1>3
  <2>2. x \in Range(sv.run.commandCaches[a]) /\ x.id = e.id
    BY <1>1, <2>1, CachedReply
  <2>3. e.id \in sv.run.acceptedCommandIds[a]
    BY <2>2 DEF SeatSound, IdsFresh
  <2> QED BY <1>1, <2>3 DEF SeatSound, IdsFresh
<1>4. CASE /\ sv.phase = "active" /\ e.run = sv.run.id /\ e.expected = sv.run.revision
           /\ \E st \in outcomes(sv.run.state, a, e.type) :
                r = remembered(acceptClientCommand(sv, a, e.id, e.type, st), a, e)
  <2>1. PICK st \in outcomes(sv.run.state, a, e.type) :
            r = remembered(acceptClientCommand(sv, a, e.id, e.type, st), a, e)
    BY <1>4
  <2> DEFINE n == acceptClientCommand(sv, a, e.id, e.type, st)
             hold == a \in st.extraTurnInProgress /\ (buffering(sv) \/ e.type = "place")
  <2>2. /\ ServerSound(n) /\ InPhase(n, st) /\ Kept(r, n, a, e)
        /\ Spread(sv, n, a, e.id, [type |-> e.type, after |-> st], hold)
    <3> DEFINE k == remembered(n, a, e)
               command == [type |-> e.type, after |-> st]
    <3>1. ServerSound(n) /\ InPhase(n, st) /\ Kept(k, n, a, e)
      BY <1>1, <1>4, <2>1, CommandAccepted
    <3>2. Spread(sv, n, a, e.id, command, hold)
      BY <1>1, <1>4, <2>1, CommandAccepted
    <3>3. r = k
      BY <2>1
    <3> HIDE DEF n, k, hold
    <3> QED BY <3>1, <3>2, <3>3
  <2>3. a = sv.run.state.activeSeat
    BY <1>1, <1>4 DEF ReplaySound, Fitting
  <2>4. e.type \in CommandTypes
    BY <1>1 DEF Envelope
  <2> HIDE DEF n
  <2>5. \E command \in Command : Played(n, sv, a, e.id, command)
    BY <1>4, <2>2, <2>3, <2>4, AcceptedPlayed DEF InPhase
  <2>6. PICK command \in Command : Played(n, sv, a, e.id, command)
    BY <2>5
  <2>7. command.type = e.type
    <3> HIDE DEF hold
    <3>1. command = [type |-> e.type, after |-> st]
      BY <2>2, <2>6, PlayedCommand
    <3> QED BY <3>1
  <2>8. Holding(n) /\ \A s \in Seats : Progress(n, sv, s, a, e.id, command)
    BY <2>2, <2>6, PlayedProgress
  <2>9. Tracked(n, u, c, a)
    <3>1. ASSUME ~isTerminal(c.screen), c.pending # <<>>
          PROVE  /\ c.pending[1].id = e.id /\ c.pending[1].type = command.type
                 /\ c.run = sv.run.id
      <4>1. e.run = c.run
        BY <1>1 DEF SeatSound, IdsFresh
      <4> QED BY <1>1, <1>4, <2>7, <3>1, <4>1 DEF Tracked, Expected
    <3> QED BY <2>8, <3>1, TrackedProgress
  <2>10. Tracked(n, v, d, o)
    BY <1>1, <2>8, TrackedProgress
  <2>11. /\ r.run.id = n.run.id /\ r.run.revision = n.run.revision /\ r.phase = n.phase
         /\ r.run.bufferedOpponentUpdate = n.run.bufferedOpponentUpdate
         /\ r.sent[a] = n.sent[a] /\ r.sent[o] = n.sent[o]
    BY <2>2 DEF Kept
  <2>12. Holding(r)
    BY <2>8, <2>11 DEF Holding
  <2> QED BY <1>1, <2>9, <2>10, <2>11, <2>12, TrackedKept
<1> QED BY <1>2, <1>3, <1>4 DEF Answered, e

-----------------------------------------------------------------------------

(* What the clients' steps do to the order.                                  *)

\* A client that has seen the end of a run has all of its updates.
LEMMA EndReached ==
    ASSUME NEW sv, NEW s \in Seats, NEW u, NEW c \in ClientState, ServerSound(sv),
           SeatSound(sv, u, c, s), ReplaySound(sv, u, c, s), Tracked(sv, u, c, s),
           c.screen = "match", c.canonical.phase # "active"
    PROVE  /\ updates(sv.run.id, sv.sent[s]) = {} /\ reports(sv.sent[s]) = {}
           /\ sv.phase # "active"
           /\ sv.phase # "abandoned" => c.revision = sv.run.revision
<1> DEFINE q == sv.sent[s]
           U == updates(sv.run.id, q)
<1>1. /\ Chained(sv, s, c.revision, c.canonical) /\ Linked(sv, s, c.revision, c.canonical)
      /\ \A i \in reports(q) : q[i].run = sv.run.id
  BY DEF ReplaySound, Replayed, Tracked, Coheres, Current, isTerminal
<1>2. \A st : ~acts(c.canonical, st)
  BY DEF acts
<1>3. U = {}
  <2> SUFFICES ASSUME U # {} PROVE FALSE
    OBVIOUS
  <2>1. U \in SUBSET Nat
    <3>1. q \in Seq(Packet)
      BY SeatTypes
    <3>2. U \subseteq DOMAIN q
      BY DEF updates
    <3> QED BY <3>1, <3>2
  <2>2. PICK i \in U : \A k \in U : i <= k
    BY <2>1, FirstOf
  <2>3. q[i].from = c.revision
    BY <1>1, <2>2 DEF Chained
  <2> QED BY <1>1, <1>2, <2>3 DEF Linked
<1>4. reports(q) = {}
  BY <1>1, <1>3 DEF reports, updates
<1>5. sv.phase # "abandoned" => c.revision = sv.run.revision
  <2> SUFFICES ASSUME sv.phase # "abandoned" PROVE c.revision = sv.run.revision
    OBVIOUS
  <2>1. c.revision = told(sv, s)
    BY <1>1, <1>3 DEF Chained
  <2>2. CASE \E b \in Range(sv.run.bufferedOpponentUpdate) : b.seat # s /\ b.from = told(sv, s)
    BY <1>1, <1>2, <2>1, <2>2 DEF Linked
  <2> QED BY <2>1, <2>2, ToldTo
<1>6. sv.phase # "active"
  <2> SUFFICES ASSUME sv.phase = "active" PROVE FALSE
    OBVIOUS
  <2>1. c.canonical = sv.run.state
    BY <1>1, <1>5 DEF Chained
  <2> QED BY <2>1 DEF ServerSound, RunSound
<1> QED BY <1>3, <1>4, <1>5, <1>6

\* A client is ready, for the first run or the next.
LEMMA TrackedSentReady ==
    ASSUME NEW sv, NEW s \in Seats, NEW u \in Seq(Upward), NEW c \in ClientState, NEW d,
           ServerSound(sv), SeatSound(sv, u, c, s), ReplaySound(sv, u, c, s),
           Tracked(sv, u, c, s), d = [c EXCEPT !.screen = "waiting"],
           \/ c.screen = "ready"
           \/ c.screen = "match" /\ c.canonical.phase = "finished"
    PROVE  Tracked(sv, Append(u, [kind |-> "ready", ready |-> TRUE]), d, s)
<1> DEFINE q == sv.sent[s]
           x == [kind |-> "ready", ready |-> TRUE]
           v == Append(u, x)
<1>1. /\ d.screen = "waiting" /\ d.run = c.run /\ d.pending = c.pending
      /\ d.revision = c.revision /\ c.run \in Nat /\ sv.run.id \in Nat
      /\ ~isTerminal(c.screen) /\ ~isTerminal(d.screen) /\ c.screen # "left"
      /\ q \in Seq(Packet) /\ c.revision \in Nat /\ sv.run.revision \in Nat
  BY SeatTypes DEF ClientState, isTerminal
<1>2. x \in Upward /\ x.kind = "ready"
  BY DEF Upward
<1> HIDE DEF x
<1>3. /\ requests(v) = requests(u)
      /\ \A i \in requests(u) : v[i] = u[i]
      /\ \A i \in DOMAIN v : (i \in DOMAIN u /\ v[i] = u[i]) \/ v[i] = x
  <2>1. /\ DOMAIN v = DOMAIN u \cup {Len(u) + 1} /\ v[Len(u) + 1] = x
        /\ \A i \in DOMAIN u : v[i] = u[i]
    BY <1>2
  <2>2. requests(v) = requests(u) \cup {i \in {Len(u) + 1} : x.kind = "command"}
    BY <1>2, SentUp
  <2>3. requests(u) \subseteq DOMAIN u
    BY DEF requests
  <2> HIDE DEF v
  <2> QED BY <1>2, <2>1, <2>2, <2>3
<1> HIDE DEF q, v
<1>4. c.screen = "ready" => sv.run.id = NoRun /\ c.run = NoRun
  <2>1. c.screen = "ready" => sv.run.id = NoRun /\ c.run <= sv.run.id
    BY DEF SeatSound, RunsFit
  <2> QED BY <1>1, <2>1 DEF NoRun
<1>5. c.screen = "match" =>
          /\ updates(sv.run.id, q) = {} /\ reports(q) = {}
          /\ sv.phase # "active"
          /\ sv.phase # "abandoned" => c.revision = sv.run.revision
  BY EndReached DEF q
<1>6. Coheres(sv, d, s)
  BY <1>1 DEF Tracked, Coheres
<1>7. Current(sv, d, s)
  <2>1. c.screen = "match" => c.run = sv.run.id
    BY DEF SeatSound, RunsFit
  <2>2. Current(sv, c, s)
    BY DEF Tracked
  <2>3. CASE c.screen = "match"
    BY <1>1, <1>5, <2>1, <2>2, <2>3 DEF Current, q
  <2>4. CASE c.screen = "ready"
    BY <1>1, <1>4, <2>2, <2>4 DEF Current, q
  <2> QED BY <2>3, <2>4
<1>8. Expected(sv, v, d, s)
  BY <1>1, <1>3 DEF Tracked, Expected, q
<1>9. Forewarned(sv, v, d, s)
  <2>1. \A i \in DOMAIN v : v[i].kind # "close"
    BY <1>1, <1>2, <1>3 DEF Tracked, Forewarned
  <2> QED BY <1>1, <2>1 DEF Tracked, Forewarned, q
<1>10. Refusable(sv, d, s)
  <2> SUFFICES ASSUME NEW i \in refusals(q), q[i].reason # "no-active-match"
               PROVE  \/ q[i].revision = c.revision
                      \/ q[i].reason = "stale-revision" /\ sv.phase = "abandoned"
    BY <1>1 DEF Refusable, q
  <2>1. q[i].revision \in Nat
    <3>1. q[i] \in Packet /\ q[i].kind = "rejected"
      BY <1>1 DEF refusals
    <3> QED BY <3>1 DEF Packet, Started, Accepted, Rejected, Notice
  <2>2. CASE c.screen = "ready"
    <3>1. i \in replies(q) /\ c.pending = <<>>
      BY <1>1, <1>4, <2>2 DEF Tracked, Expected, q
    <3> QED BY <1>1, <3>1 DEF SeatSound, Awaited, q
  <2>3. CASE c.screen = "match" /\ q[i].reason # "stale-revision"
    <3>1. Exact(sv, c, s, i)
      BY <2>3 DEF Tracked, Refusable, q
    <3> QED BY <1>5, <2>3, <3>1 DEF Exact, q
  <2>4. CASE c.screen = "match" /\ q[i].reason = "stale-revision" /\ sv.phase # "abandoned"
    <3>1. Near(sv, c, s, i)
      BY <2>4 DEF Tracked, Refusable, q
    <3>2. c.revision <= q[i].revision /\ q[i].revision <= sv.run.revision
      BY <3>1 DEF Near, q
    <3> QED BY <1>1, <1>5, <2>1, <2>4, <3>2
  <2> QED BY <2>2, <2>3, <2>4
<1> QED BY <1>6, <1>7, <1>8, <1>9, <1>10 DEF Tracked, v, x

\* A client asks for a command.
LEMMA TrackedSentCommand ==
    ASSUME NEW sv, NEW s \in Seats, NEW u \in Seq(Upward), NEW c, NEW d, NEW x \in Envelope,
           NEW p, SeatSound(sv, u, c, s), Tracked(sv, u, c, s),
           c.screen = "match", c.pending = <<>>, d.screen = c.screen, d.run = c.run,
           d.revision = c.revision, d.canonical = c.canonical, d.pending = <<p>>,
           x.id = p.id, x.type = p.type
    PROVE  Tracked(sv, Append(u, x), d, s)
<1> DEFINE v == Append(u, x)
           n == Len(u) + 1
<1>1. x \in Upward /\ x.kind = "command" /\ ~isTerminal(c.screen) /\ d.pending[1] = p
  <2>1. x \in Upward /\ x.kind = "command"
    BY DEF Upward, Envelope
  <2>2. ~isTerminal(c.screen)
    BY DEF isTerminal
  <2> QED BY <2>1, <2>2
<1>2. requests(u) = {} /\ replies(sv.sent[s]) = {} /\ c.run # NoRun
  BY <1>1 DEF SeatSound, Awaited, Tracked, Current
<1>3. requests(v) = {n} /\ v[n] = x
  <2>1. requests(v) = requests(u) \cup {i \in {n} : x.kind = "command"} /\ v[n] = x
    BY <1>1, SentUp
  <2> HIDE DEF v, n
  <2> QED BY <1>1, <1>2, <2>1
<1>4. \A i \in DOMAIN v : (i \in DOMAIN u /\ v[i] = u[i]) \/ v[i] = x
  BY <1>1
<1> HIDE DEF v, n
<1>5. Coheres(sv, d, s)
  BY DEF Tracked, Coheres
<1>6. Current(sv, d, s)
  BY DEF Tracked, Current
<1>7. Expected(sv, v, d, s)
  BY <1>1, <1>2, <1>3 DEF Tracked, Expected
<1>8. Forewarned(sv, v, d, s)
  <2>1. \A i \in DOMAIN v : v[i].kind = "close" => c.screen = "left"
    BY <1>1, <1>4 DEF Tracked, Forewarned
  <2> QED BY <2>1 DEF Tracked, Forewarned
<1>9. Refusable(sv, d, s)
  BY DEF Tracked, Refusable, Exact, Near
<1> QED BY <1>5, <1>6, <1>7, <1>8, <1>9 DEF Tracked, v

\* A client leaves, and what it sent last is lost.
LEMMA TrackedLeft ==
    ASSUME NEW sv, NEW s \in Seats, NEW u \in Seq(Upward), NEW c, NEW d, NEW n \in 0 .. Len(u),
           Tracked(sv, u, c, s), d.screen = "left", d.run = c.run
    PROVE  Tracked(sv, Append(SubSeq(u, 1, n), [kind |-> "close"]), d, s)
<1> DEFINE x == [kind |-> "close"]
           k == SubSeq(u, 1, n)
           v == Append(k, x)
<1>1. x \in Upward /\ x.kind = "close"
  BY DEF Upward
<1>2. /\ k \in Seq(Upward) /\ DOMAIN k \subseteq DOMAIN u
      /\ \A i \in DOMAIN k : k[i] = u[i]
  OBVIOUS
<1> HIDE DEF k, x
<1>3. requests(v) = requests(k) \cup {i \in {Len(k) + 1} : x.kind = "command"}
  BY <1>1, <1>2, SentUp
<1> HIDE DEF v
<1>4. requests(v) \subseteq requests(u)
  BY <1>1, <1>2, <1>3 DEF requests
<1>5. isTerminal(d.screen) /\ d.screen # "match" /\ d.screen # "waiting"
  BY DEF isTerminal
<1>6. Coheres(sv, d, s)
  BY <1>5 DEF Tracked, Coheres
<1>7. Current(sv, d, s)
  BY <1>5 DEF Tracked, Current
<1>8. Expected(sv, v, d, s)
  BY <1>4, <1>5 DEF Tracked, Expected
<1>9. Forewarned(sv, v, d, s)
  BY DEF Tracked, Forewarned
<1>10. Refusable(sv, d, s)
  BY <1>5 DEF Refusable
<1> QED BY <1>6, <1>7, <1>8, <1>9, <1>10 DEF Tracked, v, k, x

\* The start of a run arrives: the updates behind it are the run's.
LEMMA TrackedStarted ==
    ASSUME NEW sv, NEW r, NEW s \in Seats, NEW u \in Seq(Upward), NEW c \in ClientState,
           ServerSound(sv), SeatSound(sv, u, c, s), ReplaySound(sv, u, c, s),
           Tracked(sv, u, c, s), sv.sent[s] # <<>>, c.screen # "left",
           Head(sv.sent[s]).kind = "game-start",
           r.sent[s] = Tail(sv.sent[s]), r.run = sv.run, r.phase = sv.phase
    PROVE  Tracked(r, u, createOnlineAuthority(Head(sv.sent[s])), s)
<1> DEFINE q == sv.sent[s]
           t == r.sent[s]
           m == Head(q)
           d == createOnlineAuthority(m)
           U == updates(sv.run.id, q)
<1>1. /\ q \in Seq(Packet) /\ c.run \in Nat /\ sv.run.id \in Nat
  BY SeatTypes DEF ClientState
<1>2. /\ d.screen = "match" /\ d.run = m.run /\ d.revision = 0 /\ d.canonical = m.state
      /\ d.pending = <<>>
  BY DEF createOnlineAuthority
<1> HIDE DEF d
<1>3. /\ starts(t) = {i \in Nat \ {0} : i + 1 \in starts(q)}
      /\ reports(t) = {i \in Nat \ {0} : i + 1 \in reports(q)}
      /\ refusals(t) = {i \in Nat \ {0} : i + 1 \in refusals(q)}
      /\ losses(t) = {i \in Nat \ {0} : i + 1 \in losses(q)}
      /\ \A i \in DOMAIN t : t[i] = q[i + 1] /\ i \in Nat \ {0}
      /\ DOMAIN q \subseteq Nat \ {0} /\ q[1] = m
      /\ 1 \in starts(q) /\ 1 \notin losses(q)
  <2>1. m.kind = "game-start"
    OBVIOUS
  <2> QED BY <1>1, <2>1, Dropped
<1>4. /\ refusals(t) \subseteq DOMAIN t /\ reports(t) \subseteq DOMAIN t
      /\ losses(q) \subseteq DOMAIN q
  BY Placed
<1>5. Linked(r, s, 0, m.state)
  <2>1. Linked(sv, s, 0, m.state)
    BY <1>3 DEF Tracked, Coheres
  <2> HIDE DEF m
  <2> QED BY <1>1, <2>1, LinkShrunk
<1> HIDE DEF t, q, m
<1>6. /\ starts(q) = {1} /\ requests(u) = {} /\ replies(q) = {} /\ starts(t) = {}
      /\ m.run = sv.run.id /\ m.run # NoRun
  <2>1. starts(q) = {1}
    BY <1>3 DEF SeatSound, ReadyOnce, q
  <2>2. requests(u) = {} /\ m.run = sv.run.id /\ c.run < sv.run.id
    BY <1>3 DEF SeatSound, InOrder, RunsFit, q
  <2>3. replies(q) = {}
    <3>1. \A j \in replies(q) : j < 1 /\ j \in Nat \ {0}
      BY <1>3, Placed DEF SeatSound, InOrder, q
    <3> QED BY <3>1
  <2>4. starts(t) = {}
    BY <1>3, <2>1
  <2> QED BY <1>1, <2>1, <2>2, <2>3, <2>4 DEF NoRun
<1>7. refusals(t) = {} /\ replies(t) = {}
  <2>1. refusals(q) \subseteq replies(q)
    BY DEF Tracked, Expected, q
  <2>2. replies(t) = {i \in Nat \ {0} : i + 1 \in replies(q)}
    BY <1>1, Dropped DEF t, q
  <2> QED BY <1>3, <1>6, <2>1, <2>2
<1>8. Coheres(r, d, s)
  <2>1. \A i \in reports(t) : Coherent(t[i])
    BY <1>3, <1>4 DEF Tracked, Coheres, q
  <2> QED BY <1>2, <1>5, <1>6, <2>1 DEF Coheres, t
<1>9. Current(r, d, s)
  <2>1. ASSUME NEW i \in reports(t) PROVE t[i].run = sv.run.id
    <3>1. t[i] = q[i + 1] /\ i + 1 \in reports(q) /\ 1 < i + 1
      BY <1>3, <1>4, <2>1
    <3> QED BY <1>6, <3>1 DEF Tracked, Current, q
  <2>2. \A i \in reports(t) : t[i].run = r.run.id
    BY <2>1
  <2>3. d.run = r.run.id /\ ~(d.run < r.run.id)
    BY <1>1, <1>2, <1>6
  <2> QED BY <1>2, <1>6, <2>2, <2>3 DEF Current, t
<1>10. Expected(r, u, d, s)
  BY <1>2, <1>6, <1>7 DEF Expected, t
<1>11. Forewarned(r, u, d, s)
  <2>1. /\ \A i \in DOMAIN u : u[i].kind # "close"
        /\ losses(q) # {} => sv.phase = "abandoned"
        /\ sv.phase = "abandoned" => losses(q) # {}
    BY <1>6 DEF Tracked, Forewarned, q
  <2>2. losses(t) # {} <=> losses(q) # {}
    <3>1. ASSUME NEW j \in losses(q) PROVE j - 1 \in losses(t)
      <4>1. j \in Nat \ {0} /\ j # 1
        BY <1>3, <1>4, <3>1
      <4>2. j - 1 \in Nat \ {0} /\ (j - 1) + 1 = j
        BY <4>1
      <4> QED BY <1>3, <3>1, <4>2
    <3> QED BY <1>3, <3>1
  <2> QED BY <1>6, <1>7, <2>1, <2>2 DEF Forewarned, t
<1>12. Refusable(r, d, s)
  BY <1>7 DEF Refusable, t
<1> QED BY <1>8, <1>9, <1>10, <1>11, <1>12 DEF Tracked, d, m, q

\* What a refusal that is still on its way names, when the packet before it has arrived.
LEMMA RefusalShrunk ==
    ASSUME NEW sv, NEW r, NEW s \in Seats, NEW c, NEW d, NEW i \in Nat \ {0},
           sv.sent[s] \in Seq(Packet), sv.sent[s] # <<>>,
           r.sent[s] = Tail(sv.sent[s]), r.run = sv.run,
           i + 1 \in refusals(sv.sent[s]),
           IF 1 \in updates(sv.run.id, sv.sent[s])
           THEN d.revision = Head(sv.sent[s]).to
           ELSE d.revision = c.revision
    PROVE  /\ Exact(sv, c, s, i + 1) => Exact(r, d, s, i)
           /\ Near(sv, c, s, i + 1) => Near(r, d, s, i)
<1> DEFINE q == sv.sent[s]
           t == r.sent[s]
           U == updates(sv.run.id, q)
           W == updates(sv.run.id, t)
           h == i + 1
<1>1. /\ W = {k \in Nat \ {0} : k + 1 \in U} /\ U \subseteq Nat \ {0} /\ q[1] = Head(q)
      /\ \A k \in W : t[k] = q[k + 1]
      /\ t[i] = q[h]
  <2> DEFINE b == Tail(q)
  <2>1. /\ updates(sv.run.id, b) = {k \in Nat \ {0} : k + 1 \in updates(sv.run.id, q)}
        /\ refusals(b) = {k \in Nat \ {0} : k + 1 \in refusals(q)}
        /\ \A k \in DOMAIN b : b[k] = q[k + 1]
        /\ DOMAIN q \subseteq Nat \ {0} /\ q[1] = Head(q)
    BY Dropped
  <2>2. t = b
    OBVIOUS
  <2> HIDE DEF q, b, t
  <2>3. /\ refusals(t) \subseteq DOMAIN t /\ W \subseteq DOMAIN t /\ U \subseteq DOMAIN q
        /\ i \in refusals(t)
    <3>1. i \in refusals(t)
      BY <2>1, <2>2 DEF q
    <3> QED BY <3>1, Placed
  <2> QED BY <2>1, <2>2, <2>3 DEF U, W, h
<1>2. updates(r.run.id, t) = W /\ r.run.revision = sv.run.revision
  OBVIOUS
<1> HIDE DEF q, t, U, W
<1>3. /\ \A k \in U : k = 1 \/ (k - 1 \in W /\ (k - 1) + 1 = k)
      /\ \A k \in W : k \in Nat \ {0} /\ k + 1 \in U /\ t[k] = q[k + 1]
      /\ \A k \in U : k \in Nat \ {0}
      /\ h \in Nat /\ 1 < h /\ i < h
  BY <1>1
<1>4. IF 1 \in U THEN d.revision = q[1].to ELSE d.revision = c.revision
  BY <1>1 DEF q, U
<1>5. ASSUME Exact(sv, c, s, h) PROVE Exact(r, d, s, i)
  <2>1. /\ (\A k \in U : h < k) => q[h].revision = c.revision
        /\ \A k \in U : k < h /\ (\A l \in U : l <= k \/ h < l) => q[k].to = q[h].revision
    BY <1>5 DEF Exact, q, U
  <2>2. ASSUME \A k \in W : i < k PROVE t[i].revision = d.revision
    <3>1. \A k \in U : k = 1 \/ h < k
      BY <1>3, <2>2
    <3>2. CASE 1 \in U
      <4>1. \A l \in U : l <= 1 \/ h < l
        BY <1>3, <3>1
      <4>2. q[1].to = q[h].revision
        BY <1>3, <2>1, <3>2, <4>1
      <4> QED BY <1>1, <1>4, <3>2, <4>2
    <3>3. CASE 1 \notin U
      <4>1. \A k \in U : h < k
        BY <3>1, <3>3
      <4> QED BY <1>1, <1>4, <2>1, <3>3, <4>1
    <3> QED BY <3>2, <3>3
  <2>3. ASSUME NEW k \in W, k < i, \A l \in W : l <= k \/ i < l PROVE t[k].to = t[i].revision
    <3>1. k + 1 \in U /\ k + 1 < h /\ t[k] = q[k + 1] /\ k \in Nat
      BY <1>3, <2>3
    <3>2. ASSUME NEW l \in U PROVE l <= k + 1 \/ h < l
      <4>1. l = 1 \/ (l - 1 \in W /\ l \in Nat)
        BY <1>3
      <4>2. l - 1 \in W => l - 1 <= k \/ i < l - 1
        BY <2>3
      <4> QED BY <3>1, <4>1, <4>2
    <3>3. q[k + 1].to = q[h].revision
      BY <2>1, <3>1, <3>2
    <3> QED BY <1>1, <3>1, <3>3
  <2> QED BY <1>2, <2>2, <2>3 DEF Exact, t
<1>6. ASSUME Near(sv, c, s, h) PROVE Near(r, d, s, i)
  <2>1. /\ c.revision <= q[h].revision /\ q[h].revision <= sv.run.revision
        /\ \A k \in U : k < h => q[k].to <= q[h].revision
        /\ \A k \in U : h < k =>
            \/ q[h].revision <= q[k].from
            \/ q[k].seat = otherSeat(s) /\ q[h].revision <= q[k].to
    BY <1>6 DEF Near, q, U
  <2>2. d.revision <= t[i].revision /\ t[i].revision <= r.run.revision
    BY <1>1, <1>2, <1>3, <1>4, <2>1
  <2>3. ASSUME NEW k \in W, k < i PROVE t[k].to <= t[i].revision
    <3>1. k + 1 \in U /\ k + 1 < h /\ t[k] = q[k + 1]
      BY <1>3, <2>3
    <3> QED BY <1>1, <2>1, <3>1
  <2>4. ASSUME NEW k \in W, i < k
        PROVE  \/ t[i].revision <= t[k].from
               \/ t[k].seat = otherSeat(s) /\ t[i].revision <= t[k].to
    <3>1. k + 1 \in U /\ h < k + 1 /\ t[k] = q[k + 1]
      BY <1>3, <2>4
    <3> QED BY <1>1, <2>1, <3>1
  <2> QED BY <1>2, <2>2, <2>3, <2>4 DEF Near, t
<1> QED BY <1>5, <1>6

\* A packet that starts no run arrives.
LEMMA TrackedArrived ==
    ASSUME NEW sv, NEW r, NEW s \in Seats, NEW u, NEW c, NEW d,
           ServerSound(sv), SeatSound(sv, u, c, s), Tracked(sv, u, c, s),
           sv.sent[s] # <<>>, r.sent[s] = Tail(sv.sent[s]), r.run = sv.run, r.phase = sv.phase,
           d.run = c.run,
           d.screen = c.screen \/ (isTerminal(d.screen) /\ ~isTerminal(c.screen)),
           ~isTerminal(d.screen) =>
                /\ Head(sv.sent[s]).kind # "game-start"
                /\ d.pending = c.pending \/ d.pending = <<>>
                /\ Head(sv.sent[s]).kind = "opponent-disconnected" => c.run = NoRun
                /\ IF 1 \in updates(sv.run.id, sv.sent[s])
                   THEN /\ c.screen = "match" /\ d.revision = Head(sv.sent[s]).to
                        /\ d.canonical = Last(Head(sv.sent[s]).commands).after
                   ELSE d.revision = c.revision /\ d.canonical = c.canonical
    PROVE  Tracked(r, u, d, s)
<1> DEFINE q == sv.sent[s]
           t == r.sent[s]
           m == Head(q)
           U == updates(sv.run.id, q)
<1>1. q \in Seq(Packet)
  BY SeatTypes
<1>2. /\ starts(t) = {i \in Nat \ {0} : i + 1 \in starts(q)}
      /\ reports(t) = {i \in Nat \ {0} : i + 1 \in reports(q)}
      /\ refusals(t) = {i \in Nat \ {0} : i + 1 \in refusals(q)}
      /\ losses(t) = {i \in Nat \ {0} : i + 1 \in losses(q)}
      /\ replies(t) = {i \in Nat \ {0} : i + 1 \in replies(q)}
      /\ \A i \in DOMAIN t : t[i] = q[i + 1] /\ i \in Nat \ {0}
      /\ DOMAIN q \subseteq Nat \ {0} /\ q[1] = m
      /\ 1 \in starts(q) <=> m.kind = "game-start"
      /\ 1 \in losses(q) <=> m.kind = "opponent-disconnected"
  <2> DEFINE b == Tail(q)
  <2>1. q # <<>> /\ t = b
    OBVIOUS
  <2> HIDE DEF q, t
  <2>2. /\ starts(b) = {i \in Nat \ {0} : i + 1 \in starts(q)}
        /\ reports(b) = {i \in Nat \ {0} : i + 1 \in reports(q)}
        /\ refusals(b) = {i \in Nat \ {0} : i + 1 \in refusals(q)}
        /\ losses(b) = {i \in Nat \ {0} : i + 1 \in losses(q)}
        /\ replies(b) = {i \in Nat \ {0} : i + 1 \in replies(q)}
        /\ \A i \in DOMAIN b : b[i] = q[i + 1] /\ i \in Nat \ {0}
        /\ DOMAIN q \subseteq Nat \ {0} /\ q[1] = m
        /\ 1 \in starts(q) <=> m.kind = "game-start"
        /\ 1 \in losses(q) <=> m.kind = "opponent-disconnected"
    BY <1>1, <2>1, Dropped
  <2> HIDE DEF b
  <2> QED BY <2>1, <2>2
<1>3. /\ starts(t) \subseteq DOMAIN t /\ reports(t) \subseteq DOMAIN t
      /\ refusals(t) \subseteq DOMAIN t /\ losses(t) \subseteq DOMAIN t
      /\ replies(t) \subseteq DOMAIN t
      /\ starts(q) \subseteq DOMAIN q /\ losses(q) \subseteq DOMAIN q
  BY Placed
<1>4. ASSUME NEW base, NEW canonical, Linked(sv, s, base, canonical)
      PROVE  /\ Linked(r, s, base, canonical)
             /\ 1 \in U => Linked(r, s, m.to, Last(m.commands).after)
  BY <1>1, <1>4, LinkShrunk
<1>5. ~isTerminal(d.screen) =>
          /\ d.screen = c.screen /\ ~isTerminal(c.screen)
          /\ m.kind # "game-start"
          /\ d.pending = c.pending \/ d.pending = <<>>
          /\ m.kind = "opponent-disconnected" => c.run = NoRun
          /\ IF 1 \in U
             THEN /\ c.screen = "match" /\ d.revision = m.to
                  /\ d.canonical = Last(m.commands).after
             ELSE d.revision = c.revision /\ d.canonical = c.canonical
  OBVIOUS
<1> HIDE DEF t, U, m, q
<1>6. /\ \A i \in starts(t) : i + 1 \in starts(q) /\ t[i] = q[i + 1] /\ i \in Nat \ {0}
      /\ \A i \in reports(t) : i + 1 \in reports(q) /\ t[i] = q[i + 1] /\ i \in Nat \ {0}
      /\ \A i \in refusals(t) : i + 1 \in refusals(q) /\ t[i] = q[i + 1] /\ i \in Nat \ {0}
      /\ \A i \in losses(t) : i + 1 \in losses(q) /\ t[i] = q[i + 1] /\ i \in Nat \ {0}
      /\ \A i \in replies(t) : i + 1 \in replies(q) /\ t[i] = q[i + 1] /\ i \in Nat \ {0}
      /\ \A i \in starts(q) : i \in Nat /\ (i = 1 \/ i - 1 \in starts(t))
      /\ \A i \in losses(q) : i \in Nat /\ (i = 1 \/ i - 1 \in losses(t))
  <2>1. /\ \A i \in starts(t) : i + 1 \in starts(q) /\ t[i] = q[i + 1] /\ i \in Nat \ {0}
        /\ \A i \in reports(t) : i + 1 \in reports(q) /\ t[i] = q[i + 1] /\ i \in Nat \ {0}
        /\ \A i \in refusals(t) : i + 1 \in refusals(q) /\ t[i] = q[i + 1] /\ i \in Nat \ {0}
    BY <1>2, <1>3
  <2>2. /\ \A i \in losses(t) : i + 1 \in losses(q) /\ t[i] = q[i + 1] /\ i \in Nat \ {0}
        /\ \A i \in replies(t) : i + 1 \in replies(q) /\ t[i] = q[i + 1] /\ i \in Nat \ {0}
    BY <1>2, <1>3
  <2>3. \A i \in DOMAIN q : i \in Nat /\ (i = 1 \/ (i - 1 \in Nat \ {0} /\ (i - 1) + 1 = i))
    BY <1>2
  <2>4. \A i \in starts(q) : i \in Nat /\ (i = 1 \/ i - 1 \in starts(t))
    BY <1>2, <1>3, <2>3
  <2>5. \A i \in losses(q) : i \in Nat /\ (i = 1 \/ i - 1 \in losses(t))
    BY <1>2, <1>3, <2>3
  <2> QED BY <2>1, <2>2, <2>4, <2>5
<1>7. /\ ~isTerminal(d.screen) => 1 \notin starts(q)
      /\ \A j \in losses(q) : j = 1 => starts(q) = {}
  <2>1. \A g \in starts(q), j \in losses(q) : g < j
    BY DEF Tracked, Forewarned, q
  <2>2. \A g \in starts(q) : g \in Nat \ {0}
    BY <1>2, <1>3
  <2> QED BY <1>2, <1>5, <2>1, <2>2
<1>8. Coheres(r, d, s)
  <2>1. /\ \A i \in reports(q) : Coherent(q[i])
        /\ c.screen = "match" => Linked(sv, s, c.revision, c.canonical)
        /\ \A g \in starts(q) : Linked(sv, s, 0, q[g].state)
    BY DEF Tracked, Coheres, q
  <2>2. \A i \in reports(t) : Coherent(t[i])
    BY <1>6, <2>1
  <2>3. d.screen = "match" => Linked(r, s, d.revision, d.canonical)
    <3>1. d.screen = "match" => ~isTerminal(d.screen)
      BY DEF isTerminal
    <3> QED BY <1>4, <1>5, <2>1, <3>1
  <2>4. \A g \in starts(t) : Linked(r, s, 0, t[g].state)
    <3> SUFFICES ASSUME NEW g \in starts(t) PROVE Linked(r, s, 0, t[g].state)
      OBVIOUS
    <3>1. Linked(sv, s, 0, q[g + 1].state) /\ t[g] = q[g + 1]
      BY <1>6, <2>1
    <3> QED BY <1>4, <3>1
  <2> QED BY <2>2, <2>3, <2>4 DEF Coheres, t
<1>9. Current(r, d, s)
  <2>1. /\ ~isTerminal(c.screen) =>
            /\ c.run < sv.run.id => starts(q) # {}
            /\ \A i \in reports(q) :
                q[i].run = sv.run.id /\ (c.screen # "match" => c.run < sv.run.id)
        /\ \A g \in starts(q) : \A i \in reports(q) : g < i => q[i].run = sv.run.id
        /\ c.screen = "match" => c.run # NoRun
        /\ c.screen = "waiting" /\ c.run = sv.run.id /\ c.run # NoRun =>
            /\ sv.phase # "active"
            /\ sv.phase # "abandoned" => c.revision = sv.run.revision
    BY DEF Tracked, Current, q
  <2>2. ~isTerminal(d.screen) =>
            /\ d.run < r.run.id => starts(t) # {}
            /\ \A i \in reports(t) :
                t[i].run = r.run.id /\ (d.screen # "match" => d.run < r.run.id)
    <3> SUFFICES ASSUME ~isTerminal(d.screen)
                 PROVE  /\ d.run < r.run.id => starts(t) # {}
                        /\ \A i \in reports(t) :
                            t[i].run = r.run.id /\ (d.screen # "match" => d.run < r.run.id)
      OBVIOUS
    <3>1. d.run < r.run.id => starts(t) # {}
      BY <1>5, <1>6, <1>7, <2>1
    <3>2. \A i \in reports(t) : t[i].run = r.run.id /\ (d.screen # "match" => d.run < r.run.id)
      BY <1>5, <1>6, <2>1
    <3> QED BY <3>1, <3>2
  <2>3. \A g \in starts(t) : \A i \in reports(t) : g < i => t[i].run = r.run.id
    <3> SUFFICES ASSUME NEW g \in starts(t), NEW i \in reports(t), g < i
                 PROVE  t[i].run = r.run.id
      OBVIOUS
    <3>1. g + 1 \in starts(q) /\ i + 1 \in reports(q) /\ g + 1 < i + 1 /\ t[i] = q[i + 1]
      BY <1>6
    <3> QED BY <2>1, <3>1
  <2>4. d.screen \in {"match", "waiting"} => ~isTerminal(d.screen)
    BY DEF isTerminal
  <2>5. d.screen = "match" => d.run # NoRun
    BY <1>5, <2>1, <2>4
  <2>6. d.screen = "waiting" /\ d.run = r.run.id /\ d.run # NoRun =>
            /\ r.phase # "active"
            /\ r.phase # "abandoned" => d.revision = r.run.revision
    BY <1>5, <2>1, <2>4
  <2> QED BY <2>2, <2>3, <2>5, <2>6 DEF Current, t
<1>10. Expected(r, u, d, s)
  <2>1. /\ requests(u) # {} => c.run # NoRun
        /\ refusals(q) \subseteq replies(q)
        /\ ~isTerminal(c.screen) /\ c.pending # <<>> =>
            /\ c.run # NoRun
            /\ \A i \in requests(u) : u[i].id = c.pending[1].id /\ u[i].type = c.pending[1].type
            /\ \A i \in replies(q) :
                /\ q[i].id = c.pending[1].id /\ q[i].run = c.run
                /\ q[i].kind = "accepted" =>
                    q[i].seat = s /\ Last(q[i].commands).type = c.pending[1].type
    BY DEF Tracked, Expected, q
  <2>2. refusals(t) \subseteq replies(t)
    BY <1>2, <2>1
  <2>3. ASSUME ~isTerminal(d.screen), d.pending # <<>>
        PROVE  /\ d.run # NoRun
               /\ \A i \in requests(u) :
                    u[i].id = d.pending[1].id /\ u[i].type = d.pending[1].type
               /\ \A i \in replies(t) :
                    /\ t[i].id = d.pending[1].id /\ t[i].run = d.run
                    /\ t[i].kind = "accepted" =>
                        t[i].seat = s /\ Last(t[i].commands).type = d.pending[1].type
    <3>1. d.pending = c.pending /\ ~isTerminal(c.screen)
      BY <1>5, <2>3
    <3> QED BY <1>6, <2>1, <2>3, <3>1
  <2> QED BY <2>1, <2>2, <2>3 DEF Expected, t
<1>11. Forewarned(r, u, d, s)
  <2>1. /\ \A i \in DOMAIN u : u[i].kind = "close" => c.screen = "left"
        /\ losses(q) # {} => sv.phase = "abandoned"
        /\ sv.phase = "abandoned" =>
            \/ c.screen = "left" \/ losses(q) # {}
            \/ starts(q) = {} /\ (isTerminal(c.screen) \/ c.run = NoRun)
        /\ \A g \in starts(q), j \in losses(q) : g < j
        /\ \A i \in refusals(q) :
            q[i].reason = "no-active-match" =>
                /\ sv.phase = "abandoned"
                /\ \/ c.screen = "left" \/ \E j \in losses(q) : j < i
                   \/ starts(q) = {} /\ isTerminal(c.screen)
    BY DEF Tracked, Forewarned, q
  <2>2. /\ c.screen = "left" => d.screen = "left"
        /\ isTerminal(c.screen) => isTerminal(d.screen)
    BY DEF isTerminal
  <2>3. starts(q) = {} => starts(t) = {}
    BY <1>6
  <2>4. 1 \in losses(q) => starts(t) = {} /\ (isTerminal(d.screen) \/ c.run = NoRun)
    BY <1>2, <1>5, <1>7, <2>3
  <2>5. r.phase = "abandoned" =>
            \/ d.screen = "left" \/ losses(t) # {}
            \/ starts(t) = {} /\ (isTerminal(d.screen) \/ d.run = NoRun)
    BY <1>6, <2>1, <2>2, <2>3, <2>4
  <2>6. \A g \in starts(t), j \in losses(t) : g < j
    <3> SUFFICES ASSUME NEW g \in starts(t), NEW j \in losses(t) PROVE g < j
      OBVIOUS
    <3>1. g + 1 < j + 1 /\ g \in Nat /\ j \in Nat
      BY <1>6, <2>1
    <3> QED BY <3>1
  <2>7. ASSUME NEW i \in refusals(t), t[i].reason = "no-active-match"
        PROVE  /\ r.phase = "abandoned"
               /\ \/ d.screen = "left" \/ \E j \in losses(t) : j < i
                  \/ starts(t) = {} /\ isTerminal(d.screen)
    <3>1. /\ i + 1 \in refusals(q) /\ q[i + 1].reason = "no-active-match" /\ i \in Nat
      BY <1>6, <2>7
    <3>2. /\ sv.phase = "abandoned"
          /\ \/ c.screen = "left" \/ \E j \in losses(q) : j < i + 1
             \/ starts(q) = {} /\ isTerminal(c.screen)
      BY <2>1, <3>1
    <3>3. isTerminal(d.screen) \/ c.run # NoRun
      <4> SUFFICES ASSUME ~isTerminal(d.screen) PROVE c.run # NoRun
        OBVIOUS
      <4>1. ~isTerminal(c.screen) /\ i + 1 \in replies(q)
        BY <1>5, <3>1 DEF Tracked, Expected, q
      <4>2. c.pending # <<>>
        BY <4>1 DEF SeatSound, Awaited, q
      <4> QED BY <4>1, <4>2 DEF Tracked, Expected
    <3>4. ASSUME NEW j \in losses(q), j < i + 1
          PROVE  \/ \E k \in losses(t) : k < i
                 \/ starts(t) = {} /\ isTerminal(d.screen)
      <4>1. CASE j = 1
        BY <2>4, <3>3, <4>1
      <4>2. CASE j # 1
        <5>1. j - 1 \in losses(t) /\ j - 1 < i
          BY <1>6, <3>1, <3>4, <4>2
        <5> QED BY <5>1
      <4> QED BY <4>1, <4>2
    <3> QED BY <2>2, <2>3, <3>2, <3>4
  <2> QED BY <1>6, <2>1, <2>2, <2>5, <2>6, <2>7 DEF Forewarned, t
<1>12. Refusable(r, d, s)
  <2> SUFFICES ASSUME NEW i \in refusals(t), t[i].reason # "no-active-match"
               PROVE  /\ d.screen = "match" =>
                            IF t[i].reason = "stale-revision"
                            THEN r.phase # "abandoned" => Near(r, d, s, i)
                            ELSE Exact(r, d, s, i)
                      /\ d.screen = "waiting" =>
                            \/ t[i].revision = d.revision
                            \/ t[i].reason = "stale-revision" /\ r.phase = "abandoned"
    BY DEF Refusable, t
  <2>1. i + 1 \in refusals(q) /\ t[i] = q[i + 1] /\ i \in Nat \ {0}
    BY <1>6
  <2>2. /\ c.screen = "match" =>
            IF q[i + 1].reason = "stale-revision"
            THEN sv.phase # "abandoned" => Near(sv, c, s, i + 1)
            ELSE Exact(sv, c, s, i + 1)
        /\ c.screen = "waiting" =>
            \/ q[i + 1].revision = c.revision
            \/ q[i + 1].reason = "stale-revision" /\ sv.phase = "abandoned"
    BY <2>1 DEF Tracked, Refusable, q
  <2>3. d.screen \in {"match", "waiting"} => ~isTerminal(d.screen)
    BY DEF isTerminal
  <2>4. ~isTerminal(d.screen) =>
            /\ Exact(sv, c, s, i + 1) => Exact(r, d, s, i)
            /\ Near(sv, c, s, i + 1) => Near(r, d, s, i)
    BY <1>1, <1>5, <2>1, RefusalShrunk DEF q, U, m
  <2> QED BY <1>5, <2>1, <2>2, <2>3, <2>4
<1> QED BY <1>8, <1>9, <1>10, <1>11, <1>12 DEF Tracked

-----------------------------------------------------------------------------

(* Every step keeps the order.                                               *)

\* What every step of the run does to a room in order.
LEMMA PlayedOrdered ==
    ASSUME Sound, Settled, Replays, Ordered, NEW r, NEW a \in Seats, ServerSound(r),
           \E command \in Command : Played(r, server, a, NoId, command)
    PROVE  /\ Holding(r)
           /\ \A s \in Seats : Tracked(r, uplink[s], clients[s], s)
<1>1. ServerSound(server) /\ Halved(server) /\ Holding(server)
  BY DEF Sound, Replays, Ordered
<1>2. PICK command \in Command : Played(r, server, a, NoId, command)
  OBVIOUS
<1>3. Holding(r) /\ \A s \in Seats : Progress(r, server, s, a, NoId, command)
  BY <1>1, <1>2, PlayedProgress
<1>4. ASSUME NEW s \in Seats PROVE Tracked(r, uplink[s], clients[s], s)
  <2>1. /\ clients[s] \in ClientState /\ SeatSound(server, uplink[s], clients[s], s)
        /\ ReplaySound(server, uplink[s], clients[s], s)
        /\ Tracked(server, uplink[s], clients[s], s)
    BY DEF Sound, Settled, Replays, Ordered
  <2> QED BY <1>1, <1>3, <2>1, TrackedProgress
<1> QED BY <1>3, <1>4

\* A deadline that is resolved keeps the order.
LEMMA ResolvedOrdered ==
    ASSUME Sound, Settled, Replays, Ordered, NEW r, ServerSound(r),
           r = server \/ Resolved(server, r)
    PROVE  /\ Holding(r)
           /\ \A s \in Seats : Tracked(r, uplink[s], clients[s], s)
<1>1. CASE r = server
  BY <1>1 DEF Ordered
<1>2. CASE server.phase = "active" /\ Resolved(server, r)
  <2>1. server.run.state.activeSeat \in Seats
    BY DEF Sound, ServerSound, RunSound, ServerState, RunState, TurnState
  <2>2. \E command \in Command : Played(r, server, server.run.state.activeSeat, NoId, command)
    BY <1>2, ResolvedPlayed DEF Sound, Replays
  <2> QED BY <2>1, <2>2, PlayedOrdered
<1> QED BY <1>1, <1>2 DEF Resolved

\* Every step of the server keeps the order.
LEMMA ServerStepOrdered ==
    ASSUME Sound, Settled, Replays, Ordered, ServerNext, clients' = clients
    PROVE  Ordered'
<1>1. /\ ServerSound(server) /\ ServerSound(server') /\ uplink \in [Seats -> Seq(Upward)]
      /\ Halved(server) /\ Holding(server) /\ clients \in [Seats -> ClientState]
      /\ server \in ServerState
      /\ \A s \in Seats : /\ Tracked(server, uplink[s], clients[s], s)
                          /\ SeatSound(server, uplink[s], clients[s], s)
  BY ServerStepSound DEF Sound, Settled, Replays, Ordered, ServerSound, RunSound
<1> DEFINE Kind(r) == Holding(r) /\ \A s \in Seats : Tracked(r, uplink[s], clients[s], s)
<1>2. ASSUME Kind(server'), uplink' = uplink PROVE Ordered'
  BY <1>2 DEF Ordered
<1>3. ASSUME NEW a \in Seats,
             received(a, "ready") \/ received(a, "command") \/ received(a, "close"),
             Kind(server')
      PROVE  Ordered'
  <2>1. /\ uplink[a] \in Seq(Upward) /\ uplink[a] # <<>> /\ uplink'[a] = Tail(uplink[a])
        /\ \A o \in Seats \ {a} : uplink'[o] = uplink[o]
    BY <1>3, ReceivedPacket
  <2>2. Tracked(server', uplink'[a], clients'[a], a)
    <3>1. Tracked(server', uplink[a], clients[a], a)
      BY <1>3
    <3> QED BY <2>1, <3>1, TrackedRead
  <2>3. \A o \in Seats \ {a} : Tracked(server', uplink'[o], clients'[o], o)
    BY <1>3, <2>1
  <2> QED BY <1>3, <2>2, <2>3 DEF Ordered
<1>4. ASSUME NEW r, r.run = server.run, r.phase = server.phase, r.sent = server.sent
      PROVE  Kind(r)
  <2>1. \A s \in Seats : Tracked(r, uplink[s], clients[s], s)
    BY <1>1, <1>4, TrackedKept
  <2> QED BY <1>1, <1>4, <2>1 DEF Holding
<1>5. CASE TurnTimerFires
  <2>1. server.phase = "active"
    BY <1>1, <1>5 DEF TurnTimerFires, ServerSound
  <2>2. Resolved(server, server') /\ uplink' = uplink
    BY <1>1, <1>5, <2>1, DeadlineResolved DEF TurnTimerFires
  <2> QED BY <1>1, <1>2, <2>2, ResolvedOrdered
<1>6. CASE DeadlinePasses
  <2>1. server' = [server EXCEPT !.expired = TRUE] /\ uplink' = uplink
    BY <1>6 DEF DeadlinePasses
  <2>2. /\ server'.run = server.run /\ server'.phase = server.phase
        /\ server'.sent = server.sent
    BY <1>1, <2>1 DEF ServerState
  <2> HIDE DEF Kind
  <2> QED BY <1>2, <1>4, <2>1, <2>2
<1>7. ASSUME NEW a \in Seats, HandleReady(a) PROVE Ordered'
  <2>1. received(a, "ready") /\ Head(uplink[a]).kind = "ready" /\ Head(uplink[a]).ready = TRUE
    BY <1>7, ReceivedPacket DEF HandleReady
  <2>2. CASE server.phase = "abandoned"
    <3> DEFINE p == [kind |-> "closed"]
    <3>1. server' = send(server, a, p) /\ p \in Packet /\ p.kind = "closed"
      BY <1>7, <2>2 DEF HandleReady, Packet, Notice
    <3> HIDE DEF p
    <3>2. /\ Alike(server', server) /\ server'.sent[a] = Append(server.sent[a], p)
          /\ server'.sent[otherSeat(a)] = server.sent[otherSeat(a)] /\ server'.run = server.run
      BY <1>1, <3>1, Sent
    <3>3. server'.phase = server.phase
      BY <3>2 DEF Alike
    <3>4. ASSUME NEW s \in Seats PROVE Tracked(server', uplink[s], clients[s], s)
      <4>1. s = a \/ s = otherSeat(a)
        BY DEF Seats, otherSeat
      <4>2. CASE s = a
        BY <1>1, <3>1, <3>2, <3>3, <4>2, TrackedClosed
      <4>3. CASE s = otherSeat(a)
        BY <1>1, <3>2, <3>3, <4>3, TrackedKept
      <4> QED BY <4>1, <4>2, <4>3
    <3>5. Holding(server')
      BY <1>1, <3>2 DEF Holding
    <3> QED BY <1>3, <2>1, <3>4, <3>5
  <2>3. CASE server.phase # "abandoned"
    <3> DEFINE marked == [server EXCEPT !.readySeats = server.readySeats \cup {a}]
    <3>1. server' \in setReady(server, a, TRUE)
      BY <1>7, <2>1, <2>3 DEF HandleReady
    <3>2. \/ server' = server
          \/ server' = marked
          \/ /\ server.readySeats \cup {a} = Seats
             /\ \E first \in FirstSeats : Begun(server', server, first)
      BY <1>1, <2>3, <3>1, ReadySet
    <3>3. /\ marked.run = server.run /\ marked.sent = server.sent
          /\ marked.phase = server.phase /\ marked.readySeats = server.readySeats \cup {a}
      BY <1>1 DEF ServerState
    <3> HIDE DEF marked
    <3>4. CASE server' = server \/ server' = marked
      <4>1. /\ server'.run = server.run /\ server'.phase = server.phase
            /\ server'.sent = server.sent
        BY <3>3, <3>4
      <4> HIDE DEF Kind
      <4> QED BY <1>3, <1>4, <2>1, <4>1
    <3>5. CASE /\ server.readySeats \cup {a} = Seats
               /\ \E first \in FirstSeats : Begun(server', server, first)
      <4>1. PICK first \in FirstSeats : Begun(server', server, first)
        BY <3>5
      <4>2. first \in Seats
        BY CoordinatorAssumption
      <4>3. Holding(server')
        <5>1. server'.run.bufferedOpponentUpdate = <<>>
          BY <4>1 DEF Begun, newRun
        <5> QED BY <5>1 DEF Holding, Range
      <4>4. ASSUME NEW s \in Seats PROVE Tracked(server', uplink'[s], clients'[s], s)
        <5>1. /\ uplink[a] \in Seq(Upward) /\ uplink[a] # <<>> /\ uplink'[a] = Tail(uplink[a])
              /\ \A o \in Seats \ {a} : uplink'[o] = uplink[o]
          BY <2>1, ReceivedPacket
        <5>2. clients[s] \in ClientState
          BY <1>1
        <5>3. SeatSound(marked, uplink'[s], clients[s], s)
          <6>1. CASE s = a
            <7>1. marked.run = server.run /\ marked.sent[a] = server.sent[a]
              BY <3>3
            <7>2. SeatSound(marked, Tail(uplink[a]), clients[a], a)
              BY <1>1, <2>1, <3>3, <5>1, <5>2, <6>1, <7>1, SeatReady
            <7> QED BY <5>1, <6>1, <7>2
          <6>2. CASE s # a
            <7>1. Undisturbed(marked, server, s)
              BY <3>3, <6>2 DEF Undisturbed
            <7> QED BY <1>1, <5>1, <6>2, <7>1, SeatUndisturbed
          <6> QED BY <6>1, <6>2
        <5>4. Tracked(server, uplink'[s], clients[s], s)
          <6>1. CASE s = a
            <7>1. Tracked(server, Tail(uplink[a]), clients[a], a)
              BY <1>1, <5>1, TrackedRead
            <7> QED BY <5>1, <6>1, <7>1
          <6>2. CASE s # a
            BY <1>1, <5>1, <6>2
          <6> QED BY <6>1, <6>2
        <5>5. s \in marked.readySeats /\ marked.sent[s] = server.sent[s]
          BY <3>3, <3>5
        <5>6. HalvesKept(server, s)
          BY DEF Replays, ReplaySound
        <5>7. Tracked(server', uplink'[s], clients[s], s)
          BY <1>1, <2>3, <3>3, <4>1, <4>2, <5>2, <5>3, <5>4, <5>5, <5>6, TrackedBegun
        <5> QED BY <5>7
      <4> QED BY <4>3, <4>4 DEF Ordered
    <3> QED BY <3>2, <3>4, <3>5
  <2> QED BY <2>2, <2>3
<1>8. ASSUME NEW a \in Seats, HandleCommand(a) PROVE Ordered'
  <2> DEFINE o == otherSeat(a)
             u == uplink[a]
             v == uplink[o]
             c == clients[a]
             d == clients[o]
  <2>1. received(a, "command") /\ server' \in handleGameCommand(server, a, Head(u))
    BY <1>8 DEF HandleCommand
  <2>2. /\ u \in Seq(Upward) /\ u # <<>> /\ Head(u) \in Envelope
        /\ o \in Seats /\ v \in Seq(Upward) /\ c \in ClientState /\ d \in ClientState
    <3>1. o \in Seats
      BY DEF otherSeat, Seats
    <3>2. u # <<>> /\ Head(u) \in Envelope
      BY <2>1, ReceivedPacket
    <3> HIDE DEF o
    <3> QED BY <1>1, <3>1, <3>2
  <2>3. PICK w : /\ ServerSound(w) /\ Answered(w, server', a, Head(u))
                 /\ w = server \/ Resolved(server, w)
    BY <1>1, <2>1, <2>2, CommandHandled
  <2>4. ASSUME NEW s \in Seats PROVE SeatSound(w, uplink[s], clients[s], s)
    <3>1. Undisturbed(w, server, s)
      BY <1>1, <2>3, ResolvedUndisturbed DEF Undisturbed
    <3> QED BY <1>1, <3>1, SeatUndisturbed
  <2>5. SeatSound(w, u, c, a) /\ SeatSound(w, v, d, o)
    BY <2>2, <2>4
  <2>6. /\ Halved(w) /\ ReplaySound(w, u, c, a) /\ ReplaySound(w, v, d, o)
    BY <2>2, <2>3, ResolvedReplays
  <2>7. /\ Holding(w) /\ Tracked(w, u, c, a) /\ Tracked(w, v, d, o)
    BY <2>2, <2>3, ResolvedOrdered
  <2>8. Holding(server') /\ Tracked(server', u, c, a) /\ Tracked(server', v, d, o)
    BY <1>1, <2>2, <2>3, <2>5, <2>6, <2>7, TrackedAnswered
  <2>9. \A s \in Seats : s = a \/ s = o
    BY DEF Seats, otherSeat
  <2>10. Kind(server')
    BY <2>8, <2>9
  <2> QED BY <1>3, <2>1, <2>10
<1>9. ASSUME NEW a \in Seats, HandleClose(a) PROVE Ordered'
  <2> DEFINE p == [kind |-> "opponent-disconnected"]
  <2>1. received(a, "close") /\ server' = abandon(server, a)
    BY <1>9 DEF HandleClose
  <2>2. /\ server'.run.id = server.run.id /\ server'.phase = "abandoned"
        /\ server'.run.revision = server.run.revision
        /\ server.phase = "abandoned" => server' = server
        /\ server.phase # "abandoned" =>
              /\ server'.run.bufferedOpponentUpdate = <<>>
              /\ server'.sent[a] = server.sent[a]
              /\ server'.sent[otherSeat(a)] = Append(server.sent[otherSeat(a)], p)
    BY <1>1, <2>1, Abandoned
  <2>3. p \in Packet /\ p.kind = "opponent-disconnected"
    BY DEF Packet, Notice
  <2> HIDE DEF p
  <2>4. CASE server.phase = "abandoned"
    <3>1. server' = server
      BY <2>2, <2>4
    <3>2. Kind(server)
      BY <1>1
    <3>3. Kind(server')
      BY <3>1, <3>2
    <3> QED BY <1>3, <2>1, <3>3
  <2>5. CASE server.phase # "abandoned"
    <3>1. clients[a].screen = "left"
      <4>1. /\ uplink[a] \in Seq(Upward) /\ uplink[a] # <<>> /\ Head(uplink[a]).kind = "close"
        BY <2>1, ReceivedPacket
      <4>2. 1 \in DOMAIN uplink[a] /\ uplink[a][1].kind = "close"
        BY <4>1, Shortened
      <4> QED BY <1>1, <4>2 DEF Tracked, Forewarned
    <3>2. ASSUME NEW s \in Seats PROVE Tracked(server', uplink[s], clients[s], s)
      <4>1. s = a \/ s = otherSeat(a)
        BY DEF Seats, otherSeat
      <4>2. \/ server'.sent[s] = server.sent[s] /\ clients[s].screen = "left"
            \/ server'.sent[s] = Append(server.sent[s], p)
        BY <2>2, <2>5, <3>1, <4>1
      <4> QED BY <1>1, <2>2, <2>3, <2>5, <4>2, TrackedAbandoned
    <3>3. Holding(server')
      BY <2>2, <2>5 DEF Holding, Range
    <3> QED BY <1>3, <2>1, <3>2, <3>3
  <2> QED BY <2>4, <2>5
<1>10. ASSUME NEW a \in Seats, RevealTimerFires(a) PROVE Ordered'
  <2>1. /\ a \in server.revealTimers /\ uplink' = uplink
        /\ server' \in closeRevealWindow([server EXCEPT !.revealTimers = server.revealTimers \ {a}], a)
    BY <1>10 DEF RevealTimerFires
  <2>2. /\ server'.phase = "active"
        /\ \E st \in endReveal(server.run.state, a) :
            Spread(server, server', a, NoId, [type |-> "end-reveal", after |-> st],
                   buffering(server))
    BY <1>1, <2>1, WindowClosed
  <2>3. \E command \in Command : Played(server', server, a, NoId, command)
    BY <1>1, <2>1, <2>2, WindowPlayed
  <2> QED BY <1>1, <1>2, <2>1, <2>3, PlayedOrdered
<1> QED BY <1>5, <1>6, <1>7, <1>8, <1>9, <1>10 DEF ServerNext

\* Every step of a client keeps the order.
LEMMA ClientStepOrdered ==
    ASSUME Sound, Settled, Replays, Ordered, ClientNext
    PROVE  Ordered'
<1>1. /\ ServerSound(server) /\ Holding(server) /\ uplink \in [Seats -> Seq(Upward)]
      /\ clients \in [Seats -> ClientState]
      /\ \A s \in Seats : /\ SeatSound(server, uplink[s], clients[s], s)
                          /\ ReplaySound(server, uplink[s], clients[s], s)
                          /\ Tracked(server, uplink[s], clients[s], s)
                          /\ server.sent[s] \in Seq(Packet)
  BY SeatTypes DEF Sound, Settled, Replays, Ordered
<1>2. ASSUME NEW a \in Seats, server' = server,
             \A o \in Seats \ {a} : uplink'[o] = uplink[o] /\ clients'[o] = clients[o],
             Tracked(server, uplink'[a], clients'[a], a)
      PROVE  Ordered'
  <2>1. ASSUME NEW s \in Seats PROVE Tracked(server', uplink'[s], clients'[s], s)
    BY <1>1, <1>2
  <2> QED BY <1>1, <1>2, <2>1 DEF Ordered
<1>3. ASSUME NEW a \in Seats, SendReady(a) PROVE Ordered'
  <2> DEFINE c == clients[a]
             v == Append(uplink[a], [kind |-> "ready", ready |-> TRUE])
             d == [c EXCEPT !.screen = "waiting"]
  <2>1. /\ server' = server /\ clients' = [clients EXCEPT ![a] = d]
        /\ uplink' = [uplink EXCEPT ![a] = v]
        /\ \/ c.screen = "ready"
           \/ c.screen = "match" /\ c.canonical.phase = "finished"
    BY <1>1, <1>3 DEF SendReady, transmit
  <2>2. Tracked(server, v, d, a)
    <3>1. uplink[a] \in Seq(Upward) /\ c \in ClientState
      BY <1>1
    <3> QED BY <1>1, <2>1, <3>1, TrackedSentReady
  <2> HIDE DEF v, d, c
  <2> QED BY <1>1, <1>2, <2>1, <2>2
<1>4. ASSUME NEW a \in Seats, NEW type \in CommandTypes, SendCommand(a, type) PROVE Ordered'
  <2> DEFINE c == clients[a]
             x == [kind |-> "command", run |-> c.run, id |-> c.nextCommandId,
                   expected |-> c.revision, type |-> type]
             p == [id |-> c.nextCommandId, type |-> type]
             v == Append(uplink[a], x)
             d == [c EXCEPT !.nextCommandId = c.nextCommandId + 1, !.pending = <<p>>]
  <2>1. /\ c.screen = "match" /\ c.pending = <<>>
        /\ server' = server /\ clients' = [clients EXCEPT ![a] = d]
        /\ uplink' = [uplink EXCEPT ![a] = v]
    BY <1>1, <1>4 DEF SendCommand, transmit
  <2>2. x \in Envelope /\ x.id = p.id /\ x.type = p.type
    BY <1>1 DEF Envelope, ClientState
  <2> HIDE DEF x, p
  <2>3. /\ d.screen = c.screen /\ d.run = c.run /\ d.revision = c.revision
        /\ d.canonical = c.canonical /\ d.pending = <<p>>
    BY <1>1 DEF ClientState
  <2>4. Tracked(server, v, d, a)
    <3>1. uplink[a] \in Seq(Upward)
      BY <1>1
    <3> HIDE DEF d
    <3> QED BY <1>1, <2>1, <2>2, <2>3, <3>1, TrackedSentCommand
  <2> HIDE DEF v, d, c
  <2> QED BY <1>1, <1>2, <2>1, <2>4
<1>5. ASSUME NEW a \in Seats, Receive(a) PROVE Ordered'
  <2> DEFINE c == clients[a]
             q == server.sent[a]
             m == Head(q)
             d == clients'[a]
  <2>1. q # <<>> /\ q \in Seq(Packet) /\ m \in Packet /\ c \in ClientState
    BY <1>1, <1>5 DEF Receive
  <2>2. /\ Alike(server', server) /\ server'.run = server.run
        /\ server'.sent[a] = Tail(q)
        /\ \A o \in Seats \ {a} : server'.sent[o] = server.sent[o]
        /\ uplink' = uplink
    <3>1. server' = [server EXCEPT !.sent[a] = Tail(@)] /\ uplink' = uplink
      BY <1>5 DEF Receive
    <3>2. ServerSound(server) /\ server.sent[a] # <<>>
      BY <1>1, <2>1
    <3> QED BY <3>1, <3>2, Popped
  <2>3. server'.phase = server.phase
    BY <2>2 DEF Alike
  <2>4. Holding(server')
    BY <1>1, <2>2 DEF Holding
  <2>5. ASSUME NEW o \in Seats \ {a} PROVE Tracked(server', uplink'[o], clients'[o], o)
    <3>1. clients'[o] = clients[o]
      BY <1>1, <1>5 DEF Receive
    <3> QED BY <1>1, <2>2, <2>3, <3>1, TrackedKept
  <2>6. d = IF c.screen = "left" THEN c ELSE afterPacket(c, a, m)
    BY <1>1, <1>5 DEF Receive
  <2>7. /\ ReplaySound(server, uplink[a], c, a) /\ SeatSound(server, uplink[a], c, a)
        /\ Tracked(server, uplink[a], c, a) /\ uplink[a] \in Seq(Upward)
    BY <1>1
  <2>8. Tracked(server', uplink[a], d, a)
    <3>1. CASE m.kind = "game-start" /\ c.screen # "left"
      <4>1. d = createOnlineAuthority(m)
        BY <2>6, <3>1 DEF afterPacket
      <4> HIDE DEF d, c
      <4> QED BY <1>1, <2>1, <2>2, <2>3, <2>7, <3>1, <4>1, TrackedStarted
    <3>2. CASE ~(m.kind = "game-start" /\ c.screen # "left")
      <4> DEFINE U == updates(server.run.id, q)
                 Arrived ==
                    /\ d.run = c.run
                    /\ d.screen = c.screen \/ (isTerminal(d.screen) /\ ~isTerminal(c.screen))
                    /\ ~isTerminal(d.screen) =>
                        /\ m.kind # "game-start"
                        /\ d.pending = c.pending \/ d.pending = <<>>
                        /\ m.kind = "opponent-disconnected" => c.run = NoRun
                        /\ IF 1 \in U
                           THEN /\ c.screen = "match" /\ d.revision = m.to
                                /\ d.canonical = Last(m.commands).after
                           ELSE d.revision = c.revision /\ d.canonical = c.canonical
      <4>1. /\ 1 \in U <=> m.kind = "accepted" /\ m.run = server.run.id
            /\ 1 \in reports(q) <=> m.kind = "accepted"
            /\ q[1] = m
        BY <2>1, Dropped
      <4>2. /\ isTerminal(syncLost(c).screen) /\ syncLost(c).run = c.run
            /\ ~isTerminal(c.screen) =>
                isTerminal(disconnected(c).screen) /\ disconnected(c).run = c.run
            /\ isTerminal(c.screen) => disconnected(c) = c
            /\ c.screen = "left" => isTerminal(c.screen)
        BY <2>1 DEF syncLost, disconnected, ClientState, isTerminal
      <4>3. ASSUME d = syncLost(c), ~isTerminal(c.screen) PROVE Arrived
        <5> HIDE DEF c, d, m
        <5> QED BY <4>2, <4>3
      <4>4. ASSUME isTerminal(c.screen), d = c PROVE Arrived
        <5> HIDE DEF c, m, U
        <5> QED BY <4>4
      <4>5. ASSUME ~isTerminal(c.screen), d = disconnected(c) PROVE Arrived
        <5> HIDE DEF c, d, m
        <5> QED BY <4>2, <4>5
      <4>6. ASSUME d = c, m.kind = "opponent-disconnected", c.run = NoRun PROVE Arrived
        <5>1. 1 \notin U /\ m.kind # "game-start"
          BY <4>1, <4>6
        <5> HIDE DEF c, m, U
        <5> QED BY <4>6, <5>1
      <4>7. ASSUME m.kind = "accepted", d = applyOnlineUpdate(c, a, m), d # syncLost(c),
                   ~isTerminal(c.screen)
            PROVE  Arrived
        <5> DEFINE st == Last(m.commands).after
                   pd == IF m.id = NoId THEN c.pending ELSE <<>>
        <5>1. /\ d = [c EXCEPT !.canonical = st, !.revision = m.to, !.pending = pd]
              /\ m.run = c.run
          BY <4>7 DEF applyOnlineUpdate
        <5> HIDE DEF st, d
        <5>2. /\ d.screen = c.screen /\ d.revision = m.to /\ d.canonical = st
              /\ d.run = c.run
              /\ d.pending = c.pending \/ d.pending = <<>>
          <6>1. /\ d.screen = c.screen /\ d.revision = m.to /\ d.canonical = st
                /\ d.run = c.run /\ d.pending = pd
            BY <2>1, <5>1 DEF ClientState
          <6> QED BY <6>1
        <5>3. 1 \in U /\ c.screen = "match"
          <6>1. m.run = server.run.id /\ (c.screen # "match" => c.run < server.run.id)
            BY <2>7, <4>1, <4>7 DEF Tracked, Current
          <6>2. server.run.id \in Nat
            BY <1>1, SeatTypes
          <6> QED BY <4>1, <4>7, <5>1, <6>1, <6>2
        <5>4. m.kind # "game-start" /\ m.kind # "opponent-disconnected"
          BY <4>7
        <5> HIDE DEF c, m, U
        <5> QED BY <5>2, <5>3, <5>4 DEF st
      <4>8. ASSUME m.kind = "rejected", d = applyOnlineUpdate(c, a, m), d # syncLost(c),
                   ~isTerminal(c.screen)
            PROVE  Arrived
        <5>1. d = [c EXCEPT !.pending = <<>>]
          BY <4>8 DEF applyOnlineUpdate
        <5>2. /\ d.screen = c.screen /\ d.revision = c.revision /\ d.canonical = c.canonical
              /\ d.run = c.run /\ d.pending = <<>>
          BY <2>1, <5>1 DEF ClientState
        <5>3. 1 \notin U /\ m.kind # "game-start" /\ m.kind # "opponent-disconnected"
          BY <4>1, <4>8
        <5> HIDE DEF c, m, U, d
        <5> QED BY <5>2, <5>3
      <4>9. ASSUME m.kind \in {"closed", "opponent-disconnected"}, c.screen # "left"
            PROVE  Arrived
        <5>1. \/ d = c /\ m.kind = "opponent-disconnected" /\ c.run = NoRun
              \/ d = disconnected(c)
          BY <2>6, <4>9 DEF afterPacket
        <5> HIDE DEF c, m, U, d, Arrived
        <5> QED BY <4>2, <4>4, <4>5, <4>6, <5>1
      <4>10. \/ c.screen = "left" /\ d = c
             \/ m.kind \in {"closed", "opponent-disconnected"} /\ c.screen # "left"
             \/ /\ m.kind \in {"accepted", "rejected"}
                /\ \/ (isTerminal(c.screen) /\ d = c)
                   \/ ~isTerminal(c.screen) /\ d = syncLost(c)
                   \/ ~isTerminal(c.screen) /\ d = applyOnlineUpdate(c, a, m)
        BY <2>1, <2>6, <3>2 DEF afterPacket, Packet, Started, Accepted, Rejected, Notice
      <4>11. Arrived
        <5> HIDE DEF c, m, U, d, Arrived
        <5> QED BY <4>2, <4>3, <4>4, <4>7, <4>8, <4>9, <4>10
      <4> HIDE DEF d, c
      <4> QED BY <1>1, <2>1, <2>2, <2>3, <2>7, <4>11, TrackedArrived
    <3> QED BY <3>1, <3>2
  <2>9. ASSUME NEW s \in Seats PROVE Tracked(server', uplink'[s], clients'[s], s)
    BY <2>2, <2>5, <2>8
  <2> QED BY <2>4, <2>9 DEF Ordered
<1>6. ASSUME NEW a \in Seats, Leave(a) PROVE Ordered'
  <2> DEFINE c == clients[a]
             d == [c EXCEPT !.screen = "left", !.pending = <<>>]
  <2>1. PICK n \in 0 .. Len(uplink[a]) :
            uplink' = [uplink EXCEPT ![a] = Append(SubSeq(uplink[a], 1, n), [kind |-> "close"])]
    BY <1>6 DEF Leave
  <2> DEFINE v == Append(SubSeq(uplink[a], 1, n), [kind |-> "close"])
  <2>2. server' = server /\ clients' = [clients EXCEPT ![a] = d]
    BY <1>1, <1>6 DEF Leave
  <2>3. d.run = c.run /\ d.screen = "left"
    BY <1>1 DEF ClientState
  <2>4. Tracked(server, v, d, a)
    <3>1. uplink[a] \in Seq(Upward) /\ Tracked(server, uplink[a], c, a)
      BY <1>1
    <3> HIDE DEF d, c
    <3> QED BY <2>3, <3>1, TrackedLeft
  <2> HIDE DEF v, d, c
  <2>5. uplink'[a] = v /\ clients'[a] = d
    BY <1>1, <2>1, <2>2 DEF v
  <2> QED BY <1>1, <1>2, <2>1, <2>2, <2>4, <2>5
<1> QED BY <1>3, <1>4, <1>5, <1>6 DEF ClientNext

\* The order starts with nothing on its way.
LEMMA OrderedInit == Init => Ordered
<1> SUFFICES ASSUME Init PROVE Ordered
  OBVIOUS
<1> DEFINE run == newRun(NoRun, 0)
<1>1. /\ run.bufferedOpponentUpdate = <<>> /\ run.id = NoRun
      /\ [run EXCEPT !.phase = "ready"].bufferedOpponentUpdate = run.bufferedOpponentUpdate
      /\ [run EXCEPT !.phase = "ready"].id = run.id
  BY DEF newRun
<1> HIDE DEF run
<1>2. /\ server.run = [run EXCEPT !.phase = "ready"] /\ server.phase = "ready"
      /\ \A s \in Seats : server.sent[s] = <<>> /\ uplink[s] = <<>> /\ clients[s] = newClient
  BY DEF Init, createMatchRoom, run
<1>3. newClient.screen = "ready" /\ newClient.run = NoRun /\ newClient.pending = <<>>
  BY DEF newClient
<1>4. /\ requests(<<>>) = {} /\ starts(<<>>) = {} /\ reports(<<>>) = {} /\ losses(<<>>) = {}
      /\ refusals(<<>>) = {} /\ replies(<<>>) = {} /\ DOMAIN <<>> = {}
  BY DEF requests, starts, reports, losses, refusals, replies
<1>5. Holding(server)
  BY <1>1, <1>2 DEF Holding, Range
<1>6. ASSUME NEW s \in Seats PROVE Tracked(server, uplink[s], clients[s], s)
  <2>1. /\ server.sent[s] = <<>> /\ uplink[s] = <<>> /\ clients[s] = newClient
        /\ server.run.id = NoRun
    BY <1>1, <1>2
  <2>2. Coheres(server, newClient, s) /\ Refusable(server, newClient, s)
    BY <1>3, <1>4, <2>1 DEF Coheres, Refusable
  <2>3. Current(server, newClient, s)
    BY <1>3, <1>4, <2>1 DEF Current, NoRun
  <2>4. Expected(server, <<>>, newClient, s)
    BY <1>3, <1>4, <2>1 DEF Expected
  <2>5. Forewarned(server, <<>>, newClient, s)
    BY <1>2, <1>3, <1>4, <2>1 DEF Forewarned
  <2> QED BY <2>1, <2>2, <2>3, <2>4, <2>5 DEF Tracked
<1> QED BY <1>5, <1>6 DEF Ordered

\* Every step keeps the order.
LEMMA OrderedNext == Sound /\ Settled /\ Replays /\ Ordered /\ [Next]_vars => Ordered'
<1> SUFFICES ASSUME Sound, Settled, Replays, Ordered, [Next]_vars PROVE Ordered'
  OBVIOUS
<1>1. CASE ClientNext
  BY <1>1, ClientStepOrdered
<1>2. CASE ServerNext /\ UNCHANGED clients
  BY <1>2, ServerStepOrdered
<1>3. CASE UNCHANGED vars
  BY <1>3 DEF vars, Ordered
<1> QED BY <1>1, <1>2, <1>3 DEF Next

\* Updates and answers come in an order in which a client can replay the one and knows the
\* other for the answer to what it asked.
THEOREM OrderedInvariant == Spec => [](Sound /\ Settled /\ Replays /\ Ordered)
BY SoundInit, SoundNext, SettledInit, SettledNext, ReplaysInit, ReplaysNext,
   OrderedInit, OrderedNext, PTL DEF Spec

\* Only a packet that arrives can lose a client its synchronization, and only an update or
\* an answer can.
LEMMA LostAtReceipt ==
    ASSUME Sound, Next, NEW s \in Seats,
           clients'[s].screen = "sync-lost", clients[s].screen # "sync-lost"
    PROVE  LET c == clients[s]
               m == Head(server.sent[s])
           IN  /\ server.sent[s] # <<>> /\ ~isTerminal(c.screen)
               /\ \/ m.kind \in {"accepted", "rejected"} /\ c.run = NoRun
                  \/ /\ m.kind \in {"accepted", "rejected"}
                     /\ applyOnlineUpdate(c, s, m).screen = "sync-lost"
<1> DEFINE c == clients[s]
           q == server.sent[s]
           m == Head(q)
<1>1. clients \in [Seats -> ClientState] /\ c \in ClientState /\ q \in Seq(Packet)
  BY SeatTypes DEF Sound
<1>2. ASSUME NEW a \in Seats, NEW d, clients' = [clients EXCEPT ![a] = d],
             a # s \/ d.screen # "sync-lost"
      PROVE  FALSE
  BY <1>1, <1>2
<1>3. ASSUME NEW a \in Seats, SendReady(a) PROVE FALSE
  <2> DEFINE d == [clients[a] EXCEPT !.screen = "waiting"]
  <2>1. clients' = [clients EXCEPT ![a] = d] /\ d.screen # "sync-lost"
    BY <1>1, <1>3 DEF SendReady, ClientState
  <2> HIDE DEF d
  <2> QED BY <1>2, <2>1
<1>4. ASSUME NEW a \in Seats, NEW type \in CommandTypes, SendCommand(a, type) PROVE FALSE
  <2> DEFINE p == [id |-> clients[a].nextCommandId, type |-> type]
             d == [clients[a] EXCEPT !.nextCommandId = clients[a].nextCommandId + 1,
                                     !.pending = <<p>>]
  <2>1. clients' = [clients EXCEPT ![a] = d] /\ clients[a].screen = "match"
    BY <1>1, <1>4 DEF SendCommand
  <2> HIDE DEF p
  <2>2. d.screen = "match"
    BY <1>1, <2>1 DEF ClientState
  <2> HIDE DEF d
  <2> QED BY <1>2, <2>1, <2>2
<1>5. ASSUME NEW a \in Seats, Leave(a) PROVE FALSE
  <2> DEFINE d == [clients[a] EXCEPT !.screen = "left", !.pending = <<>>]
  <2>1. clients' = [clients EXCEPT ![a] = d] /\ d.screen # "sync-lost"
    BY <1>1, <1>5 DEF Leave, ClientState
  <2> HIDE DEF d
  <2> QED BY <1>2, <2>1
<1>6. ASSUME NEW a \in Seats, a # s, Receive(a) PROVE FALSE
  <2>1. clients'[s] = clients[s]
    BY <1>1, <1>6 DEF Receive
  <2> QED BY <2>1
<1>7. Receive(s)
  <2>1. CASE ServerNext /\ UNCHANGED clients
    BY <2>1
  <2> QED BY <1>3, <1>4, <1>5, <1>6, <2>1 DEF Next, ClientNext
<1>8. q # <<>> /\ c.screen # "left" /\ clients'[s] = afterPacket(c, s, m)
  BY <1>1, <1>7 DEF Receive
<1>9. m \in Packet
  BY <1>1, <1>8
<1>10. m.kind # "game-start" /\ m.kind \notin {"closed", "opponent-disconnected"}
  <2>1. m.kind # "game-start"
    BY <1>8 DEF afterPacket, createOnlineAuthority
  <2>2. disconnected(c).screen # "sync-lost"
    BY <1>1 DEF disconnected, ClientState
  <2> HIDE DEF c, m
  <2>3. m.kind \in {"closed", "opponent-disconnected"} =>
            clients'[s] = c \/ clients'[s] = disconnected(c)
    BY <1>8 DEF afterPacket
  <2> QED BY <2>1, <2>2, <2>3 DEF c
<1>11. m.kind \in {"accepted", "rejected"}
  BY <1>9, <1>10 DEF Packet, Started, Accepted, Rejected, Notice
<1>12. ~isTerminal(c.screen) /\ (c.run = NoRun \/ clients'[s] = applyOnlineUpdate(c, s, m))
  <2> HIDE DEF c, m
  <2>1. \/ isTerminal(c.screen) /\ clients'[s] = c
        \/ ~isTerminal(c.screen) /\ c.run = NoRun
        \/ ~isTerminal(c.screen) /\ clients'[s] = applyOnlineUpdate(c, s, m)
    BY <1>8, <1>10 DEF afterPacket
  <2> QED BY <2>1 DEF c
<1> QED BY <1>8, <1>11, <1>12

\* An update that arrives in a match in order is the next one, and is replayed.
LEMMA UpdateFits ==
    ASSUME NEW sv, NEW s \in Seats, NEW u, NEW c \in ClientState, ServerSound(sv),
           SeatSound(sv, u, c, s), ReplaySound(sv, u, c, s), Tracked(sv, u, c, s),
           sv.sent[s] # <<>>, ~isTerminal(c.screen), Head(sv.sent[s]).kind = "accepted"
    PROVE  LET m == Head(sv.sent[s])
           IN  m.run = c.run /\ c.run # NoRun /\ c.screen = "match" /\ acceptanceFits(c, s, m)
<1> DEFINE q == sv.sent[s]
           m == Head(q)
           U == updates(sv.run.id, q)
<1>1. /\ q \in Seq(Packet) /\ c.run \in Nat /\ sv.run.id \in Nat
      /\ c.pending \in {<<>>} \cup {<<p>> : p \in Pending}
      /\ c.screen \in {"ready", "waiting", "match"}
  <2>1. c.screen \in Screens /\ c.run \in Nat /\ c.pending \in {<<>>} \cup {<<p>> : p \in Pending}
    BY DEF ClientState
  <2> QED BY <2>1, SeatTypes DEF Screens, isTerminal
<1>2. /\ DOMAIN q \subseteq Nat \ {0} /\ q[1] = m /\ m \in Packet
      /\ 1 \in reports(q)
      /\ 1 \in replies(q) <=> m.id # NoId
      /\ 1 \in U <=> m.run = sv.run.id
  <2>1. /\ DOMAIN q \subseteq Nat \ {0} /\ q[1] = m /\ m \in Packet
        /\ 1 \in reports(q) <=> m.kind = "accepted"
        /\ 1 \in replies(q) <=> m.kind \in {"accepted", "rejected"} /\ m.id # NoId
        /\ 1 \in U <=> m.kind = "accepted" /\ m.run = sv.run.id
    BY <1>1, Dropped
  <2>2. m.kind = "accepted"
    OBVIOUS
  <2> HIDE DEF m, q, U
  <2> QED BY <2>1, <2>2
<1>3. starts(q) \subseteq DOMAIN q /\ U \subseteq DOMAIN q
  BY Placed
<1> HIDE DEF m, q, U
<1>4. m.run = sv.run.id /\ 1 \in U /\ (c.screen # "match" => c.run < sv.run.id)
  BY <1>2 DEF Tracked, Current, q
<1>5. c.screen = "match" /\ m.run = c.run /\ c.run # NoRun
  <2>1. c.screen # "match" => starts(q) # {}
    BY <1>4 DEF Tracked, Current, q
  <2>2. starts(q) = {}
    <3>1. \A g \in starts(q) : g < 1 /\ g \in Nat \ {0}
      BY <1>2, <1>3, <1>4 DEF ReplaySound, Replayed, q, U
    <3> QED BY <3>1
  <2>3. c.screen = "match"
    BY <2>1, <2>2
  <2> QED BY <1>4, <2>3 DEF SeatSound, RunsFit, Tracked, Current
<1>6. /\ Chained(sv, s, c.revision, c.canonical) /\ Linked(sv, s, c.revision, c.canonical)
      /\ Coherent(m)
  BY <1>2, <1>5 DEF ReplaySound, Replayed, Tracked, Coheres, q
<1>7. m.from = c.revision
  <2>1. \A k \in U : 1 <= k
    BY <1>2, <1>3
  <2> QED BY <1>2, <1>4, <1>6, <2>1 DEF Chained, q, U
<1>8. acts(c.canonical, m.seat)
  BY <1>2, <1>4, <1>6, <1>7 DEF Linked, q, U
<1>9. ASSUME m.id # NoId
      PROVE  answers(c, m) /\ m.seat = s /\ Head(c.pending).type = Last(m.commands).type
  <2>1. 1 \in replies(q)
    BY <1>2, <1>9
  <2>2. c.pending # <<>>
    BY <2>1 DEF SeatSound, Awaited, q
  <2>3. m.id = c.pending[1].id /\ m.seat = s /\ Last(m.commands).type = c.pending[1].type
    BY <1>2, <2>1, <2>2 DEF Tracked, Expected, q, m
  <2>4. Head(c.pending) = c.pending[1]
    BY <1>1, <2>2
  <2> QED BY <2>2, <2>3, <2>4 DEF answers
<1>10. ASSUME NEW i \in DOMAIN m.commands PROVE replayedTo(c, m, i).activeSeat = m.seat
  <2>1. CASE i = 1
    BY <1>8, <2>1 DEF replayedTo, acts
  <2>2. CASE i # 1
    <3>1. m.commands \in Seq(Command)
      <4>1. m \in Accepted
        BY <1>2 DEF Packet, Started, Rejected, Notice, m, q
      <4> QED BY <4>1 DEF Accepted, Batch
    <3>2. i - 1 \in DOMAIN m.commands /\ (i - 1) + 1 = i
      BY <2>2, <3>1
    <3>3. m.commands[i - 1].after.activeSeat = m.seat
      BY <1>6, <3>2 DEF Coherent
    <3> QED BY <2>2, <3>3 DEF replayedTo
  <2> QED BY <2>1, <2>2
<1>11. acceptanceFits(c, s, m)
  BY <1>6, <1>7, <1>9, <1>10 DEF acceptanceFits, Coherent
<1> QED BY <1>5, <1>11 DEF m, q

\* A refusal that does not fit is a stale command's, behind an update of the opponent.
LEMMA RefusalFits ==
    ASSUME NEW sv, NEW s \in Seats, NEW u, NEW c \in ClientState, ServerSound(sv), Halved(sv),
           SeatSound(sv, u, c, s), ReplaySound(sv, u, c, s), Tracked(sv, u, c, s),
           sv.sent[s] # <<>>, ~isTerminal(c.screen), Head(sv.sent[s]).kind = "rejected"
    PROVE  LET q == sv.sent[s]
               m == Head(q)
           IN  /\ m.run = c.run /\ c.run # NoRun /\ answers(c, m)
               /\ m.revision # c.revision =>
                    /\ m.reason = "stale-revision"
                    /\ \/ sv.phase = "abandoned"
                       \/ \E b \in {n \in Range(q) : n.kind = "accepted" /\ n.run = sv.run.id}
                                \cup Range(sv.run.bufferedOpponentUpdate) :
                            /\ b.seat = otherSeat(s) /\ b.from = c.revision
                            /\ m.revision \in b.from + 1 .. b.to
<1> DEFINE q == sv.sent[s]
           m == Head(q)
           U == updates(sv.run.id, q)
           rev == sv.run.revision
<1>1. /\ q \in Seq(Packet) /\ c.run \in Nat /\ sv.run.id \in Nat /\ c.revision \in Nat
      /\ rev \in Nat /\ c.pending \in {<<>>} \cup {<<p>> : p \in Pending}
      /\ c.screen \in {"ready", "waiting", "match"}
  <2>1. /\ c.screen \in Screens /\ c.run \in Nat /\ c.revision \in Nat
        /\ c.pending \in {<<>>} \cup {<<p>> : p \in Pending}
    BY DEF ClientState
  <2> QED BY <2>1, SeatTypes DEF Screens, isTerminal
<1>2. /\ DOMAIN q \subseteq Nat \ {0} /\ q[1] = m /\ m \in Packet /\ m.kind = "rejected"
      /\ 1 \in refusals(q) /\ 1 \notin U
  <2>1. /\ DOMAIN q \subseteq Nat \ {0} /\ q[1] = m /\ m \in Packet
        /\ 1 \in refusals(q) <=> m.kind = "rejected"
        /\ 1 \in U <=> m.kind = "accepted" /\ m.run = sv.run.id
    BY <1>1, Dropped
  <2>2. m.kind = "rejected"
    OBVIOUS
  <2> HIDE DEF m, q, U
  <2> QED BY <2>1, <2>2
<1>3. losses(q) \subseteq DOMAIN q /\ U \subseteq DOMAIN q
  BY Placed
<1> HIDE DEF m, q, U, rev
<1>4. m.revision \in Nat
  BY <1>2 DEF Packet, Started, Accepted, Rejected, Notice
<1>5. m.run = c.run /\ c.run # NoRun /\ answers(c, m)
  <2>1. 1 \in replies(q)
    BY <1>2 DEF Tracked, Expected, q
  <2>2. c.pending # <<>>
    BY <2>1 DEF SeatSound, Awaited, q
  <2>3. m.id = c.pending[1].id /\ m.run = c.run /\ c.run # NoRun
    BY <1>2, <2>1, <2>2 DEF Tracked, Expected, q
  <2>4. Head(c.pending) = c.pending[1]
    BY <1>1, <2>2
  <2> QED BY <2>2, <2>3, <2>4 DEF answers
<1>6. m.reason # "no-active-match"
  <2> SUFFICES ASSUME m.reason = "no-active-match" PROVE FALSE
    OBVIOUS
  <2>1. \E j \in losses(q) : j < 1
    BY <1>1, <1>2 DEF Tracked, Forewarned, q
  <2> QED BY <1>2, <1>3, <2>1
<1>7. c.screen # "ready"
  <2>1. c.screen = "ready" => sv.run.id = NoRun /\ c.run <= sv.run.id
    BY DEF SeatSound, RunsFit
  <2> QED BY <1>1, <1>5, <2>1 DEF NoRun
<1>8. \A k \in U : 1 < k
  BY <1>2, <1>3
<1>9. ASSUME m.revision # c.revision
      PROVE  m.reason = "stale-revision"
  <2>1. c.screen = "match" /\ m.reason # "stale-revision" => Exact(sv, c, s, 1)
    BY <1>2, <1>6 DEF Tracked, Refusable, q
  <2>2. ~Exact(sv, c, s, 1)
    BY <1>2, <1>8, <1>9 DEF Exact, q, U
  <2>3. c.screen = "waiting" => m.reason = "stale-revision"
    BY <1>2, <1>6, <1>9 DEF Tracked, Refusable, q
  <2> QED BY <1>1, <1>7, <2>1, <2>2, <2>3
<1> DEFINE B == {n \in Range(q) : n.kind = "accepted" /\ n.run = sv.run.id}
                \cup Range(sv.run.bufferedOpponentUpdate)
<1>10. ASSUME m.revision # c.revision, sv.phase # "abandoned"
       PROVE  \E b \in B : /\ b.seat = otherSeat(s) /\ b.from = c.revision
                           /\ m.revision \in b.from + 1 .. b.to
  <2>1. c.screen = "match"
    BY <1>1, <1>2, <1>6, <1>7, <1>10 DEF Tracked, Refusable, q
  <2>2. Near(sv, c, s, 1)
    BY <1>2, <1>6, <1>9, <1>10, <2>1 DEF Tracked, Refusable, q
  <2>3. /\ c.revision < m.revision /\ m.revision <= rev
        /\ \A k \in U : \/ m.revision <= q[k].from
                        \/ q[k].seat = otherSeat(s) /\ m.revision <= q[k].to
    <3>1. /\ c.revision <= m.revision /\ m.revision <= rev
          /\ \A k \in U : 1 < k =>
                \/ m.revision <= q[k].from
                \/ q[k].seat = otherSeat(s) /\ m.revision <= q[k].to
      BY <1>2, <2>2 DEF Near, q, U, rev
    <3> QED BY <1>1, <1>4, <1>8, <1>10, <3>1
  <2>4. Chained(sv, s, c.revision, c.canonical)
    BY <2>1 DEF ReplaySound, Replayed
  <2>5. CASE U = {}
    <3>1. c.revision = told(sv, s)
      BY <1>10, <2>4, <2>5 DEF Chained, q, U
    <3>2. told(sv, s) # rev
      BY <1>1, <1>4, <2>3, <3>1
    <3>3. PICK b \in Range(sv.run.bufferedOpponentUpdate) : b.seat # s /\ b.from = told(sv, s)
      BY <3>2, ToldTo DEF rev
    <3>4. b.to = rev
      BY <3>3 DEF Halved, rev
    <3>5. b.seat = otherSeat(s)
      <4>1. sv.run.bufferedOpponentUpdate \in {<<>>} \cup {<<x>> : x \in Withheld}
        BY DEF ServerSound, RunSound, ServerState, RunState
      <4>2. b \in Withheld
        BY <3>3, <4>1 DEF Range
      <4>3. b.seat \in Seats
        BY <4>2 DEF Withheld, Buffer
      <4> QED BY <3>3, <4>3 DEF Seats, otherSeat
    <3>6. m.revision \in b.from + 1 .. b.to
      BY <1>1, <1>4, <2>3, <3>1, <3>3, <3>4
    <3> QED BY <3>1, <3>3, <3>5, <3>6
  <2>6. CASE U # {}
    <3>1. U \in SUBSET Nat
      BY <1>2, <1>3
    <3>2. PICK k \in U : \A l \in U : k <= l
      BY <2>6, <3>1, FirstOf
    <3>3. q[k].from = c.revision
      BY <2>4, <3>2 DEF Chained, q, U
    <3>4. q[k].seat = otherSeat(s) /\ m.revision <= q[k].to
      BY <1>1, <1>4, <2>3, <3>2, <3>3
    <3>5. q[k] \in Accepted
      BY <1>1, <3>2, UpdateTypes DEF U
    <3>6. m.revision \in q[k].from + 1 .. q[k].to
      <4>1. q[k].to \in Nat
        BY <3>5 DEF Accepted
      <4> QED BY <1>1, <1>4, <2>3, <3>3, <3>4, <4>1
    <3>7. q[k] \in B
      BY <1>3, <3>2 DEF U, updates, Range
    <3> QED BY <3>3, <3>4, <3>6, <3>7
  <2> QED BY <2>5, <2>6
<1> QED BY <1>5, <1>9, <1>10 DEF m, q

\* applyOnlineUpdate ends in sync-lost for an honest client in one way only: a command that
\* the end of its own turn overtakes is refused with a revision inside an update of the
\* opponent that the client has yet to be told of (onlineAuthority.ts, matchCoordinator.ts).
THEOREM OnlyStaleRefusalsLoseSync == Spec => SyncLostOnlyBehindBuffer
<1> DEFINE Lost(s) == clients'[s].screen = "sync-lost" /\ clients[s].screen # "sync-lost"
           Excused(s) ==
                LET m == Head(server.sent[s])
                IN  /\ m.kind = "rejected" /\ m.reason = "stale-revision"
                    /\ \/ server.phase = "abandoned"
                       \/ \E u \in {n \in Range(server.sent[s]) : isUpdate(n)}
                                 \cup Range(server.run.bufferedOpponentUpdate) :
                            /\ u.seat = otherSeat(s)
                            /\ u.from = clients[s].revision
                            /\ m.revision \in u.from + 1 .. u.to
<1>1. Sound /\ Settled /\ Replays /\ Ordered /\ [Next]_vars =>
            [\A s \in Seats : Lost(s) => Excused(s)]_vars
  <2> SUFFICES ASSUME Sound, Settled, Replays, Ordered, Next, NEW s \in Seats, Lost(s)
               PROVE  Excused(s)
    OBVIOUS
  <2> DEFINE c == clients[s]
             q == server.sent[s]
             m == Head(q)
             u == uplink[s]
  <2>1. /\ ServerSound(server) /\ Halved(server) /\ c \in ClientState
        /\ SeatSound(server, u, c, s) /\ ReplaySound(server, u, c, s) /\ Tracked(server, u, c, s)
    BY DEF Sound, Settled, Replays, Ordered
  <2>2. /\ q # <<>> /\ ~isTerminal(c.screen)
        /\ m.kind \in {"accepted", "rejected"}
        /\ c.run = NoRun \/ applyOnlineUpdate(c, s, m).screen = "sync-lost"
    BY LostAtReceipt
  <2> HIDE DEF Lost, Excused
  <2>3. CASE m.kind = "accepted"
    <3>1. m.run = c.run /\ c.run # NoRun /\ c.screen = "match" /\ acceptanceFits(c, s, m)
      BY <2>1, <2>2, <2>3, UpdateFits
    <3> DEFINE d == [c EXCEPT !.canonical = Last(m.commands).after,
                              !.revision = m.to,
                              !.pending = IF m.id = NoId THEN c.pending ELSE <<>>]
    <3>2. applyOnlineUpdate(c, s, m) = d
      BY <2>3, <3>1 DEF applyOnlineUpdate
    <3>3. d.screen = "match"
      BY <2>1, <3>1 DEF ClientState
    <3> HIDE DEF d, c, m
    <3> QED BY <2>2, <3>1, <3>2, <3>3
  <2>4. CASE m.kind = "rejected"
    <3> DEFINE B == {n \in Range(q) : n.kind = "accepted" /\ n.run = server.run.id}
                    \cup Range(server.run.bufferedOpponentUpdate)
    <3>1. /\ m.run = c.run /\ c.run # NoRun /\ answers(c, m)
          /\ m.revision # c.revision =>
                /\ m.reason = "stale-revision"
                /\ \/ server.phase = "abandoned"
                   \/ \E b \in B : /\ b.seat = otherSeat(s) /\ b.from = c.revision
                                   /\ m.revision \in b.from + 1 .. b.to
      BY <2>1, <2>2, <2>4, RefusalFits
    <3>2. m.revision # c.revision
      <4> SUFFICES ASSUME m.revision = c.revision PROVE FALSE
        OBVIOUS
      <4> DEFINE d == [c EXCEPT !.pending = <<>>]
      <4>1. applyOnlineUpdate(c, s, m) = d
        BY <2>4, <3>1 DEF applyOnlineUpdate, rejectionFits
      <4>2. d.screen = c.screen
        BY <2>1 DEF ClientState
      <4> HIDE DEF d, c, m
      <4> QED BY <2>2, <3>1, <4>1, <4>2 DEF isTerminal
    <3>3. B = {n \in Range(q) : isUpdate(n)} \cup Range(server.run.bufferedOpponentUpdate)
      BY DEF isUpdate
    <3> HIDE DEF B
    <3> QED BY <2>4, <3>1, <3>2, <3>3 DEF Excused
  <2> QED BY <2>2, <2>3, <2>4
<1> QED BY <1>1, OrderedInvariant, PTL DEF Spec, SyncLostOnlyBehindBuffer
=============================================================================

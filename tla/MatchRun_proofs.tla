-------------------------- MODULE MatchRun_proofs ---------------------------

(* Proofs about MatchRun's operators, for every length of a game, budget and *)
(* cache: what a handler of the coordinator does to the room, which timers   *)
(* it leaves armed, and which packets it sends to whom.  They close with     *)
(* MatchRetry, a run whose clients repeat themselves, for every number of    *)
(* ids and of commands sent: each command is accepted once, each seat is     *)
(* told of each revision once, and a command that is late or repeated moves  *)
(* nothing.                                                                  *)
EXTENDS MatchRetry, TLAPS

-----------------------------------------------------------------------------

(* Turns.                                                                    *)

\* The flags belong to the seat to act, and an extra turn is armed or half played.
TurnSound(st) ==
    /\ st \in TurnState
    /\ st.revealActive \cup st.extraTurnArmed \cup st.extraTurnInProgress \subseteq {st.activeSeat}
    /\ st.extraTurnArmed \cup st.extraTurnInProgress \subseteq st.extended
    /\ st.extraTurnArmed \cap st.extraTurnInProgress = {}
    /\ st.phase = "finished" => st.revealActive = {} /\ st.extraTurnInProgress = {}

\* The turns a run starts with.
LEMMA NewTurns ==
    ASSUME NEW first \in Seats
    PROVE  /\ TurnSound(newTurns(first)) /\ newTurns(first).phase = "active"
           /\ newTurns(first).revealActive = {} /\ newTurns(first).extraTurnInProgress = {}
BY TurnsAssumption DEF TurnSound, TurnState, newTurns, Seats

\* After a placement the reveal is down, and the turn is over or half played.
LEMMA TurnPlaced ==
    ASSUME NEW st, TurnSound(st), st.phase = "active", NEW r \in turnPlaced(st)
    PROVE  /\ TurnSound(r) /\ r.revealActive = {}
           /\ r.extraTurnInProgress # {} =>
                /\ r.extraTurnInProgress = {st.activeSeat} /\ r.activeSeat = st.activeSeat
                /\ st.extraTurnInProgress = {} /\ r.phase = "active"
<1> DEFINE s == st.activeSeat
           lowered == [st EXCEPT !.revealActive = st.revealActive \ {s}]
<1>1. /\ st \in TurnState /\ s \in Seats /\ otherSeat(s) \in Seats /\ MaxTurns \in Nat
      /\ st.turnCount \in 0 .. MaxTurns
      /\ st.extended \in SUBSET Seats /\ st.extraTurnArmed \in SUBSET Seats
      /\ st.extraTurnInProgress \in SUBSET Seats
  BY TurnsAssumption DEF TurnSound, TurnState, Seats, otherSeat
<1>2. /\ lowered \in TurnState /\ lowered.revealActive = {} /\ lowered.activeSeat = s
      /\ lowered.extraTurnArmed = st.extraTurnArmed
      /\ lowered.extraTurnInProgress = st.extraTurnInProgress
      /\ lowered.extended = st.extended /\ lowered.turnCount = st.turnCount
      /\ lowered.phase = st.phase
  BY <1>1 DEF TurnSound, TurnState
<1>3. \/ \E k \in 1 .. MaxTurns - st.turnCount : r = turnEnded(lowered, k)
      \/ s \in st.extraTurnArmed /\ r = firstHalf(lowered)
  BY DEF turnPlaced
<1> HIDE DEF lowered
<1>4. CASE \E k \in 1 .. MaxTurns - st.turnCount : r = turnEnded(lowered, k)
  <2>1. PICK k \in 1 .. MaxTurns - st.turnCount : r = turnEnded(lowered, k)
    BY <1>4
  <2> DEFINE over == st.turnCount + k = MaxTurns
             next == IF over = (k % 2 = 1) THEN s ELSE otherSeat(s)
  <2>2. st.turnCount + k \in 0 .. MaxTurns /\ next \in Seats
    BY <1>1
  <2>3. r = [lowered EXCEPT
                !.turnCount = st.turnCount + k,
                !.phase = IF over THEN "finished" ELSE "active",
                !.activeSeat = next,
                !.extraTurnArmed = lowered.extraTurnArmed \ {s},
                !.extraTurnInProgress = lowered.extraTurnInProgress \ {s}]
    BY <1>2, <2>1 DEF turnEnded
  <2> HIDE DEF next, over
  <2>4. /\ r \in TurnState /\ r.revealActive = {} /\ r.extraTurnArmed = {}
        /\ r.extraTurnInProgress = {} /\ r.extended = st.extended
    BY <1>1, <1>2, <2>2, <2>3 DEF TurnState, TurnSound
  <2> QED BY <2>4 DEF TurnSound
<1>5. CASE s \in st.extraTurnArmed /\ r = firstHalf(lowered)
  <2>1. r = [lowered EXCEPT !.extraTurnArmed = lowered.extraTurnArmed \ {s},
                            !.extraTurnInProgress = lowered.extraTurnInProgress \cup {s}]
    BY <1>2, <1>5 DEF firstHalf
  <2>2. /\ r \in TurnState /\ r.revealActive = {} /\ r.extraTurnArmed = {}
        /\ r.extraTurnInProgress = {s} /\ r.extended = st.extended
        /\ r.activeSeat = s /\ r.phase = st.phase
    BY <1>1, <1>2, <2>1 DEF TurnState, TurnSound
  <2>3. st.extraTurnInProgress = {} /\ s \in st.extended
    BY <1>5 DEF TurnSound
  <2> QED BY <1>1, <2>2, <2>3 DEF TurnSound
<1> QED BY <1>3, <1>4, <1>5

\* A power-up keeps the turn where it is, and only a reveal raises a flag a clock is for.
LEMMA PowerupUsed ==
    ASSUME NEW st, TurnSound(st), st.phase = "active",
           NEW r \in setUp(st) \cup reveal(st) \cup armExtraTurn(st)
    PROVE  /\ TurnSound(r) /\ r.phase = "active" /\ r.activeSeat = st.activeSeat
           /\ r.extraTurnInProgress = st.extraTurnInProgress
           /\ r \in reveal(st) => r.revealActive = {st.activeSeat}
           /\ r \in setUp(st) \cup armExtraTurn(st) => r.revealActive = st.revealActive
<1> DEFINE s == st.activeSeat
<1>1. /\ st \in TurnState /\ s \in Seats /\ SetupBudget \in Nat
      /\ st.setups \in [Seats -> 0 .. SetupBudget]
  BY TurnsAssumption DEF TurnSound, TurnState
<1>5. ASSUME r \in reveal(st) PROVE r.revealActive = {s}
  <2>1. r = [st EXCEPT !.revealed = st.revealed \cup {s},
                       !.revealActive = st.revealActive \cup {s}]
    BY <1>5 DEF reveal
  <2>2. r.revealActive = st.revealActive \cup {s}
    BY <1>1, <2>1 DEF TurnState
  <2> QED BY <2>2 DEF TurnSound
<1>2. CASE r \in setUp(st)
  <2>1. /\ r = [st EXCEPT !.setups = [st.setups EXCEPT ![s] = st.setups[s] + 1]]
        /\ [st.setups EXCEPT ![s] = st.setups[s] + 1] \in [Seats -> 0 .. SetupBudget]
    BY <1>1, <1>2 DEF setUp
  <2>2. /\ r \in TurnState /\ r.phase = "active" /\ r.activeSeat = s
        /\ r.extraTurnInProgress = st.extraTurnInProgress
        /\ r.revealActive = st.revealActive /\ r.extended = st.extended
        /\ r.extraTurnArmed = st.extraTurnArmed
    BY <1>1, <2>1 DEF TurnState
  <2> QED BY <1>5, <2>2 DEF TurnSound
<1>3. CASE r \in reveal(st)
  <2>1. /\ r = [st EXCEPT !.revealed = st.revealed \cup {s},
                          !.revealActive = st.revealActive \cup {s}]
        /\ s \notin st.revealed
    BY <1>3 DEF reveal
  <2>2. /\ r \in TurnState /\ r.phase = "active" /\ r.activeSeat = s
        /\ r.extraTurnInProgress = st.extraTurnInProgress
        /\ r.revealActive = {s} /\ r.extended = st.extended
        /\ r.extraTurnArmed = st.extraTurnArmed /\ r.revealed # st.revealed
    BY <1>1, <2>1 DEF TurnState, TurnSound
  <2>3. r \notin setUp(st) \cup armExtraTurn(st)
    BY <1>1, <2>2 DEF setUp, armExtraTurn, TurnState
  <2> QED BY <2>2, <2>3 DEF TurnSound
<1>4. CASE r \in armExtraTurn(st)
  <2>1. /\ r = [st EXCEPT !.extended = st.extended \cup {s},
                          !.extraTurnArmed = st.extraTurnArmed \cup {s}]
        /\ s \notin st.extended
    BY <1>4 DEF armExtraTurn
  <2>2. /\ r \in TurnState /\ r.phase = "active" /\ r.activeSeat = s
        /\ r.extraTurnInProgress = st.extraTurnInProgress
        /\ r.revealActive = st.revealActive /\ r.extended = st.extended \cup {s}
        /\ r.extraTurnArmed = st.extraTurnArmed \cup {s} /\ s \notin st.extraTurnInProgress
    BY <1>1, <2>1 DEF TurnState, TurnSound
  <2> QED BY <1>5, <2>2 DEF TurnSound
<1> QED BY <1>2, <1>3, <1>4

\* A reveal that closes leaves the turn alone.
LEMMA RevealEnded ==
    ASSUME NEW st, TurnSound(st), NEW s \in Seats, NEW r \in endReveal(st, s)
    PROVE  /\ TurnSound(r) /\ r.phase = st.phase /\ r.activeSeat = st.activeSeat
           /\ r.extraTurnInProgress = st.extraTurnInProgress
           /\ r.revealActive = st.revealActive \ {s}
<1>1. st \in TurnState /\ r = [st EXCEPT !.revealActive = st.revealActive \ {s}]
  BY DEF TurnSound, endReveal
<1>2. /\ r \in TurnState /\ r.phase = st.phase /\ r.activeSeat = st.activeSeat
      /\ r.extraTurnInProgress = st.extraTurnInProgress
      /\ r.revealActive = st.revealActive \ {s} /\ r.extended = st.extended
      /\ r.extraTurnArmed = st.extraTurnArmed
  BY <1>1 DEF TurnState
<1> QED BY <1>2 DEF TurnSound

\* A timeout places, as its player might have.
LEMMA TimedOut ==
    ASSUME NEW st, TurnSound(st), st.phase = "active", NEW r \in timedOut(st)
    PROVE  /\ TurnSound(r) /\ r.revealActive = {}
           /\ r.extraTurnInProgress # {} =>
                /\ r.extraTurnInProgress = {st.activeSeat} /\ r.activeSeat = st.activeSeat
                /\ st.extraTurnInProgress = {} /\ r.phase = "active"
<1>1. CASE r \in turnPlaced(st)
  BY <1>1, TurnPlaced
<1>2. CASE \E w \in setUp(st) : r \in turnPlaced(w)
  <2>1. PICK w \in setUp(st) : r \in turnPlaced(w)
    BY <1>2
  <2>2. /\ TurnSound(w) /\ w.phase = "active" /\ w.activeSeat = st.activeSeat
        /\ w.extraTurnInProgress = st.extraTurnInProgress
    BY PowerupUsed
  <2> QED BY <2>1, <2>2, TurnPlaced
<1> QED BY <1>1, <1>2 DEF timedOut

\* What the reducer may make of a client's command.
CommandDone(st, s, type, r) ==
    /\ TurnSound(r) /\ st.phase = "active"
    /\ type # "end-reveal" => s = st.activeSeat
    /\ type = "place" =>
        /\ r.revealActive = {}
        /\ r.extraTurnInProgress # {} =>
            /\ r.extraTurnInProgress = {s} /\ r.activeSeat = s
            /\ st.extraTurnInProgress = {} /\ r.phase = "active"
    /\ type # "place" =>
        /\ r.phase = "active" /\ r.activeSeat = st.activeSeat
        /\ r.extraTurnInProgress = st.extraTurnInProgress
        /\ r.revealActive = IF type = "reveal" THEN {s}
                            ELSE IF type = "end-reveal" THEN st.revealActive \ {s}
                            ELSE st.revealActive

\* The reducer keeps to that.
LEMMA Outcome ==
    ASSUME NEW st, TurnSound(st), NEW s \in Seats, NEW type \in CommandTypes,
           NEW r \in outcomes(st, s, type)
    PROVE  CommandDone(st, s, type, r)
<1>1. st.phase = "active"
  BY DEF outcomes, TurnSound, TurnState
<1>2. CASE type = "end-reveal"
  <2>1. r \in endReveal(st, s)
    BY <1>1, <1>2 DEF outcomes
  <2> QED BY <1>1, <1>2, <2>1, RevealEnded DEF CommandDone
<1>3. CASE type = "place"
  <2>1. r \in turnPlaced(st) /\ s = st.activeSeat
    BY <1>1, <1>3 DEF outcomes
  <2> QED BY <1>1, <1>3, <2>1, TurnPlaced DEF CommandDone
<1>4. CASE type \in {"reveal", "extra-turn", "shield"}
  <2>1. /\ s = st.activeSeat
        /\ r \in IF type = "reveal" THEN reveal(st)
                 ELSE IF type = "extra-turn" THEN armExtraTurn(st) ELSE setUp(st)
    BY <1>1, <1>4 DEF outcomes
  <2> QED BY <1>1, <1>4, <2>1, PowerupUsed DEF CommandDone
<1> QED BY <1>2, <1>3, <1>4 DEF CommandTypes

-----------------------------------------------------------------------------

(* The server's state.                                                       *)

Phases == {"ready", "active", "finished", "abandoned"}

Batch    == Seq(Command) \ {<<>>}
Withheld == {b \in Buffer : b.commands \in Batch}

Started  == [kind : {"game-start"}, run : Nat, state : TurnState]
Accepted == [kind : {"accepted"}, run : Nat, id : Int, from : Nat, to : Nat, seat : Seats,
             commands : Batch, timed : BOOLEAN]
Reasons  == {"no-active-match", "wrong-match", "game-finished", "stale-revision",
             "command-id-reused", "rules"}
Rejected == [kind : {"rejected"}, run : Nat, id : Int, revision : Nat, reason : Reasons]
Notice   == [kind : {"opponent-disconnected", "closed"}]
Reply    == {m \in Accepted : m.id \in Nat}
Packet   == Started \cup Accepted \cup Rejected \cup Notice

Envelope == [kind : {"command"}, run : Nat, id : Nat, expected : Nat, type : CommandTypes]
Upward   == Envelope \cup [kind : {"ready"}, ready : {TRUE}] \cup [kind : {"close"}]

CacheEntry == [id : Nat, fingerprint : [run : Nat, expected : Nat, type : CommandTypes],
               reply : Reply]

RunState ==
    [id : Nat, phase : Phases, revision : Nat, state : TurnState,
     commandCaches : [Seats -> Seq(CacheEntry)],
     acceptedCommandIds : [Seats -> SUBSET Nat],
     bufferedOpponentUpdate : {<<>>} \cup {<<b>> : b \in Withheld}]

ServerState ==
    [phase : Phases, readySeats : SUBSET Seats, run : RunState, turnTimer : BOOLEAN,
     revealTimers : SUBSET Seats, expired : BOOLEAN, sent : [Seats -> Seq(Packet)],
     completed : Seq(Nat)]

\* The room and its run are in one phase, and each run that was played out has been handed
\* over once.
RunSound(sv) ==
    /\ sv \in ServerState /\ TurnSound(sv.run.state)
    /\ sv.phase = sv.run.phase
    /\ sv.phase = "ready" => sv.run.id = NoRun
    /\ sv.phase \in {"active", "finished"} =>
        sv.run.state.phase = sv.phase /\ sv.run.id # NoRun
    /\ sv.completed = [i \in 1 .. (IF sv.run.state.phase = "finished" THEN sv.run.id
                                   ELSE sv.run.id - 1) |-> i]

\* The turn clock runs exactly while the run is active, and a reveal window for each reveal
\* that is up.
ServerSound(sv) ==
    /\ RunSound(sv)
    /\ sv.turnTimer <=> sv.phase = "active"
    /\ sv.revealTimers = IF sv.phase = "active" THEN sv.run.state.revealActive ELSE {}

\* r differs from sv in its run's state, revision and buffer, and in what advances with
\* them: the phase, the timers, what was sent and what was completed.
SameRun(r, sv) ==
    /\ r.run.id = sv.run.id
    /\ r.run.commandCaches = sv.run.commandCaches
    /\ r.run.acceptedCommandIds = sv.run.acceptedCommandIds
    /\ r.readySeats = sv.readySeats

held(sv) == IF buffering(sv) THEN sv.run.bufferedOpponentUpdate[1].commands ELSE <<>>
heldFrom(sv) ==
    IF buffering(sv) THEN sv.run.bufferedOpponentUpdate[1].from ELSE sv.run.revision
heldSeat(sv, s) == IF buffering(sv) THEN sv.run.bufferedOpponentUpdate[1].seat ELSE s

update(sv, id, from, s, commands, timed) ==
    [kind |-> "accepted", run |-> sv.run.id, id |-> id, from |-> from,
     to |-> sv.run.revision + 1, seat |-> s, commands |-> commands, timed |-> timed]

\* The command of seat s is told to s, and withheld from its opponent or told to it with
\* what was withheld before.
Spread(sv, r, s, id, command, hold) ==
    LET o == otherSeat(s)
        timed == command.after.phase = "active"
        commands == Append(held(sv), command)
    IN  /\ SameRun(r, sv)
        /\ r.run.revision = sv.run.revision + 1 /\ r.run.state = command.after
        /\ r.sent[s] = Append(sv.sent[s],
                              update(sv, id, sv.run.revision, s, <<command>>, timed))
        /\ hold =>
            /\ r.sent[o] = sv.sent[o]
            /\ r.run.bufferedOpponentUpdate =
                <<[seat |-> heldSeat(sv, s), commands |-> commands, from |-> heldFrom(sv),
                   to |-> sv.run.revision + 1]>>
        /\ ~hold =>
            /\ r.sent[o] = Append(sv.sent[o], update(sv, NoId, heldFrom(sv), heldSeat(sv, s),
                                                     commands, timed))
            /\ r.run.bufferedOpponentUpdate = <<>>

\* The room is in the phase the reducer's state is in.
InPhase(r, st) == r.phase = st.phase

-----------------------------------------------------------------------------

(* The helpers of the handlers.                                              *)

\* The reducer's state in place of the old one, and the game's end or a new clock.
AdvancedTo(r, sv, st) ==
    /\ r \in ServerState /\ SameRun(r, sv)
    /\ r.run.state = st /\ r.run.revision = sv.run.revision + 1
    /\ r.run.bufferedOpponentUpdate = sv.run.bufferedOpponentUpdate
    /\ r.sent = sv.sent /\ r.run.phase = st.phase /\ r.phase = st.phase
    /\ r.completed = [i \in 1 .. (IF st.phase = "finished" THEN sv.run.id
                                  ELSE sv.run.id - 1) |-> i]

\* The reducer's new state replaces the old, and nothing else moves.
LEMMA Advanced ==
    ASSUME NEW sv, RunSound(sv), sv.phase = "active", NEW st \in TurnState
    PROVE  LET n == advanced(sv, st)
           IN  /\ n \in ServerState /\ SameRun(n, sv) /\ n.run.id # NoRun
               /\ n.run.state = st /\ n.run.revision = sv.run.revision + 1
               /\ n.run.bufferedOpponentUpdate = sv.run.bufferedOpponentUpdate
               /\ n.sent = sv.sent /\ n.run.phase = "active" /\ n.phase = "active"
               /\ n.completed = [i \in 1 .. sv.run.id - 1 |-> i]
               /\ n.turnTimer = sv.turnTimer /\ n.revealTimers = sv.revealTimers
<1> DEFINE n == advanced(sv, st)
           run == [sv.run EXCEPT !.state = st, !.revision = sv.run.revision + 1]
<1>1. /\ sv \in ServerState /\ sv.run \in RunState
      /\ sv.run.revision \in Nat /\ sv.run.id \in Nat /\ sv.run.id # NoRun
      /\ sv.run.phase = "active" /\ sv.completed = [i \in 1 .. sv.run.id - 1 |-> i]
  BY DEF RunSound, ServerState, RunState
<1>2. /\ run \in RunState /\ run.state = st /\ run.revision = sv.run.revision + 1
      /\ run.id = sv.run.id /\ run.phase = "active"
      /\ run.commandCaches = sv.run.commandCaches
      /\ run.acceptedCommandIds = sv.run.acceptedCommandIds
      /\ run.bufferedOpponentUpdate = sv.run.bufferedOpponentUpdate
  <2>1. sv.run.revision + 1 \in Nat
    BY <1>1
  <2>2. run \in RunState
    BY <1>1, <2>1 DEF RunState
  <2> QED BY <1>1, <2>2 DEF RunState
<1>3. n = [sv EXCEPT !.run = run]
  BY <1>1 DEF advanced, ServerState, RunState
<1> HIDE DEF run
<1>4. /\ n \in ServerState /\ n.run = run /\ n.phase = "active" /\ n.readySeats = sv.readySeats
      /\ n.sent = sv.sent /\ n.completed = sv.completed /\ n.turnTimer = sv.turnTimer
      /\ n.revealTimers = sv.revealTimers
  BY <1>1, <1>2, <1>3 DEF ServerState
<1> HIDE DEF n
<1> QED BY <1>1, <1>2, <1>4 DEF SameRun, n

\* A turn that may have ended stops the game's clocks or winds the turn's again.
LEMMA Clocked ==
    ASSUME NEW sv, RunSound(sv), sv.phase = "active", NEW st, TurnSound(st)
    PROVE  LET n == advanced(sv, st)
               r == IF st.phase = "finished" THEN finishRun(n) ELSE resetPlacementWindow(n)
           IN  AdvancedTo(r, sv, st) /\ r.turnTimer = (st.phase = "active") /\ r.revealTimers = {}
<1> DEFINE n == advanced(sv, st)
           r == IF st.phase = "finished" THEN finishRun(n) ELSE resetPlacementWindow(n)
<1>1. st \in TurnState /\ st.phase \in {"active", "finished"} /\ sv.run.id \in Nat
  BY DEF TurnSound, TurnState, RunSound, ServerState, RunState
<1>2. /\ n \in ServerState /\ SameRun(n, sv) /\ n.run.id # NoRun
      /\ n.run.state = st /\ n.run.revision = sv.run.revision + 1
      /\ n.run.bufferedOpponentUpdate = sv.run.bufferedOpponentUpdate
      /\ n.sent = sv.sent /\ n.run.phase = "active" /\ n.phase = "active"
      /\ n.completed = [i \in 1 .. sv.run.id - 1 |-> i]
  BY <1>1, Advanced
<1> HIDE DEF n
<1>3. CASE st.phase = "finished"
  <2> DEFINE over == [n.run EXCEPT !.phase = "finished"]
             all == Append(n.completed, n.run.id)
             x == [n EXCEPT !.turnTimer = FALSE, !.revealTimers = {}, !.phase = "finished",
                            !.run = over, !.completed = all]
  <2>1. /\ over \in RunState /\ over.state = st /\ over.revision = sv.run.revision + 1
        /\ over.id = sv.run.id /\ over.phase = "finished"
        /\ over.commandCaches = sv.run.commandCaches
        /\ over.acceptedCommandIds = sv.run.acceptedCommandIds
        /\ over.bufferedOpponentUpdate = sv.run.bufferedOpponentUpdate
    BY <1>2 DEF ServerState, RunState, SameRun, Phases
  <2>2. all = [i \in 1 .. sv.run.id |-> i] /\ all \in Seq(Nat)
    <3> DEFINE c == [i \in 1 .. sv.run.id - 1 |-> i]
    <3>1. /\ c \in Seq(Nat) /\ Len(c) = sv.run.id - 1 /\ n.completed = c /\ n.run.id = sv.run.id
          /\ sv.run.id # 0
      BY <1>1, <1>2 DEF SameRun, NoRun
    <3>2. \A i \in 1 .. sv.run.id - 1 : c[i] = i
      OBVIOUS
    <3> HIDE DEF c
    <3>3. /\ all \in Seq(Nat) /\ Len(all) = sv.run.id
          /\ \A i \in 1 .. sv.run.id : all[i] = i
      BY <1>1, <3>1, <3>2
    <3> QED BY <1>1, <3>3
  <2>3. r = x
    BY <1>2, <1>3 DEF finishRun, clearRoomTimer, ServerState, RunState
  <2> HIDE DEF over, all, r
  <2>4. /\ x \in ServerState /\ x.run = over /\ x.phase = "finished"
        /\ x.readySeats = sv.readySeats /\ x.sent = sv.sent /\ x.completed = all
        /\ x.turnTimer = FALSE /\ x.revealTimers = {}
    BY <1>2, <2>1, <2>2 DEF ServerState, Phases, SameRun
  <2> HIDE DEF x
  <2>5. AdvancedTo(r, sv, st) /\ r.turnTimer = FALSE /\ r.revealTimers = {}
    BY <1>3, <2>1, <2>2, <2>3, <2>4 DEF SameRun, AdvancedTo
  <2> QED BY <1>3, <2>5 DEF r, n
<1>4. CASE st.phase = "active"
  <2> DEFINE x == [n EXCEPT !.turnTimer = TRUE, !.revealTimers = {}, !.expired = FALSE]
  <2>1. r = x
    BY <1>2, <1>4 DEF resetPlacementWindow, clearRoomTimer, ServerState
  <2> HIDE DEF r
  <2>2. /\ x \in ServerState /\ x.run = n.run /\ x.phase = "active"
        /\ x.readySeats = n.readySeats /\ x.sent = sv.sent /\ x.completed = n.completed
        /\ x.turnTimer = TRUE /\ x.revealTimers = {}
    BY <1>2 DEF ServerState
  <2> HIDE DEF x
  <2>3. AdvancedTo(r, sv, st) /\ r.turnTimer = TRUE /\ r.revealTimers = {}
    BY <1>2, <1>4, <2>1, <2>2 DEF SameRun, AdvancedTo
  <2> QED BY <1>4, <2>3 DEF r, n
<1> QED BY <1>1, <1>3, <1>4

\* A command that leaves the turn where it is leaves the clocks alone.
LEMMA Unclocked ==
    ASSUME NEW sv, RunSound(sv), sv.phase = "active", NEW st, TurnSound(st), st.phase = "active"
    PROVE  LET n == advanced(sv, st)
           IN  AdvancedTo(n, sv, st) /\ n.turnTimer = sv.turnTimer /\ n.revealTimers = sv.revealTimers
<1>1. st \in TurnState
  BY DEF TurnSound
<1> QED BY <1>1, Advanced DEF AdvancedTo

\* r differs from n only in what was sent and what is withheld.
Alike(r, n) ==
    /\ r.phase = n.phase /\ r.readySeats = n.readySeats /\ r.turnTimer = n.turnTimer
    /\ r.revealTimers = n.revealTimers /\ r.expired = n.expired /\ r.completed = n.completed
    /\ r.run.id = n.run.id /\ r.run.phase = n.run.phase /\ r.run.revision = n.run.revision
    /\ r.run.state = n.run.state /\ r.run.commandCaches = n.run.commandCaches
    /\ r.run.acceptedCommandIds = n.run.acceptedCommandIds

\* A packet is appended to one seat's socket.
LEMMA Sent ==
    ASSUME NEW n \in ServerState, NEW s \in Seats, NEW p \in Packet
    PROVE  LET r == send(n, s, p)
           IN  /\ r \in ServerState /\ Alike(r, n) /\ r.run = n.run
               /\ r.sent[s] = Append(n.sent[s], p)
               /\ r.sent[otherSeat(s)] = n.sent[otherSeat(s)]
<1> DEFINE q == [n.sent EXCEPT ![s] = Append(n.sent[s], p)]
<1>1. n.sent \in [Seats -> Seq(Packet)] /\ otherSeat(s) \in Seats /\ otherSeat(s) # s
  BY DEF ServerState, otherSeat, Seats
<1>2. q \in [Seats -> Seq(Packet)]
  BY <1>1
<1>3. q[s] = Append(n.sent[s], p) /\ q[otherSeat(s)] = n.sent[otherSeat(s)]
  BY <1>1
<1>4. send(n, s, p) = [n EXCEPT !.sent = q]
  BY DEF send, ServerState
<1> HIDE DEF q
<1>5. [n EXCEPT !.sent = q] \in ServerState
  BY <1>2 DEF ServerState
<1> QED BY <1>3, <1>4, <1>5 DEF Alike, ServerState

\* The run's buffer is replaced.
LEMMA Rebuffered ==
    ASSUME NEW n \in ServerState, NEW b \in {<<>>} \cup {<<w>> : w \in Withheld}
    PROVE  LET r == [n EXCEPT !.run = [n.run EXCEPT !.bufferedOpponentUpdate = b]]
           IN  /\ r \in ServerState /\ Alike(r, n) /\ r.sent = n.sent
               /\ r.run.bufferedOpponentUpdate = b
<1>1. n.run \in RunState
  BY DEF ServerState
<1>2. [n.run EXCEPT !.bufferedOpponentUpdate = b] \in RunState
  BY <1>1 DEF RunState
<1> QED BY <1>1, <1>2 DEF Alike, ServerState, RunState

\* A command joins what is already withheld, and the batch ends at the run's revision.
LEMMA Folded ==
    ASSUME NEW n \in ServerState, buffering(n), NEW command \in Command
    PROVE  LET r == folded(n, command)
               b == n.run.bufferedOpponentUpdate[1]
               w == [seat |-> b.seat, commands |-> Append(b.commands, command),
                     from |-> b.from, to |-> n.run.revision]
           IN  /\ r \in ServerState /\ Alike(r, n) /\ r.sent = n.sent
               /\ b \in Withheld /\ w \in Withheld /\ r.run.bufferedOpponentUpdate = <<w>>
<1> DEFINE b == n.run.bufferedOpponentUpdate[1]
           all == Append(b.commands, command)
           w == [seat |-> b.seat, commands |-> all, from |-> b.from, to |-> n.run.revision]
<1>1. n.run \in RunState /\ n.run.revision \in Nat /\ b \in Withheld
  BY DEF ServerState, RunState, buffering
<1>2. all \in Batch
  <2>1. b.commands \in Seq(Command)
    BY <1>1 DEF Withheld, Batch
  <2> HIDE DEF b
  <2> QED BY <2>1 DEF Batch
<1> HIDE DEF all, b
<1>3. w \in Withheld
  BY <1>1, <1>2 DEF Withheld, Buffer, Batch
<1>4. folded(n, command) = [n EXCEPT !.run = [n.run EXCEPT !.bufferedOpponentUpdate = <<w>>]]
  BY <1>1 DEF folded, b, all, ServerState, RunState
<1> HIDE DEF w
<1>5. LET r == [n EXCEPT !.run = [n.run EXCEPT !.bufferedOpponentUpdate = <<w>>]]
      IN  /\ r \in ServerState /\ Alike(r, n) /\ r.sent = n.sent
          /\ r.run.bufferedOpponentUpdate = <<w>>
  BY <1>3, Rebuffered
<1> QED BY <1>1, <1>3, <1>4, <1>5 DEF w, all, b

\* What is withheld goes to the opponent of the seat that has just acted.
LEMMA Released ==
    ASSUME NEW n \in ServerState, NEW w \in Withheld, n.run.bufferedOpponentUpdate = <<w>>,
           NEW s \in Seats
    PROVE  LET r == released(n, s)
               p == [kind |-> "accepted", run |-> n.run.id, id |-> NoId, from |-> w.from,
                     to |-> w.to, seat |-> w.seat, commands |-> w.commands,
                     timed |-> n.run.phase = "active"]
           IN  /\ r \in ServerState /\ Alike(r, n) /\ r.run.bufferedOpponentUpdate = <<>>
               /\ r.sent[s] = n.sent[s]
               /\ r.sent[otherSeat(s)] = Append(n.sent[otherSeat(s)], p)
<1> DEFINE m == [n EXCEPT !.run = [n.run EXCEPT !.bufferedOpponentUpdate = <<>>]]
           p == [kind |-> "accepted", run |-> n.run.id, id |-> NoId, from |-> w.from,
                 to |-> w.to, seat |-> w.seat, commands |-> w.commands,
                 timed |-> n.run.phase = "active"]
<1>1. m \in ServerState /\ Alike(m, n) /\ m.sent = n.sent /\ m.run.bufferedOpponentUpdate = <<>>
  BY Rebuffered
<1>2. p \in Packet
  BY DEF Packet, Accepted, ServerState, RunState, Withheld, Buffer, Batch, NoId
<1>3. /\ otherSeat(s) \in Seats /\ otherSeat(otherSeat(s)) = s
  BY DEF otherSeat, Seats
<1>4. released(n, s) = send(m, otherSeat(s), p)
  <2>1. m = [n EXCEPT !.run.bufferedOpponentUpdate = <<>>]
    BY DEF ServerState, RunState
  <2>2. m.run.id = n.run.id /\ m.run.phase = n.run.phase
    BY <1>1 DEF Alike
  <2>3. n.run.bufferedOpponentUpdate[1] = w
    OBVIOUS
  <2> HIDE DEF m
  <2> QED BY <2>1, <2>2, <2>3 DEF released, acceptedUpdate
<1> HIDE DEF m, p
<1>5. LET r == send(m, otherSeat(s), p)
      IN  /\ r \in ServerState /\ Alike(r, m) /\ r.run = m.run
          /\ r.sent[otherSeat(s)] = Append(m.sent[otherSeat(s)], p)
          /\ r.sent[s] = m.sent[s]
  BY <1>1, <1>2, <1>3, Sent
<1> QED BY <1>1, <1>4, <1>5 DEF Alike, p

\* A command that has been applied is told to its seat, and told to its opponent with what
\* was withheld before, or withheld.
LEMMA Told ==
    ASSUME NEW sv \in ServerState, NEW n \in ServerState, NEW s \in Seats,
           NEW command \in Command, NEW id \in Int, NEW hold \in BOOLEAN,
           SameRun(n, sv), n.run.state = command.after, n.run.phase = command.after.phase,
           n.run.revision = sv.run.revision + 1, n.sent = sv.sent,
           n.run.bufferedOpponentUpdate = sv.run.bufferedOpponentUpdate
    PROVE  LET told == send(n, s, acceptedUpdate(n, id, sv.run.revision, n.run.revision, s,
                                                 <<command>>))
               r == IF buffering(told)
                    THEN IF hold THEN folded(told, command)
                         ELSE released(folded(told, command), s)
                    ELSE IF hold THEN withheld(told, s, sv.run.revision, command)
                    ELSE send(told, otherSeat(s),
                              acceptedUpdate(n, NoId, sv.run.revision, n.run.revision, s,
                                             <<command>>))
           IN  r \in ServerState /\ Alike(r, n) /\ Spread(sv, r, s, id, command, hold)
<1> DEFINE timed == command.after.phase = "active"
           own == update(sv, id, sv.run.revision, s, <<command>>, timed)
           other == update(sv, NoId, sv.run.revision, s, <<command>>, timed)
           o == otherSeat(s)
           told == send(n, s, own)
<1>1. /\ sv.run \in RunState /\ sv.run.revision \in Nat /\ sv.run.id \in Nat
      /\ n.run.id = sv.run.id /\ <<command>> \in Batch /\ o \in Seats /\ otherSeat(o) = s
      /\ timed \in BOOLEAN
  BY DEF ServerState, RunState, SameRun, otherSeat, Seats, Batch
<1>2. /\ acceptedUpdate(n, id, sv.run.revision, n.run.revision, s, <<command>>) = own
      /\ acceptedUpdate(n, NoId, sv.run.revision, n.run.revision, s, <<command>>) = other
  BY <1>1 DEF acceptedUpdate, update
<1>3. own \in Packet /\ other \in Packet
  BY <1>1 DEF update, Packet, Accepted, NoId
<1> DEFINE r == IF buffering(told)
                THEN IF hold THEN folded(told, command) ELSE released(folded(told, command), s)
                ELSE IF hold THEN withheld(told, s, sv.run.revision, command)
                ELSE send(told, o, other)
<1>4. SUFFICES r \in ServerState /\ Alike(r, n) /\ Spread(sv, r, s, id, command, hold)
  BY <1>2
<1> HIDE DEF own, other, o
<1>5. /\ told \in ServerState /\ Alike(told, n) /\ told.run = n.run
      /\ told.sent[s] = Append(sv.sent[s], own) /\ told.sent[o] = sv.sent[o]
  BY <1>3, Sent DEF o
<1> HIDE DEF told
<1>6. /\ told.run.bufferedOpponentUpdate = sv.run.bufferedOpponentUpdate
      /\ told.run.revision = sv.run.revision + 1 /\ told.run.id = sv.run.id
      /\ told.run.phase = command.after.phase /\ told.run \in RunState
      /\ buffering(told) <=> buffering(sv)
  BY <1>1, <1>5 DEF buffering, ServerState
<1> HIDE DEF timed
<1>7. \A x : Alike(x, told) => Alike(x, n) /\ SameRun(x, sv)
          /\ x.run.revision = sv.run.revision + 1 /\ x.run.state = command.after
  BY <1>5, <1>6 DEF Alike, SameRun
<1>8. CASE buffering(sv)
  <2> DEFINE b == sv.run.bufferedOpponentUpdate[1]
             w == [seat |-> b.seat, commands |-> Append(b.commands, command),
                   from |-> b.from, to |-> sv.run.revision + 1]
             f == folded(told, command)
  <2>1. /\ f \in ServerState /\ Alike(f, told) /\ f.sent = told.sent /\ w \in Withheld
        /\ f.run.bufferedOpponentUpdate = <<w>>
    <3>1. /\ told.run.bufferedOpponentUpdate[1] = b /\ told.run.revision = sv.run.revision + 1
          /\ buffering(told) /\ told \in ServerState /\ command \in Command
      BY <1>5, <1>6, <1>8
    <3> HIDE DEF b
    <3>2. LET g == folded(told, command)
              v == [seat |-> b.seat, commands |-> Append(b.commands, command),
                    from |-> b.from, to |-> told.run.revision]
          IN  /\ g \in ServerState /\ Alike(g, told) /\ g.sent = told.sent
              /\ v \in Withheld /\ g.run.bufferedOpponentUpdate = <<v>>
      BY <3>1, Folded
    <3> QED BY <3>1, <3>2
  <2>2. /\ w = [seat |-> heldSeat(sv, s), commands |-> Append(held(sv), command),
                from |-> heldFrom(sv), to |-> sv.run.revision + 1]
        /\ w.seat = heldSeat(sv, s) /\ w.commands = Append(held(sv), command)
        /\ w.from = heldFrom(sv) /\ w.to = sv.run.revision + 1
    BY <1>8 DEF heldSeat, held, heldFrom
  <2> HIDE DEF w, f
  <2>3. CASE hold
    <3>1. r = f
      BY <1>6, <1>8, <2>3 DEF f
    <3> HIDE DEF r
    <3> QED BY <1>5, <1>7, <2>1, <2>2, <2>3, <3>1 DEF Spread, own, timed, o
  <2>4. CASE ~hold
    <3>1. r = released(f, s)
      BY <1>6, <1>8, <2>4 DEF f
    <3> DEFINE p == [kind |-> "accepted", run |-> f.run.id, id |-> NoId, from |-> w.from,
                     to |-> w.to, seat |-> w.seat, commands |-> w.commands,
                     timed |-> f.run.phase = "active"]
    <3>2. p = update(sv, NoId, heldFrom(sv), heldSeat(sv, s), Append(held(sv), command), timed)
      <4>1. f.run.id = sv.run.id /\ f.run.phase = command.after.phase
        BY <1>6, <2>1 DEF Alike
      <4> QED BY <2>2, <4>1 DEF update, timed
    <3> HIDE DEF p, r
    <3>3. /\ r \in ServerState /\ Alike(r, f) /\ r.run.bufferedOpponentUpdate = <<>>
          /\ r.sent[s] = f.sent[s] /\ r.sent[o] = Append(f.sent[o], p)
      BY <2>1, <3>1, Released DEF o, p
    <3>4. Alike(r, told)
      BY <2>1, <3>3 DEF Alike
    <3> QED BY <1>5, <1>7, <2>1, <2>4, <3>2, <3>3, <3>4 DEF Spread, own, timed, o
  <2> QED BY <2>3, <2>4
<1>9. CASE ~buffering(sv)
  <2>1. /\ held(sv) = <<>> /\ heldFrom(sv) = sv.run.revision /\ heldSeat(sv, s) = s
        /\ Append(held(sv), command) = <<command>>
        /\ sv.run.bufferedOpponentUpdate = <<>>
    BY <1>9 DEF held, heldFrom, heldSeat, buffering
  <2>2. CASE hold
    <3> DEFINE w == [seat |-> s, commands |-> <<command>>, from |-> sv.run.revision,
                     to |-> told.run.revision]
               x == [told EXCEPT !.run = [told.run EXCEPT !.bufferedOpponentUpdate = <<w>>]]
    <3>1. w \in Withheld
      <4>1. <<command>> \in Seq(Command) /\ sv.run.revision + 1 \in Nat
        BY <1>1 DEF Batch
      <4>2. w \in Buffer /\ w.commands = <<command>>
        BY <1>1, <1>6, <4>1 DEF Buffer
      <4> QED BY <1>1, <4>2 DEF Withheld
    <3>2. r = x
      BY <1>5, <1>6, <1>9, <2>2 DEF withheld, ServerState
    <3>3. w = [seat |-> heldSeat(sv, s), commands |-> Append(held(sv), command),
               from |-> heldFrom(sv), to |-> sv.run.revision + 1]
      BY <1>6, <2>1
    <3> HIDE DEF w, r
    <3>4. /\ x \in ServerState /\ Alike(x, told) /\ x.sent = told.sent
          /\ x.run.bufferedOpponentUpdate = <<w>>
      BY <1>5, <3>1, Rebuffered
    <3> HIDE DEF x
    <3> QED BY <1>5, <1>7, <2>2, <3>2, <3>3, <3>4 DEF Spread, own, timed, o
  <2>3. CASE ~hold
    <3>1. r = send(told, o, other)
      BY <1>6, <1>9, <2>3
    <3> HIDE DEF r
    <3>2. /\ r \in ServerState /\ Alike(r, told) /\ r.run = told.run
          /\ r.sent[o] = Append(told.sent[o], other) /\ r.sent[s] = told.sent[s]
      BY <1>1, <1>3, <1>5, <3>1, Sent
    <3> QED BY <1>5, <1>6, <1>7, <2>1, <2>3, <3>2 DEF Spread, own, other, timed, o
  <2> QED BY <2>2, <2>3
<1> QED BY <1>8, <1>9

-----------------------------------------------------------------------------

(* The handlers that let the game move.                                      *)

\* A state a client's command can lead to keeps the room sound; the opponent is told unless
\* the extra turn is half played.
LEMMA CommandApplied ==
    ASSUME NEW sv, ServerSound(sv), sv.phase = "active", NEW s \in Seats,
           NEW id \in Nat, NEW type \in CommandTypes, NEW st \in outcomes(sv.run.state, s, type)
    PROVE  LET r == acceptClientCommand(sv, s, id, type, st)
           IN  /\ ServerSound(r) /\ InPhase(r, st)
               /\ Spread(sv, r, s, id, [type |-> type, after |-> st],
                         s \in st.extraTurnInProgress /\ (buffering(sv) \/ type = "place"))
<1> DEFINE n0 == advanced(sv, st)
           placed == IF st.phase = "finished" THEN finishRun(n0)
                     ELSE IF type = "place" THEN resetPlacementWindow(n0) ELSE n0
           windows == IF type = "reveal" THEN placed.revealTimers \cup {s}
                      ELSE IF s \notin st.revealActive THEN placed.revealTimers \ {s}
                      ELSE placed.revealTimers
           timed == [placed EXCEPT !.revealTimers = windows]
           command == [type |-> type, after |-> st]
           halfway == s \in st.extraTurnInProgress
           hold == halfway /\ (buffering(sv) \/ type = "place")
           update1 == acceptedUpdate(timed, id, sv.run.revision, timed.run.revision, s, <<command>>)
           update2 == acceptedUpdate(timed, NoId, sv.run.revision, timed.run.revision, s,
                                     <<command>>)
           told == send(timed, s, update1)
           result == acceptClientCommand(sv, s, id, type, st)
<1>1. /\ RunSound(sv) /\ TurnSound(sv.run.state) /\ sv \in ServerState /\ sv.run.state.phase = "active"
      /\ sv.run.state \in TurnState /\ sv.run.id \in Nat /\ sv.turnTimer = TRUE
      /\ sv.revealTimers = sv.run.state.revealActive
  BY DEF ServerSound, RunSound, TurnSound, ServerState, RunState
<1>2. CommandDone(sv.run.state, s, type, st) /\ TurnSound(st)
  <2>1. CommandDone(sv.run.state, s, type, st)
    BY <1>1, Outcome
  <2> QED BY <2>1 DEF CommandDone
<1>3. /\ AdvancedTo(placed, sv, st)
      /\ placed.turnTimer = (st.phase = "active")
      /\ placed.revealTimers = IF type = "place" THEN {} ELSE sv.revealTimers
  <2>1. CASE type = "place"
    <3>1. placed = IF st.phase = "finished" THEN finishRun(n0) ELSE resetPlacementWindow(n0)
      BY <2>1
    <3> HIDE DEF placed
    <3> QED BY <1>1, <1>2, <2>1, <3>1, Clocked DEF n0
  <2>2. CASE type # "place"
    <3>1. st.phase = "active"
      BY <1>2, <2>2 DEF CommandDone
    <3>2. placed = n0
      BY <2>2, <3>1
    <3> HIDE DEF placed
    <3> QED BY <1>1, <1>2, <2>2, <3>1, <3>2, Unclocked DEF n0
  <2> QED BY <2>1, <2>2
<1> HIDE DEF placed
<1>4. windows = (IF st.phase = "active" THEN st.revealActive ELSE {}) /\ windows \subseteq Seats
  <2>1. /\ st.phase \in {"active", "finished"} /\ st.revealActive \subseteq Seats
        /\ st.phase = "finished" => st.revealActive = {}
        /\ sv.run.state.revealActive \subseteq {sv.run.state.activeSeat}
        /\ sv.run.state.revealActive \subseteq Seats
    BY <1>1, <1>2 DEF TurnSound, TurnState
  <2>2. CASE type = "place"
    BY <1>2, <1>3, <2>1, <2>2 DEF CommandDone
  <2>3. CASE type = "reveal"
    BY <1>1, <1>2, <1>3, <2>1, <2>3 DEF CommandDone
  <2>4. CASE type = "end-reveal"
    BY <1>1, <1>2, <1>3, <2>1, <2>4 DEF CommandDone
  <2>5. CASE type \in {"shield", "extra-turn"}
    BY <1>1, <1>2, <1>3, <2>1, <2>5 DEF CommandDone
  <2> QED BY <2>2, <2>3, <2>4, <2>5 DEF CommandTypes
<1> HIDE DEF windows
<1>5. /\ timed \in ServerState /\ SameRun(timed, sv) /\ timed.revealTimers = windows
      /\ timed.run = placed.run /\ timed.sent = sv.sent /\ timed.phase = st.phase
      /\ timed.turnTimer = placed.turnTimer /\ timed.completed = placed.completed
  BY <1>3, <1>4 DEF AdvancedTo, ServerState, SameRun
<1>6. timed = IF type = "reveal" THEN [placed EXCEPT !.revealTimers = placed.revealTimers \cup {s}]
              ELSE IF s \notin st.revealActive
              THEN [placed EXCEPT !.revealTimers = placed.revealTimers \ {s}]
              ELSE placed
  <2>1. placed = [placed EXCEPT !.revealTimers = placed.revealTimers]
    BY <1>3 DEF AdvancedTo, ServerState
  <2> QED BY <2>1 DEF windows
<1>7. command \in Command /\ command.after = st
  BY <1>2 DEF Command, TurnSound
<1>8. result = IF buffering(told)
               THEN IF halfway THEN folded(told, command) ELSE released(folded(told, command), s)
               ELSE IF type = "place" /\ halfway THEN withheld(told, s, sv.run.revision, command)
               ELSE send(told, otherSeat(s), update2)
  <2>1. [update1 EXCEPT !.id = NoId] = update2
    BY DEF acceptedUpdate
  <2> HIDE DEF update2, update1
  <2>2. timed = IF type = "reveal" THEN [placed EXCEPT !.revealTimers = @ \cup {s}]
                ELSE IF s \notin st.revealActive THEN [placed EXCEPT !.revealTimers = @ \ {s}]
                ELSE placed
    BY <1>6
  <2> HIDE DEF timed
  <2>3. result = LET a == acceptedUpdate(timed, id, sv.run.revision, timed.run.revision, s, <<command>>)
                     b == send(timed, s, a)
                 IN  IF buffering(b)
                     THEN IF halfway THEN folded(b, command) ELSE released(folded(b, command), s)
                     ELSE IF type = "place" /\ halfway
                     THEN withheld(b, s, sv.run.revision, command)
                     ELSE send(b, otherSeat(s), [a EXCEPT !.id = NoId])
    BY <2>2 DEF acceptClientCommand, placed
  <2> QED BY <2>1, <2>3 DEF update1
<1> HIDE DEF timed
<1>9. buffering(told) <=> buffering(sv)
  <2>1. update1 \in Packet
    <3>1. /\ <<command>> \in Batch /\ sv.run.revision \in Nat
          /\ timed.run.revision = sv.run.revision + 1 /\ timed.run.id = sv.run.id
      BY <1>1, <1>3, <1>5, <1>7 DEF AdvancedTo, SameRun, ServerState, RunState, Batch
    <3> QED BY <1>1, <3>1 DEF acceptedUpdate, Packet, Accepted
  <2>2. told.run = timed.run
    BY <1>5, <2>1, Sent
  <2> QED BY <1>3, <1>5, <2>2 DEF AdvancedTo, buffering
<1>10. result = IF buffering(told)
                THEN IF hold THEN folded(told, command) ELSE released(folded(told, command), s)
                ELSE IF hold THEN withheld(told, s, sv.run.revision, command)
                ELSE send(told, otherSeat(s), update2)
  BY <1>8, <1>9
<1> HIDE DEF hold, command, result
<1>11. result \in ServerState /\ Alike(result, timed) /\ Spread(sv, result, s, id, command, hold)
  <2>1. hold \in BOOLEAN
    BY DEF hold
  <2>2. /\ timed.run.state = command.after /\ timed.run.phase = command.after.phase
        /\ timed.run.revision = sv.run.revision + 1
        /\ timed.run.bufferedOpponentUpdate = sv.run.bufferedOpponentUpdate
    BY <1>3, <1>5, <1>7 DEF AdvancedTo
  <2> QED BY <1>1, <1>5, <1>7, <1>10, <2>1, <2>2, Told
<1>12. ServerSound(result) /\ result.phase = st.phase
  <2>1. /\ result.run.state = st /\ result.phase = st.phase /\ result.run.phase = st.phase
        /\ result.run.id = sv.run.id /\ result.turnTimer = (st.phase = "active")
        /\ result.revealTimers = IF st.phase = "active" THEN st.revealActive ELSE {}
        /\ result.completed = [i \in 1 .. (IF st.phase = "finished" THEN sv.run.id
                                           ELSE sv.run.id - 1) |-> i]
    BY <1>3, <1>4, <1>5, <1>11 DEF AdvancedTo, Alike, SameRun
  <2>2. st.phase \in {"active", "finished"}
    BY <1>2 DEF TurnSound, TurnState
  <2>3. sv.run.id # NoRun
    BY DEF ServerSound, RunSound
  <2> QED BY <1>2, <1>11, <2>1, <2>2, <2>3 DEF ServerSound, RunSound
<1> QED BY <1>11, <1>12 DEF result, hold, command, InPhase

\* A turn that times out is told like a placement, and frees what was withheld.
LEMMA TimeoutApplied ==
    ASSUME NEW sv, RunSound(sv), sv.phase = "active", NEW st \in timedOut(sv.run.state)
    PROVE  LET r == timeoutResolved(sv, st)
               s == sv.run.state.activeSeat
           IN  /\ ServerSound(r) /\ r.phase = st.phase
               /\ Spread(sv, r, s, NoId, [type |-> "timeout", after |-> st],
                         ~buffering(sv) /\ s \in st.extraTurnInProgress)
<1> DEFINE s == sv.run.state.activeSeat
           n0 == advanced(sv, st)
           timed == IF st.phase = "finished" THEN finishRun(n0) ELSE resetPlacementWindow(n0)
           command == [type |-> "timeout", after |-> st]
           halfway == s \in st.extraTurnInProgress
           hold == ~buffering(sv) /\ halfway
           update1 == acceptedUpdate(timed, NoId, sv.run.revision, timed.run.revision, s,
                                     <<command>>)
           told == send(timed, s, update1)
           result == timeoutResolved(sv, st)
<1>1. /\ TurnSound(sv.run.state) /\ sv \in ServerState /\ sv.run.state.phase = "active"
      /\ sv.run.id \in Nat /\ sv.run.id # NoRun /\ s \in Seats /\ sv.run.revision \in Nat
  BY DEF RunSound, TurnSound, TurnState, ServerState, RunState
<1>2. TurnSound(st) /\ st.revealActive = {}
  <2>1. PICK old : old = sv.run.state
    OBVIOUS
  <2>2. TurnSound(old) /\ old.phase = "active" /\ st \in timedOut(old)
    BY <1>1, <2>1
  <2> QED BY <2>2, TimedOut
<1>3. AdvancedTo(timed, sv, st) /\ timed.turnTimer = (st.phase = "active") /\ timed.revealTimers = {}
  BY <1>1, <1>2, Clocked
<1>4. result = IF buffering(told) THEN released(folded(told, command), s)
               ELSE IF halfway THEN withheld(told, s, sv.run.revision, command)
               ELSE send(told, otherSeat(s), update1)
  BY DEF timeoutResolved
<1> HIDE DEF timed, s
<1>5. command \in Command /\ command.after = st
  BY <1>2 DEF Command, TurnSound
<1>6. timed.run.revision = sv.run.revision + 1 /\ timed.run.id = sv.run.id /\ timed \in ServerState
  BY <1>3 DEF AdvancedTo, SameRun
<1>7. buffering(told) <=> buffering(sv)
  <2>1. update1 \in Packet
    <3>1. <<command>> \in Batch
      BY <1>5 DEF Batch
    <3> QED BY <1>1, <1>6, <3>1 DEF acceptedUpdate, Packet, Accepted, NoId
  <2>2. told.run = timed.run
    BY <1>1, <1>6, <2>1, Sent
  <2> QED BY <1>3, <2>2 DEF AdvancedTo, buffering
<1>8. result = IF buffering(told)
               THEN IF hold THEN folded(told, command) ELSE released(folded(told, command), s)
               ELSE IF hold THEN withheld(told, s, sv.run.revision, command)
               ELSE send(told, otherSeat(s), update1)
  BY <1>4, <1>7
<1> HIDE DEF hold, command, result
<1>9. result \in ServerState /\ Alike(result, timed) /\ Spread(sv, result, s, NoId, command, hold)
  <2>1. hold \in BOOLEAN /\ NoId \in Int
    BY DEF hold, NoId
  <2>2. /\ timed.run.state = command.after /\ timed.run.phase = command.after.phase
        /\ timed.run.bufferedOpponentUpdate = sv.run.bufferedOpponentUpdate
        /\ SameRun(timed, sv) /\ timed.sent = sv.sent
    BY <1>3, <1>5 DEF AdvancedTo
  <2> QED BY <1>1, <1>5, <1>6, <1>8, <2>1, <2>2, Told
<1>10. ServerSound(result) /\ result.phase = st.phase
  <2>1. /\ result.run.state = st /\ result.phase = st.phase /\ result.run.phase = st.phase
        /\ result.run.id = sv.run.id /\ result.turnTimer = (st.phase = "active")
        /\ result.revealTimers = {}
        /\ result.completed = [i \in 1 .. (IF st.phase = "finished" THEN sv.run.id
                                           ELSE sv.run.id - 1) |-> i]
    BY <1>3, <1>9 DEF AdvancedTo, Alike, SameRun
  <2>2. st.phase \in {"active", "finished"}
    BY <1>2 DEF TurnSound, TurnState
  <2> QED BY <1>1, <1>2, <1>9, <2>1, <2>2 DEF ServerSound, RunSound
<1> QED BY <1>9, <1>10 DEF result, hold, command, s

\* A reveal that closes is told, and joins what is withheld.
LEMMA RevealCloseApplied ==
    ASSUME NEW sv, RunSound(sv), sv.phase = "active", NEW s \in Seats,
           NEW st \in endReveal(sv.run.state, s), sv.turnTimer = TRUE,
           sv.revealTimers = sv.run.state.revealActive \ {s}
    PROVE  LET r == revealClosed(sv, s, st)
           IN  /\ ServerSound(r) /\ r.phase = "active"
               /\ Spread(sv, r, s, NoId, [type |-> "end-reveal", after |-> st], buffering(sv))
<1> DEFINE n == advanced(sv, st)
           command == [type |-> "end-reveal", after |-> st]
           hold == buffering(sv)
           update1 == acceptedUpdate(n, NoId, sv.run.revision, n.run.revision, s, <<command>>)
           told == send(n, s, update1)
           result == revealClosed(sv, s, st)
<1>1. /\ TurnSound(sv.run.state) /\ sv \in ServerState /\ sv.run.state.phase = "active"
      /\ sv.run.id \in Nat /\ sv.run.id # NoRun /\ sv.run.revision \in Nat
  BY DEF RunSound, TurnSound, TurnState, ServerState, RunState
<1>2. TurnSound(st) /\ st.phase = "active" /\ st.revealActive = sv.run.state.revealActive \ {s}
  <2>1. PICK old : old = sv.run.state
    OBVIOUS
  <2>2. TurnSound(old) /\ old.phase = "active" /\ st \in endReveal(old, s)
    BY <1>1, <2>1
  <2>3. TurnSound(st) /\ st.phase = "active" /\ st.revealActive = old.revealActive \ {s}
    BY <2>2, RevealEnded
  <2> QED BY <2>1, <2>3
<1>3. AdvancedTo(n, sv, st) /\ n.turnTimer = TRUE /\ n.revealTimers = st.revealActive
  BY <1>2, Unclocked
<1>4. result = IF buffering(told) THEN folded(told, command)
               ELSE send(told, otherSeat(s), update1)
  BY DEF revealClosed
<1> HIDE DEF n
<1>5. command \in Command /\ command.after = st
  BY <1>2 DEF Command, TurnSound, CommandTypes
<1>6. n.run.revision = sv.run.revision + 1 /\ n.run.id = sv.run.id /\ n \in ServerState
  BY <1>3 DEF AdvancedTo, SameRun
<1>7. buffering(told) <=> buffering(sv)
  <2>1. update1 \in Packet
    <3>1. <<command>> \in Batch
      BY <1>5 DEF Batch
    <3> QED BY <1>1, <1>6, <3>1 DEF acceptedUpdate, Packet, Accepted, NoId
  <2>2. told.run = n.run
    BY <1>1, <1>6, <2>1, Sent
  <2> QED BY <1>3, <2>2 DEF AdvancedTo, buffering
<1>8. result = IF buffering(told)
               THEN IF hold THEN folded(told, command) ELSE released(folded(told, command), s)
               ELSE IF hold THEN withheld(told, s, sv.run.revision, command)
               ELSE send(told, otherSeat(s), update1)
  BY <1>4, <1>7
<1> HIDE DEF hold, command, result
<1>9. result \in ServerState /\ Alike(result, n) /\ Spread(sv, result, s, NoId, command, hold)
  <2>1. hold \in BOOLEAN /\ NoId \in Int
    BY DEF hold, NoId, buffering
  <2>2. /\ n.run.state = command.after /\ n.run.phase = command.after.phase
        /\ n.run.bufferedOpponentUpdate = sv.run.bufferedOpponentUpdate
        /\ SameRun(n, sv) /\ n.sent = sv.sent
    BY <1>3, <1>5 DEF AdvancedTo
  <2> QED BY <1>1, <1>5, <1>6, <1>8, <2>1, <2>2, Told
<1>10. ServerSound(result) /\ result.phase = "active"
  <2>1. /\ result.run.state = st /\ result.phase = "active" /\ result.run.phase = "active"
        /\ result.run.id = sv.run.id /\ result.turnTimer = TRUE
        /\ result.revealTimers = st.revealActive
        /\ result.completed = [i \in 1 .. sv.run.id - 1 |-> i]
    BY <1>2, <1>3, <1>9 DEF AdvancedTo, Alike, SameRun
  <2> QED BY <1>1, <1>2, <1>9, <2>1 DEF ServerSound, RunSound
<1> QED BY <1>9, <1>10 DEF result, hold, command

-----------------------------------------------------------------------------

(* The handlers as a whole.                                                  *)

\* A packet more leaves the room sound.
LEMMA SentSound ==
    ASSUME NEW sv, ServerSound(sv), NEW s \in Seats, NEW p \in Packet
    PROVE  ServerSound(send(sv, s, p)) /\ Alike(send(sv, s, p), sv)
<1> DEFINE r == send(sv, s, p)
<1>1. sv \in ServerState
  BY DEF ServerSound, RunSound
<1>2. r \in ServerState /\ Alike(r, sv)
  BY <1>1, Sent
<1> HIDE DEF r
<1>3. ServerSound(r)
  BY <1>2 DEF ServerSound, RunSound, Alike
<1> QED BY <1>2, <1>3 DEF r

\* r is n with an answer remembered: what is cached for s are older answers and this one,
\* and the id is taken for good.
Kept(r, n, s, e) ==
    LET entry == [id |-> e.id, fingerprint |-> fingerprint(e), reply |-> Last(n.sent[s])]
    IN  /\ r.phase = n.phase /\ r.readySeats = n.readySeats /\ r.turnTimer = n.turnTimer
        /\ r.revealTimers = n.revealTimers /\ r.expired = n.expired /\ r.completed = n.completed
        /\ r.run.id = n.run.id /\ r.run.phase = n.run.phase /\ r.run.revision = n.run.revision
        /\ r.run.state = n.run.state /\ r.sent = n.sent
        /\ r.run.bufferedOpponentUpdate = n.run.bufferedOpponentUpdate
        /\ Range(r.run.commandCaches[s]) \subseteq Range(n.run.commandCaches[s]) \cup {entry}
        /\ r.run.acceptedCommandIds[s] = n.run.acceptedCommandIds[s] \cup {e.id}
        /\ \A o \in Seats \ {s} :
            /\ r.run.commandCaches[o] = n.run.commandCaches[o]
            /\ r.run.acceptedCommandIds[o] = n.run.acceptedCommandIds[o]

\* What the caches keep of a sequence is a part of it.
LEMMA CacheTrimmed ==
    ASSUME NEW S, NEW q \in Seq(S), NEW x \in S, NEW m \in 1 .. Len(q) + 1
    PROVE  LET k == SubSeq(Append(q, x), m, Len(q) + 1)
           IN  k \in Seq(S) /\ Range(k) \subseteq Range(q) \cup {x}
<1> DEFINE a == Append(q, x)
           k == SubSeq(a, m, Len(q) + 1)
<1>1. /\ a \in Seq(S) /\ Len(a) = Len(q) + 1 /\ Len(q) \in Nat
      /\ \A i \in 1 .. Len(q) : a[i] = q[i]
      /\ a[Len(q) + 1] = x
  OBVIOUS
<1> HIDE DEF a
<1>2. k \in Seq(S) /\ Len(k) = Len(q) + 2 - m /\ \A i \in 1 .. Len(k) : k[i] = a[m + i - 1]
  BY <1>1
<1> HIDE DEF k
<1>3. ASSUME NEW v \in Range(k) PROVE v \in Range(q) \cup {x}
  <2>1. PICK i \in 1 .. Len(k) : v = k[i]
    BY <1>2 DEF Range
  <2>2. v = a[m + i - 1] /\ m + i - 1 \in 1 .. Len(q) + 1
    BY <1>1, <1>2, <2>1
  <2>3. CASE m + i - 1 \in 1 .. Len(q)
    <3>1. v = q[m + i - 1]
      BY <1>1, <2>2, <2>3
    <3>2. \A j \in 1 .. Len(q) : q[j] \in Range(q)
      BY DEF Range
    <3> QED BY <2>3, <3>1, <3>2
  <2>4. CASE m + i - 1 = Len(q) + 1
    BY <1>1, <2>2, <2>4
  <2> QED BY <1>1, <2>2, <2>3, <2>4
<1> QED BY <1>2, <1>3 DEF k, a

\* An answer is remembered and nothing else changes.
LEMMA Remembered ==
    ASSUME NEW n \in ServerState, NEW s \in Seats, NEW e \in Envelope,
           Last(n.sent[s]) \in Reply
    PROVE  LET r == remembered(n, s, e) IN r \in ServerState /\ Kept(r, n, s, e)
<1> DEFINE entry == [id |-> e.id, fingerprint |-> fingerprint(e), reply |-> Last(n.sent[s])]
           keep == IF CommandCacheSize > 1 THEN CommandCacheSize ELSE 1
           q == n.run.commandCaches[s]
           all == Append(q, entry)
           m == IF Len(all) > keep THEN Len(all) - keep + 1 ELSE 1
           k == SubSeq(all, m, Len(all))
           caches == [n.run.commandCaches EXCEPT ![s] = k]
           ids == [n.run.acceptedCommandIds EXCEPT ![s] = n.run.acceptedCommandIds[s] \cup {e.id}]
           run == [n.run EXCEPT !.commandCaches = caches, !.acceptedCommandIds = ids]
           r == remembered(n, s, e)
<1>1. /\ n.run \in RunState /\ n.run.commandCaches \in [Seats -> Seq(CacheEntry)]
      /\ n.run.acceptedCommandIds \in [Seats -> SUBSET Nat] /\ q \in Seq(CacheEntry)
      /\ e.id \in Nat
  BY DEF ServerState, RunState, Envelope
<1>2. entry \in CacheEntry
  BY DEF CacheEntry, Envelope, fingerprint
<1> HIDE DEF entry, q
<1>3. Len(all) = Len(q) + 1 /\ m \in 1 .. Len(q) + 1
  BY <1>1, <1>2, CoordinatorAssumption
<1>4. k \in Seq(CacheEntry) /\ Range(k) \subseteq Range(q) \cup {entry}
  <2> HIDE DEF m
  <2> QED BY <1>1, <1>2, <1>3, CacheTrimmed
<1>5. r = [n EXCEPT !.run = run]
  BY <1>1 DEF remembered, q, entry, ServerState, RunState
<1> HIDE DEF k
<1>6. /\ caches \in [Seats -> Seq(CacheEntry)] /\ ids \in [Seats -> SUBSET Nat]
      /\ caches[s] = k /\ ids[s] = n.run.acceptedCommandIds[s] \cup {e.id}
      /\ \A o \in Seats \ {s} :
            caches[o] = n.run.commandCaches[o] /\ ids[o] = n.run.acceptedCommandIds[o]
  BY <1>1, <1>4
<1> HIDE DEF caches, ids
<1>7. /\ run \in RunState /\ run.commandCaches = caches /\ run.acceptedCommandIds = ids
      /\ run.id = n.run.id /\ run.phase = n.run.phase /\ run.revision = n.run.revision
      /\ run.state = n.run.state
      /\ run.bufferedOpponentUpdate = n.run.bufferedOpponentUpdate
  BY <1>1, <1>6 DEF RunState
<1> HIDE DEF run, r
<1>8. /\ r \in ServerState /\ r.run = run /\ r.phase = n.phase /\ r.readySeats = n.readySeats
      /\ r.turnTimer = n.turnTimer /\ r.revealTimers = n.revealTimers /\ r.expired = n.expired
      /\ r.completed = n.completed /\ r.sent = n.sent
  BY <1>5, <1>7 DEF ServerState
<1>9. Kept(r, n, s, e)
  BY <1>4, <1>6, <1>7, <1>8 DEF Kept, q, entry
<1> QED BY <1>8, <1>9 DEF r

\* A new run: its first deadline is set, and both seats are told of it.
Begun(r, sv, first) ==
    /\ r.phase = "active" /\ r.readySeats = {} /\ r.run = newRun(sv.run.id + 1, first)
    /\ r.sent = [s \in Seats |->
                    Append(sv.sent[s], [kind |-> "game-start", run |-> sv.run.id + 1,
                                        state |-> newTurns(first)])]

\* A run starts only in a room that is ready or whose game is over.
LEMMA RunStarted ==
    ASSUME NEW sv, ServerSound(sv), sv.phase # "active", NEW ready \in SUBSET Seats,
           sv.phase \in {"ready", "finished"}, NEW first \in FirstSeats
    PROVE  LET r == startRun([sv EXCEPT !.readySeats = ready], first)
           IN  ServerSound(r) /\ Begun(r, sv, first)
<1> DEFINE turns == newTurns(first)
           run == newRun(sv.run.id + 1, first)
           notice == [kind |-> "game-start", run |-> sv.run.id + 1, state |-> turns]
           sent == [s \in Seats |-> Append(sv.sent[s], notice)]
           r == startRun([sv EXCEPT !.readySeats = ready], first)
<1>1. /\ sv \in ServerState /\ sv.run.id \in Nat /\ sv.run.id + 1 \in Nat /\ first \in Seats
      /\ sv.completed = [i \in 1 .. sv.run.id |-> i]
  <2>1. sv \in ServerState /\ sv.run.id \in Nat /\ first \in Seats
    BY CoordinatorAssumption DEF ServerSound, RunSound, ServerState, RunState
  <2>2. CASE sv.phase = "finished"
    BY <2>1, <2>2 DEF ServerSound, RunSound
  <2>3. CASE sv.phase = "ready"
    <3>1. sv.run.id = 0
      BY <2>3 DEF ServerSound, RunSound, NoRun
    <3>2. 1 .. sv.run.id = {} /\ 1 .. sv.run.id - 1 = {}
      BY <3>1
    <3> QED BY <2>1, <3>2 DEF ServerSound, RunSound
  <2> QED BY <2>1, <2>2, <2>3
<1>2. /\ TurnSound(turns) /\ turns.phase = "active" /\ turns.revealActive = {} /\ turns \in TurnState
  BY <1>1, NewTurns DEF TurnSound
<1> HIDE DEF turns
<1>3. run \in RunState /\ run.id = sv.run.id + 1 /\ run.state = turns /\ run.phase = "active"
  BY <1>1, <1>2 DEF newRun, RunState, turns, Phases
<1> HIDE DEF run
<1>4. sent \in [Seats -> Seq(Packet)]
  <2>1. notice \in Packet
    BY <1>1, <1>2 DEF Packet, Started
  <2> QED BY <1>1, <2>1 DEF ServerState
<1> HIDE DEF notice
<1>5. r = [sv EXCEPT !.phase = "active", !.readySeats = {}, !.run = run, !.turnTimer = TRUE,
                     !.revealTimers = {}, !.expired = FALSE, !.sent = sent]
  <2> DEFINE x == [sv EXCEPT !.phase = "active", !.readySeats = {}, !.run = run]
  <2>1. [[sv EXCEPT !.readySeats = ready] EXCEPT
            !.phase = "active", !.readySeats = {},
            !.run = newRun([sv EXCEPT !.readySeats = ready].run.id + 1, first)] = x
    BY <1>1 DEF ServerState, run
  <2>2. x.run.id = sv.run.id + 1 /\ x.run.state = turns /\ x.sent = sv.sent
    BY <1>1, <1>3 DEF ServerState
  <2> DEFINE y == resetPlacementWindow(x)
  <2>3. y = [x EXCEPT !.turnTimer = TRUE, !.revealTimers = {}, !.expired = FALSE]
    BY <1>1 DEF resetPlacementWindow, clearRoomTimer, ServerState
  <2>4. y.sent = sv.sent
    BY <1>1, <2>3 DEF ServerState
  <2>5. r = announced(y, [kind |-> "game-start", run |-> x.run.id, state |-> x.run.state])
    BY <2>1 DEF startRun
  <2> HIDE DEF x, y
  <2>6. r = announced(y, notice)
    BY <2>2, <2>5 DEF notice
  <2>7. r = [y EXCEPT !.sent = sent]
    BY <2>4, <2>6 DEF announced
  <2> QED BY <1>1, <2>3, <2>7 DEF ServerState, x
<1> HIDE DEF sent
<1>6. /\ r \in ServerState /\ r.phase = "active" /\ r.readySeats = {} /\ r.run = run
      /\ r.turnTimer = TRUE /\ r.revealTimers = {} /\ r.sent = sent
      /\ r.completed = [i \in 1 .. sv.run.id |-> i]
  BY <1>1, <1>3, <1>4, <1>5 DEF ServerState, Phases
<1> HIDE DEF r
<1>7. ServerSound(r)
  BY <1>1, <1>2, <1>3, <1>6 DEF ServerSound, RunSound, NoRun
<1>8. Begun(r, sv, first)
  BY <1>6 DEF Begun, run, sent, notice, turns
<1> QED BY <1>7, <1>8 DEF r

\* Ready: ignored while a run is active, noted until both seats are, and then a new run.
LEMMA ReadySet ==
    ASSUME NEW sv, ServerSound(sv), sv.phase # "abandoned", NEW s \in Seats,
           NEW r \in setReady(sv, s, TRUE)
    PROVE  /\ ServerSound(r)
           /\ \/ sv.phase = "active" /\ r = sv
              \/ sv.phase # "active" /\ r = [sv EXCEPT !.readySeats = sv.readySeats \cup {s}]
              \/ /\ sv.phase # "active" /\ sv.readySeats \cup {s} = Seats
                 /\ \E first \in FirstSeats : Begun(r, sv, first)
<1> DEFINE seats == sv.readySeats \cup {s}
           marked == [sv EXCEPT !.readySeats = seats]
<1>1. /\ sv \in ServerState /\ seats \in SUBSET Seats
      /\ sv.phase # "active" => sv.phase \in {"ready", "finished"}
  BY DEF ServerSound, RunSound, ServerState, Phases
<1>2. marked \in ServerState /\ marked.readySeats = seats
  BY <1>1 DEF ServerState
<1>3. ServerSound(marked)
  <2>1. /\ marked.phase = sv.phase /\ marked.run = sv.run /\ marked.turnTimer = sv.turnTimer
        /\ marked.revealTimers = sv.revealTimers /\ marked.completed = sv.completed
    BY <1>1 DEF ServerState
  <2> HIDE DEF marked
  <2> QED BY <1>2, <2>1 DEF ServerSound, RunSound
<1>4. CASE sv.phase = "active"
  BY <1>4 DEF setReady
<1>5. CASE sv.phase # "active" /\ seats # Seats
  BY <1>2, <1>3, <1>5 DEF setReady
<1>6. CASE sv.phase # "active" /\ seats = Seats
  <2>1. PICK first \in FirstSeats : r = startRun(marked, first)
    BY <1>2, <1>6 DEF setReady
  <2>2. ServerSound(r) /\ Begun(r, sv, first)
    BY <1>1, <1>6, <2>1, RunStarted
  <2> QED BY <1>6, <2>2
<1> QED BY <1>4, <1>5, <1>6

\* A room that is abandoned drops its clocks and what it withholds, and tells the opponent.
LEMMA Abandoned ==
    ASSUME NEW sv, ServerSound(sv), NEW s \in Seats
    PROVE  LET r == abandon(sv, s)
               o == otherSeat(s)
           IN  /\ ServerSound(r) /\ r.phase = "abandoned" /\ r.run.id = sv.run.id
               /\ r.run.state = sv.run.state /\ r.run.revision = sv.run.revision
               /\ r.run.commandCaches = sv.run.commandCaches
               /\ r.run.acceptedCommandIds = sv.run.acceptedCommandIds
               /\ sv.phase = "abandoned" => r = sv
               /\ sv.phase # "abandoned" =>
                    /\ r.run.bufferedOpponentUpdate = <<>> /\ r.readySeats = {}
                    /\ r.sent[s] = sv.sent[s]
                    /\ r.sent[o] = Append(sv.sent[o], [kind |-> "opponent-disconnected"])
<1>1. CASE sv.phase = "abandoned"
  BY <1>1 DEF abandon
<1>2. CASE sv.phase # "abandoned"
  <2> DEFINE run == [sv.run EXCEPT !.phase = "abandoned", !.bufferedOpponentUpdate = <<>>]
             x == [sv EXCEPT !.turnTimer = FALSE, !.revealTimers = {}, !.phase = "abandoned",
                             !.readySeats = {}, !.run = run]
             p == [kind |-> "opponent-disconnected"]
             o == otherSeat(s)
             r == abandon(sv, s)
  <2>1. sv \in ServerState /\ sv.run \in RunState /\ o \in Seats /\ otherSeat(o) = s
    BY DEF ServerSound, RunSound, ServerState, otherSeat, Seats
  <2>2. /\ run \in RunState /\ run.phase = "abandoned" /\ run.id = sv.run.id
        /\ run.state = sv.run.state /\ run.revision = sv.run.revision
        /\ run.commandCaches = sv.run.commandCaches
        /\ run.acceptedCommandIds = sv.run.acceptedCommandIds
        /\ run.bufferedOpponentUpdate = <<>>
    BY <2>1 DEF RunState, Phases
  <2>3. r = send(x, o, p)
    BY <1>2, <2>1 DEF abandon, clearRoomTimer, ServerState, RunState
  <2> HIDE DEF run
  <2>4. /\ x \in ServerState /\ x.run = run /\ x.phase = "abandoned" /\ x.readySeats = {}
        /\ x.turnTimer = FALSE /\ x.revealTimers = {} /\ x.sent = sv.sent
        /\ x.completed = sv.completed
    BY <2>1, <2>2 DEF ServerState, Phases
  <2>5. p \in Packet
    BY DEF Packet, Notice
  <2> HIDE DEF x, p, o, r
  <2>6. ServerSound(x)
    BY <2>2, <2>4 DEF ServerSound, RunSound
  <2>7. ServerSound(r) /\ Alike(r, x)
    BY <2>1, <2>3, <2>5, <2>6, SentSound
  <2>8. r.run = x.run /\ r.sent[o] = Append(x.sent[o], p) /\ r.sent[s] = x.sent[s]
    BY <2>1, <2>3, <2>4, <2>5, Sent
  <2> QED BY <1>2, <2>2, <2>4, <2>7, <2>8 DEF Alike, r, o, p
<1> QED BY <1>1, <1>2

\* A deadline that is resolved: nothing in a room that is not active, a timeout otherwise.
Resolved(sv, r) ==
    \/ sv.phase # "active" /\ r = sv
    \/ /\ sv.phase = "active"
       /\ \E st \in timedOut(sv.run.state), hold \in BOOLEAN :
            Spread(sv, r, sv.run.state.activeSeat, NoId, [type |-> "timeout", after |-> st], hold)
            /\ hold = (~buffering(sv) /\ sv.run.state.activeSeat \in st.extraTurnInProgress)
            /\ r.phase = st.phase

\* The turn timer: the room is sound again once the turn it stopped for is resolved.
LEMMA DeadlineResolved ==
    ASSUME NEW sv, ServerSound(sv),
           NEW r \in resolveTimeout([sv EXCEPT !.turnTimer = FALSE]), sv.phase = "active"
    PROVE  ServerSound(r) /\ Resolved(sv, r)
<1> DEFINE x == [sv EXCEPT !.turnTimer = FALSE]
<1>1. /\ sv \in ServerState /\ sv.run.phase = "active" /\ x.run = sv.run /\ x.phase = "active"
      /\ x.sent = sv.sent /\ x.readySeats = sv.readySeats /\ x.completed = sv.completed
      /\ x \in ServerState
  BY DEF ServerSound, RunSound, ServerState
<1>2. r \in resolveTimeout(x)
  OBVIOUS
<1> HIDE DEF x
<1>3. PICK st \in timedOut(x.run.state) : r = timeoutResolved(x, st)
  BY <1>1, <1>2 DEF resolveTimeout
<1>4. RunSound(x)
  BY <1>1 DEF ServerSound, RunSound
<1> DEFINE command == [type |-> "timeout", after |-> st]
           s == x.run.state.activeSeat
           hold == ~buffering(x) /\ s \in st.extraTurnInProgress
<1>5. ServerSound(r) /\ r.phase = st.phase /\ Spread(x, r, s, NoId, command, hold)
  BY <1>1, <1>3, <1>4, TimeoutApplied
<1> HIDE DEF command
<1>6. /\ buffering(x) = buffering(sv) /\ held(x) = held(sv) /\ heldFrom(x) = heldFrom(sv)
      /\ heldSeat(x, s) = heldSeat(sv, s)
  BY <1>1 DEF buffering, held, heldFrom, heldSeat
<1> HIDE DEF hold, s
<1>7. Spread(sv, r, s, NoId, command, hold)
  BY <1>1, <1>5, <1>6 DEF Spread, SameRun, update
<1>8. hold \in BOOLEAN /\ st \in timedOut(sv.run.state) /\ s = sv.run.state.activeSeat
      /\ hold = (~buffering(sv) /\ s \in st.extraTurnInProgress)
  BY <1>1, <1>3, <1>6 DEF hold, s
<1> QED BY <1>5, <1>7, <1>8 DEF Resolved, command

\* A reveal window that has run out closes its reveal, and the opponent hears of it unless
\* something is withheld from it.
LEMMA WindowClosed ==
    ASSUME NEW sv, ServerSound(sv), NEW s \in Seats, s \in sv.revealTimers,
           NEW r \in closeRevealWindow([sv EXCEPT !.revealTimers = sv.revealTimers \ {s}], s)
    PROVE  /\ ServerSound(r) /\ sv.phase = "active" /\ r.phase = "active"
           /\ \E st \in endReveal(sv.run.state, s) :
                Spread(sv, r, s, NoId, [type |-> "end-reveal", after |-> st], buffering(sv))
<1> DEFINE x == [sv EXCEPT !.revealTimers = sv.revealTimers \ {s}]
<1>1. /\ sv \in ServerState /\ sv.phase = "active" /\ sv.run.phase = "active" /\ x.run = sv.run
      /\ x.phase = "active" /\ s \in sv.run.state.revealActive
      /\ x.sent = sv.sent /\ x.readySeats = sv.readySeats /\ x.completed = sv.completed
      /\ x \in ServerState /\ x.turnTimer = TRUE
      /\ x.revealTimers = sv.run.state.revealActive \ {s}
  BY DEF ServerSound, RunSound, ServerState
<1>2. r \in closeRevealWindow(x, s)
  OBVIOUS
<1> HIDE DEF x
<1>3. PICK st \in endReveal(x.run.state, s) : r = revealClosed(x, s, st)
  BY <1>1, <1>2 DEF closeRevealWindow
<1>4. RunSound(x)
  BY <1>1 DEF ServerSound, RunSound
<1> DEFINE command == [type |-> "end-reveal", after |-> st]
<1>5. ServerSound(r) /\ r.phase = "active" /\ Spread(x, r, s, NoId, command, buffering(x))
  BY <1>1, <1>3, <1>4, RevealCloseApplied
<1> HIDE DEF command
<1>6. /\ buffering(x) = buffering(sv) /\ held(x) = held(sv) /\ heldFrom(x) = heldFrom(sv)
      /\ heldSeat(x, s) = heldSeat(sv, s)
  BY <1>1 DEF buffering, held, heldFrom, heldSeat
<1>7. Spread(sv, r, s, NoId, command, buffering(sv))
  BY <1>1, <1>5, <1>6 DEF Spread, SameRun, update
<1> QED BY <1>1, <1>3, <1>5, <1>7 DEF command

\* What a refusal says is so: its run is the one that was asked for, or the room's at the
\* revision it has, and its reason holds.
Justified(sv, s, e, p) ==
    \/ /\ p.reason = "no-active-match" /\ p.run = e.run
       /\ sv.run.id = NoRun \/ sv.phase = "abandoned"
    \/ /\ p.reason # "no-active-match" /\ sv.run.id # NoRun /\ sv.phase # "abandoned"
       /\ p.run = sv.run.id /\ p.revision = sv.run.revision
       /\ p.reason = "wrong-match" => e.run # sv.run.id
       /\ p.reason = "command-id-reused" =>
            cachedFor(sv, s, e) # {} \/ e.id \in sv.run.acceptedCommandIds[s]
       /\ p.reason = "game-finished" => sv.run.phase = "finished" \/ sv.phase = "finished"
       /\ p.reason = "rules" => e.run = sv.run.id /\ e.expected = sv.run.revision

\* How a command is answered: with a refusal, with the answer it had before, or by applying
\* it, in the room as the deadline's resolution has left it.
Answered(sv, r, s, e) ==
    \/ \E p \in Rejected : p.id = e.id /\ Justified(sv, s, e, p) /\ r = send(sv, s, p)
    \/ \E c \in repeated(sv, s, e) : r = send(sv, s, c.reply)
    \/ /\ sv.phase = "active" /\ e.run = sv.run.id /\ e.expected = sv.run.revision
       /\ refusal(sv, s, e) = "none"
       /\ \E st \in outcomes(sv.run.state, s, e.type) :
            r = remembered(acceptClientCommand(sv, s, e.id, e.type, st), s, e)

\* A refusal is a rejection that carries the command's id.
LEMMA RefusedAnswer ==
    ASSUME NEW sv, ServerSound(sv), NEW s \in Seats, NEW e \in Envelope,
           NEW run \in Nat, NEW revision \in Nat, NEW reason \in Reasons,
           \A p \in Rejected : /\ p.run = run /\ p.revision = revision /\ p.reason = reason
                             => Justified(sv, s, e, p)
    PROVE  Answered(sv, rejection(sv, s, run, e.id, revision, reason), s, e)
<1> DEFINE p == [kind |-> "rejected", run |-> run, id |-> e.id, revision |-> revision,
                 reason |-> reason]
<1>1. p \in Rejected /\ p.id = e.id
  BY DEF Rejected, Envelope
<1>3. Justified(sv, s, e, p)
  BY <1>1
<1>2. rejection(sv, s, run, e.id, revision, reason) = send(sv, s, p)
  BY DEF rejection
<1> HIDE DEF p
<1> QED BY <1>1, <1>2, <1>3 DEF Answered

\* A command is applied only while its run is active.
LEMMA AppliedAnswer ==
    ASSUME NEW sv, ServerSound(sv), NEW s \in Seats, NEW e \in Envelope,
           sv.phase # "abandoned", sv.run.id # NoRun, e.run = sv.run.id,
           refusal(sv, s, e) = "none", NEW r \in applied(sv, s, e)
    PROVE  Answered(sv, r, s, e)
<1>1. /\ sv \in ServerState /\ sv.run \in RunState /\ sv.run.id \in Nat
      /\ sv.run.revision \in Nat /\ e.type \in CommandTypes
  BY DEF ServerSound, RunSound, ServerState, RunState, Envelope
<1>2. CASE r = refused(sv, s, e, "rules")
  <2>1. e.expected = sv.run.revision
    BY DEF refusal
  <2>2. r = rejection(sv, s, sv.run.id, e.id, sv.run.revision, "rules") /\ "rules" \in Reasons
    BY <1>2 DEF refused, Reasons
  <2>3. \A p \in Rejected :
            /\ p.run = sv.run.id /\ p.revision = sv.run.revision /\ p.reason = "rules"
            => Justified(sv, s, e, p)
    BY <2>1 DEF Justified
  <2> QED BY <1>1, <2>2, <2>3, RefusedAnswer
<1>3. CASE \E st \in outcomes(sv.run.state, s, e.type) :
            r = remembered(acceptClientCommand(sv, s, e.id, e.type, st), s, e)
  <2>1. sv.phase # "finished" /\ e.expected = sv.run.revision
    BY DEF refusal
  <2>2. sv.phase = "active"
    BY <1>1, <2>1 DEF ServerSound, RunSound, ServerState, Phases
  <2> QED BY <1>3, <2>1, <2>2 DEF Answered
<1> QED BY <1>2, <1>3 DEF applied

\* Every command is answered, after the deadline it may find passed has been resolved.
LEMMA CommandHandled ==
    ASSUME NEW sv, ServerSound(sv), NEW s \in Seats, NEW e \in Envelope,
           NEW r \in handleGameCommand(sv, s, e)
    PROVE  \E w : /\ ServerSound(w) /\ Answered(w, r, s, e)
                  /\ \/ w = sv /\ (sv.phase # "active" \/ ~sv.expired)
                     \/ sv.phase = "active" /\ sv.expired /\ Resolved(sv, w)
<1> DEFINE late == sv.phase = "active" /\ sv.run.phase = "active" /\ sv.expired
<1>1. PICK w \in resolveExpiredDeadline(sv) : r \in answered(w, s, e, late)
  BY DEF handleGameCommand
<1>2. sv \in ServerState /\ sv.expired \in BOOLEAN /\ sv.phase = sv.run.phase
  BY DEF ServerSound, RunSound, ServerState
<1>3. /\ ServerSound(w)
      /\ \/ w = sv /\ (sv.phase # "active" \/ ~sv.expired)
         \/ sv.phase = "active" /\ sv.expired /\ Resolved(sv, w)
  <2>1. CASE late
    <3>1. w \in resolveTimeout([sv EXCEPT !.turnTimer = FALSE])
      BY <1>1, <2>1 DEF resolveExpiredDeadline
    <3> QED BY <2>1, <3>1, DeadlineResolved
  <2>2. CASE ~late
    BY <1>1, <1>2, <2>2 DEF resolveExpiredDeadline
  <2> QED BY <2>1, <2>2
<1> HIDE DEF late
<1>4. /\ w \in ServerState /\ w.run \in RunState /\ w.run.id \in Nat /\ w.run.revision \in Nat
      /\ e.run \in Nat /\ e.id \in Nat
  BY <1>3 DEF ServerSound, RunSound, ServerState, RunState, Envelope
<1>5. Answered(w, r, s, e)
  <2>1. CASE w.run.id = NoRun \/ w.phase = "abandoned"
    <3>1. r = rejection(w, s, e.run, e.id, 0, "no-active-match")
      BY <1>1, <2>1 DEF answered
    <3>2. \A p \in Rejected :
              /\ p.run = e.run /\ p.revision = 0 /\ p.reason = "no-active-match"
              => Justified(w, s, e, p)
      BY <2>1 DEF Justified
    <3> QED BY <1>3, <1>4, <3>1, <3>2, RefusedAnswer DEF Reasons
  <2>2. CASE ~(w.run.id = NoRun \/ w.phase = "abandoned") /\ e.run # w.run.id
    <3>1. r = rejection(w, s, w.run.id, e.id, w.run.revision, "wrong-match")
      BY <1>1, <2>2 DEF answered, refused
    <3>2. \A p \in Rejected :
              /\ p.run = w.run.id /\ p.revision = w.run.revision /\ p.reason = "wrong-match"
              => Justified(w, s, e, p)
      BY <2>2 DEF Justified
    <3> QED BY <1>3, <1>4, <3>1, <3>2, RefusedAnswer DEF Reasons
  <2>3. CASE /\ ~(w.run.id = NoRun \/ w.phase = "abandoned") /\ e.run = w.run.id
             /\ ~late /\ repeated(w, s, e) # {}
    <3>1. r \in {send(w, s, c.reply) : c \in repeated(w, s, e)}
      BY <1>1, <2>3 DEF answered
    <3> QED BY <3>1 DEF Answered
  <2>4. CASE /\ ~(w.run.id = NoRun \/ w.phase = "abandoned") /\ e.run = w.run.id
             /\ ~(~late /\ repeated(w, s, e) # {})
    <3>1. CASE refusal(w, s, e) = "none"
      <4>1. r \in applied(w, s, e)
        BY <1>1, <2>4, <3>1 DEF answered
      <4> QED BY <1>3, <2>4, <3>1, <4>1, AppliedAnswer
    <3>2. CASE refusal(w, s, e) # "none"
      <4>1. r = rejection(w, s, w.run.id, e.id, w.run.revision, refusal(w, s, e))
        BY <1>1, <2>4, <3>2 DEF answered, refused
      <4>2. refusal(w, s, e) \in Reasons
        BY <3>2 DEF refusal, Reasons
      <4>3. /\ refusal(w, s, e) \notin {"no-active-match", "wrong-match", "rules"}
            /\ refusal(w, s, e) = "command-id-reused" =>
                cachedFor(w, s, e) # {} \/ e.id \in w.run.acceptedCommandIds[s]
            /\ refusal(w, s, e) = "game-finished" =>
                w.run.phase = "finished" \/ w.phase = "finished"
        BY DEF refusal
      <4>4. \A p \in Rejected :
                /\ p.run = w.run.id /\ p.revision = w.run.revision
                /\ p.reason = refusal(w, s, e)
                => Justified(w, s, e, p)
        BY <2>4, <4>3 DEF Justified
      <4> QED BY <1>3, <1>4, <4>1, <4>2, <4>4, RefusedAnswer
    <3> QED BY <3>1, <3>2
  <2> QED BY <2>1, <2>2, <2>3, <2>4
<1> QED BY <1>3, <1>5

\* An accepted command moves the run and is remembered with what its seat was told.
LEMMA CommandAccepted ==
    ASSUME NEW sv, ServerSound(sv), sv.phase = "active", NEW s \in Seats, NEW e \in Envelope,
           NEW st \in outcomes(sv.run.state, s, e.type)
    PROVE  LET n == acceptClientCommand(sv, s, e.id, e.type, st)
               r == remembered(n, s, e)
               command == [type |-> e.type, after |-> st]
           IN  /\ ServerSound(n) /\ InPhase(n, st) /\ ServerSound(r) /\ Kept(r, n, s, e)
               /\ Spread(sv, n, s, e.id, command,
                         s \in st.extraTurnInProgress /\ (buffering(sv) \/ e.type = "place"))
               /\ Last(n.sent[s]) = update(sv, e.id, sv.run.revision, s, <<command>>,
                                           st.phase = "active")
<1> DEFINE n == acceptClientCommand(sv, s, e.id, e.type, st)
           r == remembered(n, s, e)
           command == [type |-> e.type, after |-> st]
           hold == s \in st.extraTurnInProgress /\ (buffering(sv) \/ e.type = "place")
           own == update(sv, e.id, sv.run.revision, s, <<command>>, st.phase = "active")
<1>1. e.id \in Nat /\ e.type \in CommandTypes /\ sv.sent[s] \in Seq(Packet)
  BY DEF Envelope, ServerSound, RunSound, ServerState
<1>2. ServerSound(n) /\ InPhase(n, st) /\ Spread(sv, n, s, e.id, command, hold)
  BY <1>1, CommandApplied
<1> HIDE DEF n
<1>3. TurnSound(st)
  <2>1. PICK old : old = sv.run.state
    OBVIOUS
  <2>2. TurnSound(old) /\ st \in outcomes(old, s, e.type)
    BY <2>1 DEF ServerSound, RunSound
  <2> QED BY <1>1, <2>2, Outcome DEF CommandDone
<1>4. own \in Reply
  <2>1. <<command>> \in Batch
    BY <1>1, <1>3 DEF Batch, Command, TurnSound
  <2>2. sv.run.id \in Nat /\ sv.run.revision \in Nat
    BY DEF ServerSound, RunSound, ServerState, RunState
  <2> QED BY <1>1, <2>1, <2>2 DEF update, Accepted, Reply
<1>5. n.sent[s] = Append(sv.sent[s], own)
  BY <1>2 DEF Spread
<1> HIDE DEF own
<1>6. Last(n.sent[s]) = own
  BY <1>1, <1>4, <1>5 DEF Last, Packet, Reply
<1>7. r \in ServerState /\ Kept(r, n, s, e)
  BY <1>2, <1>4, <1>6, Remembered DEF ServerSound, RunSound
<1> HIDE DEF r
<1>8. ServerSound(r)
  BY <1>2, <1>7 DEF ServerSound, RunSound, Kept
<1> QED BY <1>2, <1>6, <1>7, <1>8 DEF n, r, own

-----------------------------------------------------------------------------

(* What a step of the run does to what its seats are told and to the half turn. *)

\* A room starts sound.
LEMMA RoomCreated == ServerSound(createMatchRoom)
<1> DEFINE r == createMatchRoom
           run == [newRun(NoRun, 0) EXCEPT !.phase = "ready"]
<1>1. 0 \in Seats /\ NoRun \in Nat
  BY DEF Seats, NoRun
<1>2. /\ TurnSound(newTurns(0)) /\ newTurns(0).phase = "active" /\ newTurns(0) \in TurnState
      /\ newTurns(0).revealActive = {}
  BY <1>1, NewTurns DEF TurnSound
<1>3. run \in RunState /\ run.id = 0 /\ run.state = newTurns(0) /\ run.phase = "ready"
  <2> DEFINE n == newRun(NoRun, 0)
  <2>1. n \in RunState /\ n.id = 0 /\ n.state = newTurns(0)
    BY <1>1, <1>2 DEF newRun, RunState, Phases, NoRun
  <2> HIDE DEF n
  <2>2. run = [n EXCEPT !.phase = "ready"]
    BY DEF n
  <2> QED BY <2>1, <2>2 DEF RunState, Phases
<1> HIDE DEF run
<1>4. /\ r.phase = "ready" /\ r.run = run /\ r.turnTimer = FALSE /\ r.revealTimers = {}
      /\ r.completed = <<>> /\ r \in ServerState
  BY <1>3 DEF createMatchRoom, ServerState, Phases, run
<1>5. <<>> = [i \in 1 .. run.id - 1 |-> i]
  BY <1>3
<1> HIDE DEF r
<1> QED BY <1>2, <1>3, <1>4, <1>5 DEF ServerSound, RunSound, NoRun, r

\* A cached answer is one that was given.
LEMMA CachedReply ==
    ASSUME NEW sv, ServerSound(sv), NEW s \in Seats, NEW e, NEW c \in repeated(sv, s, e)
    PROVE  /\ c \in Range(sv.run.commandCaches[s]) /\ c.id = e.id
           /\ c \in CacheEntry /\ c.reply \in Packet /\ c.reply \in Reply
<1>1. sv.run.commandCaches[s] \in Seq(CacheEntry)
  BY DEF ServerSound, RunSound, ServerState, RunState
<1>2. c \in Range(sv.run.commandCaches[s]) /\ c.id = e.id
  BY DEF repeated, cachedFor
<1>3. c \in CacheEntry
  BY <1>1, <1>2 DEF Range
<1> QED BY <1>2, <1>3 DEF CacheEntry, Reply, Packet

\* The types of a room and of what lies between it and a client.
LEMMA SeatTypes ==
    ASSUME NEW sv, ServerSound(sv), NEW s \in Seats
    PROVE  /\ sv.sent[s] \in Seq(Packet) /\ sv.readySeats \subseteq Seats
           /\ sv.run.id \in Nat /\ sv.run.acceptedCommandIds[s] \subseteq Nat
           /\ sv.run.commandCaches[s] \in Seq(CacheEntry) /\ sv.run.revision \in Nat
           /\ sv.phase \in Phases /\ sv.run.state \in TurnState
BY DEF ServerSound, RunSound, ServerState, RunState

\* The last packet of a seat is a packet.
LEMMA LastSent ==
    ASSUME NEW r, ServerSound(r), NEW s \in Seats, NEW q \in Seq(Packet), NEW p,
           r.sent[s] = Append(q, p)
    PROVE  p \in Packet
<1>1. r.sent[s] \in Seq(Packet)
  BY SeatTypes
<1>2. Len(q) + 1 \in DOMAIN r.sent[s] /\ r.sent[s][Len(q) + 1] = p
  OBVIOUS
<1> QED BY <1>1, <1>2

\* The buffer of a room is held exactly while an extra turn is half played.
Halved(sv) ==
    LET run == sv.run  buffer == run.bufferedOpponentUpdate
    IN  /\ (buffer # <<>>) <=> (sv.phase = "active" /\ run.state.extraTurnInProgress # {})
        /\ \A b \in Range(buffer) :
            /\ run.state.extraTurnInProgress = {b.seat}
            /\ b.to = run.revision
            /\ b.to = b.from + Len(b.commands)

\* The revision up to which a seat has been told of the run.
told(sv, s) ==
    LET buffer == sv.run.bufferedOpponentUpdate
    IN  IF buffer = <<>> \/ Head(buffer).seat = s THEN sv.run.revision ELSE Head(buffer).from

\* A step of the run that a seat is told of, with all that was withheld from it.
Informed(r, sv, s) ==
    \E p \in Packet :
        /\ r.sent[s] = Append(sv.sent[s], p)
        /\ p.kind = "accepted" /\ p.run = sv.run.id
        /\ p.from = told(sv, s) /\ p.to = r.run.revision
        /\ Last(p.commands).after = r.run.state
        /\ told(r, s) = r.run.revision
        /\ r.run.state.extraTurnInProgress \subseteq {s}

\* A step of the run that is withheld from a seat.
Uninformed(r, sv, s) == r.sent[s] = sv.sent[s] /\ told(r, s) = told(sv, s)

Moved(r, sv, s) ==
    /\ sv.phase = "active" /\ r.run.id = sv.run.id
    /\ r.run.revision = sv.run.revision + 1
    /\ Informed(r, sv, s) \/ Uninformed(r, sv, s)

\* The seat to act, or the clock for it, plays on, and its half turn is withheld.
Played(r, sv, a, id, command) ==
    /\ sv.phase = "active" /\ r.phase = command.after.phase
    /\ a = sv.run.state.activeSeat
    /\ command.after.extraTurnInProgress \subseteq {a}
    /\ TurnSound(command.after)
    /\ Spread(sv, r, a, id, command, command.after.extraTurnInProgress # {})

\* The half turn of the seat that acts is withheld from its opponent, and nothing else is.
LEMMA PlayedMoves ==
    ASSUME NEW sv, NEW r, NEW a \in Seats, NEW id, NEW command, ServerSound(sv), ServerSound(r),
           Halved(sv), command \in Command, Played(r, sv, a, id, command)
    PROVE  Halved(r) /\ Moved(r, sv, a) /\ Moved(r, sv, otherSeat(a))
<1> DEFINE o == otherSeat(a)
           rev == sv.run.revision
           from == heldFrom(sv)
           commands == Append(held(sv), command)
           timed == command.after.phase = "active"
           p == update(sv, id, rev, a, <<command>>, timed)
           w == update(sv, NoId, from, heldSeat(sv, a), commands, timed)
           x == [seat |-> heldSeat(sv, a), commands |-> commands, from |-> from, to |-> rev + 1]
<1>1. o \in Seats /\ o # a /\ rev \in Nat /\ sv.sent[a] \in Seq(Packet) /\ sv.sent[o] \in Seq(Packet)
  BY SeatTypes DEF otherSeat, Seats
<1>2. /\ heldSeat(sv, a) = a /\ told(sv, a) = rev /\ told(sv, o) = from
      /\ held(sv) \in Seq(Command) /\ from + Len(held(sv)) = rev /\ from \in Nat
  <2>1. CASE ~buffering(sv)
    <3>1. sv.run.bufferedOpponentUpdate = <<>>
      BY <2>1 DEF buffering
    <3> QED BY <1>1, <2>1, <3>1 DEF heldSeat, told, heldFrom, held
  <2>2. CASE buffering(sv)
    <3>1. sv.run.bufferedOpponentUpdate \in {<<>>} \cup {<<b>> : b \in Withheld}
      BY DEF ServerSound, RunSound, ServerState, RunState
    <3>2. PICK b \in Withheld : sv.run.bufferedOpponentUpdate = <<b>>
      BY <2>2, <3>1 DEF buffering
    <3>3. b \in Range(sv.run.bufferedOpponentUpdate)
      BY <3>2 DEF Range
    <3>4. /\ sv.run.state.extraTurnInProgress = {b.seat} /\ b.to = rev
          /\ b.to = b.from + Len(b.commands)
      BY <3>3 DEF Halved
    <3>5. sv.run.state.extraTurnInProgress \subseteq {a}
      BY DEF ServerSound, RunSound, TurnSound, Played
    <3>6. b.seat = a /\ b.commands \in Seq(Command) /\ b.from \in Nat
      BY <3>4, <3>5 DEF Withheld, Buffer
    <3> QED BY <1>1, <2>2, <3>2, <3>4, <3>6 DEF heldSeat, told, heldFrom, held
  <2> QED BY <2>1, <2>2
<1>3. /\ r.run.id = sv.run.id /\ r.run.revision = rev + 1 /\ r.run.state = command.after
      /\ r.sent[a] = Append(sv.sent[a], p)
  BY DEF Played, Spread, SameRun
<1>4. /\ command.after.extraTurnInProgress # {} =>
            r.sent[o] = sv.sent[o] /\ r.run.bufferedOpponentUpdate = <<x>>
      /\ command.after.extraTurnInProgress = {} =>
            r.sent[o] = Append(sv.sent[o], w) /\ r.run.bufferedOpponentUpdate = <<>>
  BY DEF Played, Spread
<1>5. /\ p.kind = "accepted" /\ p.run = sv.run.id /\ p.from = rev /\ p.to = rev + 1
      /\ p.commands = <<command>>
      /\ w.kind = "accepted" /\ w.run = sv.run.id /\ w.from = from /\ w.to = rev + 1
      /\ w.commands = commands
      /\ x.seat = a /\ x.commands = commands /\ x.from = from /\ x.to = rev + 1
  BY <1>2 DEF update
<1>6. /\ Last(<<command>>) = command /\ Last(commands) = command
      /\ Len(commands) = Len(held(sv)) + 1
  BY <1>2 DEF Last
<1>7. /\ sv.phase = "active" /\ r.phase = command.after.phase
      /\ command.after.extraTurnInProgress \subseteq {a} /\ TurnSound(command.after)
  BY DEF Played
<1> HIDE DEF p, w, x, commands, from, timed, rev, o
<1>8. p \in Packet
  BY <1>1, <1>3, LastSent
<1>9. CASE command.after.extraTurnInProgress # {}
  <2>1. r.sent[o] = sv.sent[o] /\ r.run.bufferedOpponentUpdate = <<x>>
    BY <1>4, <1>9
  <2>2. told(r, a) = rev + 1 /\ told(r, o) = from
    BY <1>1, <1>3, <1>5, <2>1 DEF told
  <2>3. Informed(r, sv, a) /\ Uninformed(r, sv, o)
    BY <1>2, <1>3, <1>5, <1>6, <1>7, <1>8, <2>1, <2>2 DEF Informed, Uninformed
  <2>4. Halved(r)
    <3>1. r.phase = "active" /\ command.after.extraTurnInProgress = {a}
      BY <1>7, <1>9 DEF TurnSound, TurnState
    <3>2. Range(<<x>>) = {x}
      BY DEF Range
    <3>3. x.to = x.from + Len(x.commands)
      <4> DEFINE k == Len(held(sv))
      <4>1. k \in Nat /\ from + k = rev /\ Len(commands) = k + 1
        BY <1>2, <1>6
      <4> HIDE DEF k
      <4> QED BY <1>1, <1>2, <1>5, <4>1
    <3> QED BY <1>3, <1>5, <2>1, <3>1, <3>2, <3>3 DEF Halved
  <2> QED BY <1>3, <1>7, <2>3, <2>4 DEF Moved, o, rev
<1>10. CASE command.after.extraTurnInProgress = {}
  <2>1. r.sent[o] = Append(sv.sent[o], w) /\ r.run.bufferedOpponentUpdate = <<>>
    BY <1>4, <1>10
  <2>2. told(r, a) = rev + 1 /\ told(r, o) = rev + 1
    BY <1>3, <2>1 DEF told
  <2>3. w \in Packet
    BY <1>1, <2>1, LastSent
  <2>4. Informed(r, sv, a) /\ Informed(r, sv, o)
    BY <1>2, <1>3, <1>5, <1>6, <1>7, <1>8, <1>10, <2>1, <2>2, <2>3 DEF Informed
  <2>5. Halved(r)
    BY <1>3, <1>10, <2>1 DEF Halved, Range
  <2> QED BY <1>3, <1>7, <2>4, <2>5 DEF Moved, o, rev
<1> QED BY <1>9, <1>10

\* The clock plays the turn of the seat to act.
LEMMA ResolvedPlayed ==
    ASSUME NEW sv, NEW r, ServerSound(sv), Halved(sv), sv.phase = "active", Resolved(sv, r)
    PROVE  \E command \in Command : Played(r, sv, sv.run.state.activeSeat, NoId, command)
<1> DEFINE old == sv.run.state
           a == old.activeSeat
<1>1. TurnSound(old) /\ old.phase = "active" /\ sv.run.bufferedOpponentUpdate \in
            {<<>>} \cup {<<b>> : b \in Withheld}
  BY DEF ServerSound, RunSound, ServerState, RunState
<1>2. buffering(sv) <=> old.extraTurnInProgress # {}
  BY DEF Halved, buffering
<1>3. PICK st \in timedOut(old), hold \in BOOLEAN :
          /\ Spread(sv, r, a, NoId, [type |-> "timeout", after |-> st], hold)
          /\ hold = (~buffering(sv) /\ a \in st.extraTurnInProgress)
          /\ r.phase = st.phase
  BY DEF Resolved
<1> DEFINE command == [type |-> "timeout", after |-> st]
<1> HIDE DEF old
<1>4. /\ TurnSound(st)
      /\ st.extraTurnInProgress # {} =>
            st.extraTurnInProgress = {a} /\ old.extraTurnInProgress = {}
  BY <1>1, <1>3, TimedOut
<1>5. command \in Command /\ command.after = st
  BY <1>4 DEF Command, TurnSound
<1>6. hold <=> st.extraTurnInProgress # {}
  BY <1>2, <1>3, <1>4
<1> HIDE DEF command
<1>7. Spread(sv, r, a, NoId, command, command.after.extraTurnInProgress # {})
  <2>1. Spread(sv, r, a, NoId, command, hold)
    BY <1>3 DEF command
  <2> QED BY <1>5, <1>6, <2>1 DEF Spread
<1>8. Played(r, sv, a, NoId, command)
  BY <1>3, <1>4, <1>5, <1>7 DEF Played, old
<1> QED BY <1>5, <1>8 DEF old

\* The end of a reveal window is played for the seat to act.
LEMMA WindowPlayed ==
    ASSUME NEW sv, NEW r, NEW a \in Seats, ServerSound(sv), Halved(sv), a \in sv.revealTimers,
           r.phase = "active", NEW st \in endReveal(sv.run.state, a),
           Spread(sv, r, a, NoId, [type |-> "end-reveal", after |-> st], buffering(sv))
    PROVE  \E command \in Command : Played(r, sv, a, NoId, command)
<1> DEFINE old == sv.run.state
           command == [type |-> "end-reveal", after |-> st]
<1>1. /\ TurnSound(old) /\ sv.phase = "active" /\ old.phase = "active" /\ a \in old.revealActive
  BY DEF ServerSound, RunSound
<1>2. buffering(sv) <=> old.extraTurnInProgress # {}
  BY <1>1 DEF Halved, buffering
<1>3. a = old.activeSeat
  BY <1>1 DEF TurnSound
<1>4. /\ TurnSound(st) /\ st.phase = old.phase
      /\ st.extraTurnInProgress = old.extraTurnInProgress
  <2> HIDE DEF old
  <2>1. st \in endReveal(old, a)
    BY DEF old
  <2> QED BY <1>1, <2>1, RevealEnded
<1>5. command \in Command /\ command.after = st
  BY <1>4 DEF Command, TurnSound, CommandTypes
<1>6. Spread(sv, r, a, NoId, command, command.after.extraTurnInProgress # {})
  BY <1>2, <1>4, <1>5 DEF Spread
<1>7. st.extraTurnInProgress \subseteq {a}
  BY <1>1, <1>3, <1>4 DEF TurnSound
<1> HIDE DEF command
<1>8. Played(r, sv, a, NoId, command)
  BY <1>1, <1>3, <1>4, <1>5, <1>6, <1>7 DEF Played
<1> QED BY <1>5, <1>8

\* A command that is accepted is played for the seat to act.
LEMMA AcceptedPlayed ==
    ASSUME NEW sv, NEW n, NEW a \in Seats, NEW id, NEW type \in CommandTypes,
           ServerSound(sv), Halved(sv),
           sv.phase = "active", a = sv.run.state.activeSeat,
           NEW st \in outcomes(sv.run.state, a, type), n.phase = st.phase,
           Spread(sv, n, a, id, [type |-> type, after |-> st],
                  a \in st.extraTurnInProgress /\ (buffering(sv) \/ type = "place"))
    PROVE  \E command \in Command : Played(n, sv, a, id, command)
<1> DEFINE old == sv.run.state
           command == [type |-> type, after |-> st]
<1>1. /\ TurnSound(old) /\ old.phase = "active"
  BY DEF ServerSound, RunSound
<1>2. buffering(sv) <=> old.extraTurnInProgress # {}
  BY DEF Halved, buffering
<1>3. CommandDone(old, a, type, st)
  <2> HIDE DEF old
  <2>1. st \in outcomes(old, a, type)
    BY DEF old
  <2> QED BY <1>1, <2>1, Outcome
<1>4. /\ TurnSound(st)
      /\ type = "place" => st.extraTurnInProgress \subseteq {a}
      /\ type # "place" => st.extraTurnInProgress = old.extraTurnInProgress
  BY <1>3 DEF CommandDone
<1>5. command \in Command /\ command.after = st
  BY <1>4 DEF Command, TurnSound
<1>6. st.extraTurnInProgress \subseteq {a}
  BY <1>1, <1>4 DEF TurnSound
<1>7. (a \in st.extraTurnInProgress /\ (buffering(sv) \/ type = "place"))
            <=> st.extraTurnInProgress # {}
  BY <1>2, <1>4, <1>6
<1>8. Spread(sv, n, a, id, command, command.after.extraTurnInProgress # {})
  BY <1>5, <1>7 DEF Spread
<1> HIDE DEF command
<1>9. Played(n, sv, a, id, command)
  BY <1>4, <1>5, <1>6, <1>8 DEF Played
<1> QED BY <1>5, <1>9

\* The buffer of a room that has not moved is as it was.
LEMMA HalvedKept ==
    ASSUME NEW sv, NEW r, Halved(sv), r.phase = sv.phase, r.run.state = sv.run.state,
           r.run.revision = sv.run.revision,
           r.run.bufferedOpponentUpdate = sv.run.bufferedOpponentUpdate
    PROVE  Halved(r)
BY DEF Halved

-----------------------------------------------------------------------------

(* Clients that repeat themselves: the inductive invariant.                  *)

accepted(sv, s) == {m \in Range(sv.sent[s]) : m.kind = "accepted"}

\* What a seat has been told reaches to where it has been told of the run; what it sent
\* itself has its id taken, and what is cached for it was said.
Accounted(sv, s) ==
    /\ \A m \in accepted(sv, s) :
        /\ m.to <= told(sv, s)
        /\ m.id # NoId => m.id \in sv.run.acceptedCommandIds[s]
    /\ \A m, n \in accepted(sv, s) :
        /\ m.id = n.id /\ m.id # NoId => m = n
        /\ m # n => m.to <= n.from \/ n.to <= m.from
    /\ \A c \in Range(sv.run.commandCaches[s]) :
        /\ c.id \in sv.run.acceptedCommandIds[s]
        /\ c.reply \in Range(sv.sent[s])

\* A command is of a revision the run has had, and of the seat to act in it.
Timely(sv, s, e) ==
    /\ e.expected <= sv.run.revision
    /\ e.expected = sv.run.revision => sv.run.state.activeSeat = s

RunKept(sv) == ServerSound(sv) /\ Halved(sv) /\ \A s \in Seats : Accounted(sv, s)

RetrySound ==
    /\ RunKept(server)
    /\ uplink \in [Seats -> Seq(Envelope)] /\ posted \in [Seats -> Seq(Envelope)]
    /\ \A s \in Seats : \A e \in Range(uplink[s]) \cup Range(posted[s]) : Timely(server, s, e)

-----------------------------------------------------------------------------

(* What a seat has been told.                                                *)

\* A packet more at the end of a queue.
LEMMA AppendedRange ==
    ASSUME NEW S, NEW q \in Seq(S), NEW p \in S
    PROVE  Range(Append(q, p)) = Range(q) \cup {p}
<1> DEFINE a == Append(q, p)
           n == Len(q) + 1
<1>1. /\ DOMAIN a = DOMAIN q \cup {n} /\ a[n] = p
      /\ \A i \in DOMAIN q : a[i] = q[i]
  OBVIOUS
<1> HIDE DEF a, n
<1> QED BY <1>1 DEF Range, a

\* The acceptances of a seat have their revisions.
LEMMA AcceptedTypes ==
    ASSUME NEW sv, ServerSound(sv), NEW s \in Seats, NEW m \in accepted(sv, s)
    PROVE  m \in Accepted /\ m.from \in Nat /\ m.to \in Nat
<1>1. m \in Packet /\ m.kind = "accepted"
  BY SeatTypes DEF accepted, Range
<1> QED BY <1>1 DEF Packet, Started, Accepted, Rejected, Notice

\* What has been told is at most what was done.
LEMMA ToldTypes ==
    ASSUME NEW sv, ServerSound(sv), Halved(sv), NEW s \in Seats
    PROVE  told(sv, s) \in Nat /\ told(sv, s) <= sv.run.revision
<1> DEFINE buffer == sv.run.bufferedOpponentUpdate
<1>1. sv.run.revision \in Nat /\ buffer \in {<<>>} \cup {<<b>> : b \in Withheld}
  BY DEF ServerSound, RunSound, ServerState, RunState
<1>2. CASE buffer = <<>>
  BY <1>1, <1>2 DEF told
<1>3. CASE buffer # <<>>
  <2>1. PICK b \in Withheld : buffer = <<b>>
    BY <1>1, <1>3
  <2>2. b \in Range(buffer) /\ Head(buffer) = b
    BY <2>1 DEF Range
  <2>3. b.to = sv.run.revision /\ b.to = b.from + Len(b.commands)
    BY <2>2 DEF Halved
  <2>4. b.from \in Nat /\ Len(b.commands) \in Nat
    BY DEF Withheld, Buffer, Batch
  <2>5. b.from <= sv.run.revision
    BY <1>1, <2>3, <2>4
  <2> HIDE DEF buffer
  <2>6. told(sv, s) = IF b.seat = s THEN sv.run.revision ELSE b.from
    BY <1>3, <2>2 DEF told, buffer
  <2> QED BY <1>1, <2>4, <2>5, <2>6
<1> QED BY <1>2, <1>3

\* A seat that is told of no acceptance, or of one that it was told before.
LEMMA AccountedStill ==
    ASSUME NEW sv, NEW r, NEW s \in Seats, Accounted(sv, s),
           accepted(r, s) = accepted(sv, s), told(r, s) = told(sv, s),
           sv.run.acceptedCommandIds[s] \subseteq r.run.acceptedCommandIds[s],
           r.run.commandCaches[s] = sv.run.commandCaches[s],
           Range(sv.sent[s]) \subseteq Range(r.sent[s])
    PROVE  Accounted(r, s)
BY DEF Accounted

\* A seat that is told of the next revisions, in answer to a new command or unasked.
LEMMA AccountedTold ==
    ASSUME NEW sv, NEW r, NEW s \in Seats, NEW p \in Packet, ServerSound(sv), Halved(sv),
           Accounted(sv, s), r.sent[s] = Append(sv.sent[s], p), p.kind = "accepted",
           p.from = told(sv, s), p.to = told(r, s), told(r, s) = sv.run.revision + 1,
           sv.run.acceptedCommandIds[s] \subseteq r.run.acceptedCommandIds[s],
           p.id # NoId => /\ p.id \in r.run.acceptedCommandIds[s]
                          /\ p.id \notin sv.run.acceptedCommandIds[s],
           \A c \in Range(r.run.commandCaches[s]) :
                \/ c \in Range(sv.run.commandCaches[s])
                \/ c.id \in r.run.acceptedCommandIds[s] /\ c.reply = p
    PROVE  Accounted(r, s)
<1> DEFINE A == accepted(sv, s)
           t == told(sv, s)
<1>1. Range(r.sent[s]) = Range(sv.sent[s]) \cup {p}
  BY SeatTypes, AppendedRange
<1>2. accepted(r, s) = A \cup {p}
  BY <1>1 DEF accepted
<1>3. /\ t \in Nat /\ t <= sv.run.revision /\ sv.run.revision \in Nat
      /\ \A m \in A : m.from \in Nat /\ m.to \in Nat
  BY ToldTypes, SeatTypes, AcceptedTypes
<1>4. \A m \in A : /\ m.to <= t /\ (m.id # NoId => m.id \in sv.run.acceptedCommandIds[s])
  BY DEF Accounted
<1> HIDE DEF A, t
<1>5. p.from = t /\ p.to = sv.run.revision + 1 /\ t <= p.to
  BY <1>3 DEF t
<1>6. ASSUME NEW m \in A \cup {p}
      PROVE  m.to <= told(r, s) /\ (m.id # NoId => m.id \in r.run.acceptedCommandIds[s])
  BY <1>3, <1>4, <1>5, <1>6
<1>7. ASSUME NEW m \in A PROVE m.to <= p.from /\ (m.id # NoId => m.id # p.id)
  BY <1>4, <1>5
<1>8. ASSUME NEW m \in A \cup {p}, NEW n \in A \cup {p}
      PROVE  /\ m.id = n.id /\ m.id # NoId => m = n
             /\ m # n => m.to <= n.from \/ n.to <= m.from
  <2>1. CASE m \in A /\ n \in A
    BY <2>1 DEF Accounted, A
  <2>2. CASE m = p \/ n = p
    BY <1>7, <2>2
  <2> QED BY <2>1, <2>2
<1>9. ASSUME NEW c \in Range(r.run.commandCaches[s])
      PROVE  c.id \in r.run.acceptedCommandIds[s] /\ c.reply \in Range(r.sent[s])
  BY <1>1 DEF Accounted
<1> QED BY <1>2, <1>6, <1>8, <1>9 DEF Accounted

-----------------------------------------------------------------------------

(* A step of the run.                                                        *)

\* What a seat is told of a step of the run: the seat that acted is answered, and its
\* opponent told unasked or not at all.
LEMMA PlayedTold ==
    ASSUME NEW sv, NEW n, NEW a \in Seats, NEW id, NEW command \in Command, NEW s \in Seats,
           ServerSound(sv), ServerSound(n), Halved(sv), Played(n, sv, a, id, command)
    PROVE  \/ s # a /\ n.sent[s] = sv.sent[s] /\ told(n, s) = told(sv, s)
           \/ \E p \in Packet :
                /\ n.sent[s] = Append(sv.sent[s], p) /\ p.kind = "accepted"
                /\ p.from = told(sv, s) /\ p.to = told(n, s)
                /\ told(n, s) = sv.run.revision + 1
                /\ p.id = IF s = a THEN id ELSE NoId
<1> DEFINE q == sv.sent[s]
           hold == command.after.extraTurnInProgress # {}
           timed == command.after.phase = "active"
           own == update(sv, id, sv.run.revision, a, <<command>>, timed)
           other == update(sv, NoId, heldFrom(sv), heldSeat(sv, a), Append(held(sv), command),
                           timed)
<1>1. s = a \/ s = otherSeat(a)
  BY DEF Seats, otherSeat
<1>2. q \in Seq(Packet)
  BY SeatTypes
<1>3. Moved(n, sv, s)
  BY <1>1, PlayedMoves
<1>4. /\ s = a => n.sent[s] = Append(q, own)
      /\ s # a => n.sent[s] = q \/ n.sent[s] = Append(q, other)
      /\ own.id = id /\ other.id = NoId /\ n.run.revision = sv.run.revision + 1
  BY <1>1 DEF Played, Spread, update
<1> HIDE DEF own, other, q
<1>5. ASSUME NEW p, NEW x, Append(q, p) = Append(q, x) PROVE p = x
  <2>1. Append(q, p)[Len(q) + 1] = p /\ Append(q, x)[Len(q) + 1] = x
    BY <1>2
  <2> QED BY <1>5, <2>1
<1>6. \A p : Append(q, p) # q
  BY <1>2
<1>7. CASE Uninformed(n, sv, s)
  <2>1. n.sent[s] = q /\ told(n, s) = told(sv, s)
    BY <1>7 DEF Uninformed, q
  <2>2. s # a
    BY <1>4, <1>6, <2>1
  <2> QED BY <2>1, <2>2 DEF q
<1>8. CASE Informed(n, sv, s)
  <2>1. PICK p \in Packet :
            /\ n.sent[s] = Append(q, p) /\ p.kind = "accepted"
            /\ p.from = told(sv, s) /\ p.to = n.run.revision /\ told(n, s) = n.run.revision
    BY <1>8 DEF Informed, q
  <2>2. p.id = IF s = a THEN id ELSE NoId
    <3>1. CASE s = a
      BY <1>4, <1>5, <2>1, <3>1
    <3>2. CASE s # a
      BY <1>4, <1>5, <1>6, <2>1, <3>2
    <3> QED BY <3>1, <3>2
  <2> QED BY <1>4, <2>1, <2>2 DEF q
<1> QED BY <1>3, <1>7, <1>8 DEF Moved

\* A step of the run leaves what its seats were told in order, with the id of the command that
\* took it, if there was one, taken.
LEMMA PlayedAccounted ==
    ASSUME NEW sv, NEW n, NEW r, NEW a \in Seats, NEW id, NEW command \in Command, NEW s \in Seats,
           ServerSound(sv), ServerSound(n), Halved(sv), Played(n, sv, a, id, command),
           Accounted(sv, s), r.sent[s] = n.sent[s], told(r, s) = told(n, s),
           sv.run.acceptedCommandIds[s] \subseteq r.run.acceptedCommandIds[s],
           s = a /\ id # NoId => /\ id \in r.run.acceptedCommandIds[s]
                                 /\ id \notin sv.run.acceptedCommandIds[s],
           \/ r.run.commandCaches[s] = sv.run.commandCaches[s]
           \/ /\ s = a /\ id # NoId
              /\ \A c \in Range(r.run.commandCaches[s]) :
                    \/ c \in Range(sv.run.commandCaches[s])
                    \/ c.id = id /\ c.reply = Last(n.sent[s])
    PROVE  Accounted(r, s)
<1>1. sv.sent[s] \in Seq(Packet)
  BY SeatTypes
<1>2. CASE s # a /\ n.sent[s] = sv.sent[s] /\ told(n, s) = told(sv, s)
  BY <1>2, AccountedStill DEF accepted
<1>3. CASE \E p \in Packet :
                /\ n.sent[s] = Append(sv.sent[s], p) /\ p.kind = "accepted"
                /\ p.from = told(sv, s) /\ p.to = told(n, s)
                /\ told(n, s) = sv.run.revision + 1
                /\ p.id = IF s = a THEN id ELSE NoId
  <2>1. PICK p \in Packet :
                /\ n.sent[s] = Append(sv.sent[s], p) /\ p.kind = "accepted"
                /\ p.from = told(sv, s) /\ p.to = told(n, s)
                /\ told(n, s) = sv.run.revision + 1
                /\ p.id = IF s = a THEN id ELSE NoId
    BY <1>3
  <2>2. Last(n.sent[s]) = p
    BY <1>1, <2>1 DEF Last
  <2>3. \A c \in Range(r.run.commandCaches[s]) :
            \/ c \in Range(sv.run.commandCaches[s])
            \/ c.id \in r.run.acceptedCommandIds[s] /\ c.reply = p
    BY <2>2
  <2> QED BY <2>1, <2>3, AccountedTold
<1> QED BY <1>2, <1>3, PlayedTold

\* A step that no command took.
LEMMA PlayedKept ==
    ASSUME NEW sv, NEW r, NEW a \in Seats, RunKept(sv), ServerSound(r),
           \E command \in Command : Played(r, sv, a, NoId, command)
    PROVE  /\ RunKept(r) /\ sv.phase = "active" /\ r.run.revision = sv.run.revision + 1
           /\ r.run.acceptedCommandIds = sv.run.acceptedCommandIds
<1>1. PICK command \in Command : Played(r, sv, a, NoId, command)
  OBVIOUS
<1>2. /\ r.run.acceptedCommandIds = sv.run.acceptedCommandIds
      /\ r.run.commandCaches = sv.run.commandCaches
      /\ sv.phase = "active" /\ r.run.revision = sv.run.revision + 1
  BY <1>1 DEF Played, Spread, SameRun
<1>3. Halved(r)
  BY <1>1, PlayedMoves DEF RunKept
<1>4. ASSUME NEW s \in Seats PROVE Accounted(r, s)
  BY <1>1, <1>2, PlayedAccounted DEF RunKept
<1> QED BY <1>2, <1>3, <1>4 DEF RunKept

\* The step a command takes.
LEMMA CommandKept ==
    ASSUME NEW sv, NEW n, NEW r, NEW a \in Seats, NEW e \in Envelope, RunKept(sv),
           ServerSound(n), ServerSound(r), Kept(r, n, a, e),
           e.id \notin sv.run.acceptedCommandIds[a],
           \E command \in Command : Played(n, sv, a, e.id, command)
    PROVE  RunKept(r) /\ r.run.revision = sv.run.revision + 1
<1>1. PICK command \in Command : Played(n, sv, a, e.id, command)
  OBVIOUS
<1>2. /\ n.run.acceptedCommandIds = sv.run.acceptedCommandIds
      /\ n.run.commandCaches = sv.run.commandCaches
      /\ n.run.revision = sv.run.revision + 1
  BY <1>1 DEF Played, Spread, SameRun
<1>3. /\ r.sent = n.sent /\ r.run.revision = n.run.revision
      /\ r.run.acceptedCommandIds[a] = sv.run.acceptedCommandIds[a] \cup {e.id}
      /\ \A o \in Seats \ {a} :
            /\ r.run.commandCaches[o] = sv.run.commandCaches[o]
            /\ r.run.acceptedCommandIds[o] = sv.run.acceptedCommandIds[o]
      /\ \A c \in Range(r.run.commandCaches[a]) :
            \/ c \in Range(sv.run.commandCaches[a])
            \/ c.id = e.id /\ c.reply = Last(n.sent[a])
  BY <1>2 DEF Kept
<1>4. \A s \in Seats : told(r, s) = told(n, s)
  BY DEF Kept, told
<1>5. Halved(r)
  <2>1. Halved(n)
    BY <1>1, PlayedMoves DEF RunKept
  <2> QED BY <2>1, HalvedKept DEF Kept
<1>6. e.id # NoId
  BY DEF Envelope, NoId
<1>7. ASSUME NEW s \in Seats PROVE Accounted(r, s)
  <2>1. ServerSound(sv) /\ Halved(sv) /\ Accounted(sv, s)
    BY DEF RunKept
  <2>2. CASE s = a
    BY <1>1, <1>3, <1>4, <1>6, <2>1, <2>2, PlayedAccounted
  <2>3. CASE s # a
    BY <1>1, <1>3, <1>4, <2>1, <2>3, PlayedAccounted
  <2> QED BY <2>2, <2>3
<1> QED BY <1>2, <1>3, <1>5, <1>7 DEF RunKept

\* A packet that tells of no acceptance, or repeats one.
LEMMA SentKept ==
    ASSUME NEW sv, RunKept(sv), NEW a \in Seats, NEW p \in Packet,
           p.kind # "accepted" \/ p \in Range(sv.sent[a])
    PROVE  RunKept(send(sv, a, p)) /\ send(sv, a, p).run = sv.run
<1> DEFINE r == send(sv, a, p)
           o == otherSeat(a)
<1>1. /\ ServerSound(sv) /\ Halved(sv) /\ sv \in ServerState
      /\ \A s \in Seats : Accounted(sv, s)
  BY DEF RunKept, ServerSound, RunSound
<1>2. ServerSound(r) /\ Alike(r, sv)
  BY <1>1, SentSound
<1>3. r.run = sv.run /\ r.sent[a] = Append(sv.sent[a], p) /\ r.sent[o] = sv.sent[o]
  BY <1>1, Sent
<1>4. Range(r.sent[a]) = Range(sv.sent[a]) \cup {p}
  BY <1>1, <1>3, SeatTypes, AppendedRange
<1> HIDE DEF r
<1>5. Halved(r)
  BY <1>1, <1>2, <1>3, HalvedKept DEF Alike
<1>6. ASSUME NEW s \in Seats PROVE Accounted(r, s)
  <2>1. s = a \/ s = o
    BY DEF Seats, otherSeat
  <2>2. /\ Range(sv.sent[s]) \subseteq Range(r.sent[s])
        /\ accepted(r, s) = accepted(sv, s)
    BY <1>3, <1>4, <2>1 DEF accepted
  <2>3. told(r, s) = told(sv, s)
    BY <1>3 DEF told
  <2> QED BY <1>1, <1>3, <2>2, <2>3, AccountedStill
<1> QED BY <1>2, <1>3, <1>5, <1>6 DEF RunKept, r

-----------------------------------------------------------------------------

(* The server's steps, and those of clients that repeat themselves.          *)

\* The run is where it was, or further.
Onward(r, sv) ==
    \/ r.run.revision = sv.run.revision /\ r.run.state = sv.run.state
    \/ r.run.revision > sv.run.revision

\* By how much a deadline that has passed moves the run when a command arrives.
overdue(sv) == IF sv.phase = "active" /\ sv.expired THEN 1 ELSE 0

\* A command stays timely.
LEMMA TimelyKept ==
    ASSUME NEW sv, NEW r, NEW s \in Seats, NEW e \in Envelope, ServerSound(sv), ServerSound(r),
           Onward(r, sv), Timely(sv, s, e)
    PROVE  Timely(r, s, e)
<1>1. sv.run.revision \in Nat /\ r.run.revision \in Nat /\ e.expected \in Nat
  BY SeatTypes DEF Envelope
<1> QED BY <1>1 DEF Timely, Onward

\* The deadline a command finds passed is resolved.
LEMMA ResolvedKept ==
    ASSUME NEW sv, NEW w, RunKept(sv), ServerSound(w),
           \/ w = sv /\ (sv.phase # "active" \/ ~sv.expired)
           \/ sv.phase = "active" /\ sv.expired /\ Resolved(sv, w)
    PROVE  /\ RunKept(w) /\ w.run.revision = sv.run.revision + overdue(sv) /\ Onward(w, sv)
           /\ w.run.acceptedCommandIds = sv.run.acceptedCommandIds
<1>1. sv.run.revision \in Nat /\ sv.run.state.activeSeat \in Seats
  BY DEF RunKept, ServerSound, RunSound, ServerState, RunState, TurnState
<1>2. CASE w = sv /\ (sv.phase # "active" \/ ~sv.expired)
  BY <1>1, <1>2 DEF Onward, overdue
<1>3. CASE sv.phase = "active" /\ sv.expired /\ Resolved(sv, w)
  <2>1. \E command \in Command : Played(w, sv, sv.run.state.activeSeat, NoId, command)
    BY <1>3, ResolvedPlayed DEF RunKept
  <2>2. /\ RunKept(w) /\ w.run.revision = sv.run.revision + 1
        /\ w.run.acceptedCommandIds = sv.run.acceptedCommandIds
    BY <1>1, <2>1, PlayedKept
  <2> QED BY <1>1, <1>3, <2>2 DEF Onward, overdue
<1> QED BY <1>2, <1>3

\* A command that is answered: it moves the run only if its id is new and nothing has moved
\* the run before it.
LEMMA AnswerKept ==
    ASSUME NEW w, NEW r, NEW a \in Seats, NEW e \in Envelope, RunKept(w), Answered(w, r, a, e),
           Timely(w, a, e)
    PROVE  /\ RunKept(r) /\ Onward(r, w)
           /\ \/ r.run.revision = w.run.revision
              \/ /\ e.expected = w.run.revision
                 /\ e.id \notin w.run.acceptedCommandIds[a]
<1>1. ServerSound(w) /\ Halved(w) /\ w.run.revision \in Nat
  BY SeatTypes DEF RunKept, Seats
<1>2. CASE \E p \in Rejected : p.id = e.id /\ r = send(w, a, p)
  <2>1. PICK p \in Rejected : r = send(w, a, p)
    BY <1>2
  <2>2. p \in Packet /\ p.kind # "accepted"
    BY DEF Packet, Rejected
  <2>3. RunKept(send(w, a, p)) /\ send(w, a, p).run = w.run
    BY <2>2, SentKept
  <2> QED BY <2>1, <2>3 DEF Onward
<1>3. CASE \E c \in repeated(w, a, e) : r = send(w, a, c.reply)
  <2>1. PICK c \in repeated(w, a, e) : r = send(w, a, c.reply)
    BY <1>3
  <2>2. c \in Range(w.run.commandCaches[a]) /\ c.reply \in Packet
    BY <1>1, CachedReply
  <2>3. c.reply \in Range(w.sent[a])
    BY <2>2 DEF RunKept, Accounted
  <2>4. RunKept(send(w, a, c.reply)) /\ send(w, a, c.reply).run = w.run
    BY <2>2, <2>3, SentKept
  <2> QED BY <2>1, <2>4 DEF Onward
<1>4. CASE /\ w.phase = "active" /\ e.expected = w.run.revision
           /\ refusal(w, a, e) = "none"
           /\ \E st \in outcomes(w.run.state, a, e.type) :
                r = remembered(acceptClientCommand(w, a, e.id, e.type, st), a, e)
  <2>1. PICK st \in outcomes(w.run.state, a, e.type) :
            r = remembered(acceptClientCommand(w, a, e.id, e.type, st), a, e)
    BY <1>4
  <2> DEFINE n == acceptClientCommand(w, a, e.id, e.type, st)
             hold == a \in st.extraTurnInProgress /\ (buffering(w) \/ e.type = "place")
  <2>2. ServerSound(n) /\ InPhase(n, st) /\ ServerSound(r) /\ Kept(r, n, a, e)
    <3> DEFINE k == remembered(n, a, e)
    <3>1. ServerSound(n) /\ InPhase(n, st) /\ ServerSound(k) /\ Kept(k, n, a, e)
      BY <1>1, <1>4, CommandAccepted
    <3>2. r = k
      BY <2>1
    <3> HIDE DEF k, n
    <3> QED BY <3>1, <3>2
  <2>3. Spread(w, n, a, e.id, [type |-> e.type, after |-> st], hold)
    BY <1>1, <1>4, CommandAccepted
  <2>4. e.type \in CommandTypes /\ a = w.run.state.activeSeat
    BY <1>4 DEF Envelope, Timely
  <2> HIDE DEF n
  <2>5. \E command \in Command : Played(n, w, a, e.id, command)
    BY <1>1, <1>4, <2>2, <2>3, <2>4, AcceptedPlayed DEF InPhase
  <2>6. e.id \notin w.run.acceptedCommandIds[a]
    BY <1>4 DEF refusal
  <2>7. RunKept(r) /\ r.run.revision = w.run.revision + 1
    BY <2>2, <2>5, <2>6, CommandKept
  <2> QED BY <1>1, <1>4, <2>6, <2>7 DEF Onward
<1> QED BY <1>2, <1>3, <1>4 DEF Answered

\* Whatever the room does with a command: one that is late or repeated moves nothing, and the
\* deadline it finds passed moves the run once.
LEMMA CommandAnswered ==
    ASSUME NEW sv, NEW r, NEW a \in Seats, NEW e \in Envelope, RunKept(sv), Timely(sv, a, e),
           r \in handleGameCommand(sv, a, e)
    PROVE  /\ RunKept(r) /\ Onward(r, sv)
           /\ overdue(sv) = 1 \/ e.id \in sv.run.acceptedCommandIds[a] =>
                r.run.revision = sv.run.revision + overdue(sv)
<1>1. ServerSound(sv) /\ sv.run.revision \in Nat /\ e.expected \in Nat
  BY SeatTypes DEF RunKept, Envelope, Seats
<1>2. PICK w : /\ ServerSound(w) /\ Answered(w, r, a, e)
               /\ \/ w = sv /\ (sv.phase # "active" \/ ~sv.expired)
                  \/ sv.phase = "active" /\ sv.expired /\ Resolved(sv, w)
  BY <1>1, CommandHandled
<1>3. /\ RunKept(w) /\ w.run.revision = sv.run.revision + overdue(sv) /\ Onward(w, sv)
      /\ w.run.acceptedCommandIds = sv.run.acceptedCommandIds
  BY <1>2, ResolvedKept
<1>4. Timely(w, a, e)
  BY <1>1, <1>2, <1>3, TimelyKept
<1>5. /\ RunKept(r) /\ Onward(r, w)
      /\ \/ r.run.revision = w.run.revision
         \/ /\ e.expected = w.run.revision
            /\ e.id \notin w.run.acceptedCommandIds[a]
  BY <1>2, <1>3, <1>4, AnswerKept
<1>6. w.run.revision \in Nat /\ r.run.revision \in Nat
  BY <1>2, <1>5, SeatTypes DEF RunKept, Seats
<1>7. Onward(r, sv)
  BY <1>1, <1>3, <1>5, <1>6 DEF Onward
<1>8. ASSUME overdue(sv) = 1 \/ e.id \in sv.run.acceptedCommandIds[a]
      PROVE  r.run.revision = sv.run.revision + overdue(sv)
  <2>1. e.expected <= sv.run.revision
    BY DEF Timely
  <2> QED BY <1>1, <1>3, <1>5, <1>8, <2>1
<1> QED BY <1>5, <1>7, <1>8

\* A command that is read is one that was sent, and the others stay in line.
LEMMA EnvelopeReceived ==
    ASSUME RetrySound, NEW a \in Seats, received(a, "command")
    PROVE  /\ Head(uplink[a]) \in Envelope /\ Timely(server, a, Head(uplink[a]))
           /\ uplink' \in [Seats -> Seq(Envelope)]
           /\ \A s \in Seats : Range(uplink'[s]) \subseteq Range(uplink[s])
<1>1. /\ uplink \in [Seats -> Seq(Envelope)] /\ uplink[a] \in Seq(Envelope) /\ uplink[a] # <<>>
      /\ uplink' = [uplink EXCEPT ![a] = Tail(uplink[a])]
  BY DEF RetrySound, received
<1>2. /\ Head(uplink[a]) \in Range(uplink[a]) /\ Tail(uplink[a]) \in Seq(Envelope)
      /\ Range(Tail(uplink[a])) \subseteq Range(uplink[a])
  <2> DEFINE u == uplink[a]
             t == Tail(u)
  <2>1. /\ 1 \in DOMAIN u /\ Head(u) = u[1] /\ t \in Seq(Envelope)
        /\ \A i \in DOMAIN t : i + 1 \in DOMAIN u /\ t[i] = u[i + 1]
    BY <1>1
  <2> HIDE DEF u, t
  <2> QED BY <2>1 DEF Range, u, t
<1>3. Head(uplink[a]) \in Envelope
  BY <1>1
<1> QED BY <1>1, <1>2, <1>3 DEF RetrySound

\* A step of the server that leaves the run sound and moves it no way but on.
LEMMA StepSound ==
    ASSUME RetrySound, RunKept(server'), Onward(server', server),
           uplink' \in [Seats -> Seq(Envelope)], posted' = posted,
           \A s \in Seats : Range(uplink'[s]) \subseteq Range(uplink[s])
    PROVE  RetrySound'
<1>1. ASSUME NEW s \in Seats, NEW e \in Range(uplink'[s]) \cup Range(posted'[s])
      PROVE  Timely(server', s, e)
  <2>1. /\ e \in Range(uplink[s]) \cup Range(posted[s])
        /\ uplink[s] \in Seq(Envelope) /\ posted[s] \in Seq(Envelope)
    BY <1>1 DEF RetrySound
  <2>2. e \in Envelope /\ Timely(server, s, e)
    BY <2>1 DEF RetrySound, Range
  <2> QED BY <2>2, TimelyKept DEF RetrySound, RunKept
<1> QED BY <1>1 DEF RetrySound

\* A client sends a command of the revision it has seen, or one it sent before.
LEMMA PostSound ==
    ASSUME RetrySound, NEW a \in Seats, NEW e \in Envelope, Timely(server, a, e), Post(a, e)
    PROVE  RetrySound'
<1>1. /\ uplink \in [Seats -> Seq(Envelope)] /\ posted \in [Seats -> Seq(Envelope)]
      /\ server' = server /\ uplink' = [uplink EXCEPT ![a] = <<e>>]
      /\ posted' = [posted EXCEPT ![a] = Append(posted[a], e)]
  BY DEF RetrySound, Post
<1>2. /\ uplink' \in [Seats -> Seq(Envelope)] /\ posted' \in [Seats -> Seq(Envelope)]
      /\ Range(uplink'[a]) = {e} /\ Range(posted'[a]) = Range(posted[a]) \cup {e}
      /\ \A s \in Seats \ {a} : uplink'[s] = uplink[s] /\ posted'[s] = posted[s]
  <2>1. <<e>> \in Seq(Envelope) /\ Range(<<e>>) = {e}
    BY DEF Range
  <2>2. posted[a] \in Seq(Envelope)
    BY <1>1
  <2>3. Range(Append(posted[a], e)) = Range(posted[a]) \cup {e}
    BY <2>2, AppendedRange
  <2> DEFINE one == <<e>>
             all == Append(posted[a], e)
  <2>4. one \in Seq(Envelope) /\ all \in Seq(Envelope)
    BY <2>1, <2>2
  <2> HIDE DEF one, all
  <2>5. /\ uplink' \in [Seats -> Seq(Envelope)] /\ uplink'[a] = one
        /\ \A s \in Seats \ {a} : uplink'[s] = uplink[s]
    BY <1>1, <2>4 DEF one
  <2>6. /\ posted' \in [Seats -> Seq(Envelope)] /\ posted'[a] = all
        /\ \A s \in Seats \ {a} : posted'[s] = posted[s]
    BY <1>1, <2>4 DEF all
  <2> QED BY <2>1, <2>3, <2>5, <2>6 DEF one, all
<1>3. ASSUME NEW s \in Seats, NEW x \in Range(uplink'[s]) \cup Range(posted'[s])
      PROVE  Timely(server, s, x)
  BY <1>2, <1>3 DEF RetrySound
<1> QED BY <1>1, <1>2, <1>3 DEF RetrySound

\* The run starts with nothing said.
LEMMA RetryInitSound == RetryInit => RetrySound
<1> SUFFICES ASSUME RetryInit PROVE RetrySound
  OBVIOUS
<1> DEFINE room == createMatchRoom
<1>1. PICK first \in FirstSeats : server = startRun(room, first)
  BY DEF RetryInit
<1>2. /\ ServerSound(room) /\ room.phase = "ready" /\ room.readySeats = {}
      /\ \A s \in Seats : room.sent[s] = <<>>
  BY RoomCreated DEF createMatchRoom
<1>3. first \in Seats /\ room = [room EXCEPT !.readySeats = {}]
  BY <1>2, CoordinatorAssumption DEF ServerSound, RunSound, ServerState
<1> HIDE DEF room
<1>4. ServerSound(server) /\ Begun(server, room, first)
  BY <1>1, <1>2, <1>3, RunStarted
<1> DEFINE turns == newTurns(first)
           run == newRun(room.run.id + 1, first)
<1>5. /\ run.bufferedOpponentUpdate = <<>> /\ run.state = turns
      /\ turns.extraTurnInProgress = {}
      /\ \A s \in Seats : run.commandCaches[s] = <<>>
  BY <1>3, NewTurns DEF newRun
<1>6. server.run = run
  BY <1>4 DEF Begun
<1> HIDE DEF run, turns
<1>7. Halved(server)
  BY <1>5, <1>6 DEF Halved, Range
<1>8. ASSUME NEW s \in Seats PROVE Accounted(server, s)
  <2> DEFINE p == [kind |-> "game-start", run |-> room.run.id + 1, state |-> newTurns(first)]
  <2>1. server.sent[s] = Append(<<>>, p) /\ p.kind = "game-start"
    BY <1>2, <1>4 DEF Begun
  <2> HIDE DEF p
  <2>2. Append(<<>>, p) = <<p>> /\ Range(<<p>>) = {p} /\ Range(<<>>) = {}
    BY DEF Range
  <2>3. accepted(server, s) = {}
    BY <2>1, <2>2 DEF accepted
  <2> QED BY <1>5, <1>6, <2>2, <2>3 DEF Accounted
<1>9. /\ uplink = [s \in Seats |-> <<>>] /\ posted = [s \in Seats |-> <<>>]
      /\ Range(<<>>) = {}
  BY DEF RetryInit, Range
<1> QED BY <1>4, <1>7, <1>8, <1>9 DEF RetrySound, RunKept

\* Every step keeps what the seats have been told in order.
LEMMA RetryNextSound == RetrySound /\ [RetryNext]_retryVars => RetrySound'
<1> SUFFICES ASSUME RetrySound, [RetryNext]_retryVars PROVE RetrySound'
  OBVIOUS
<1>1. /\ RunKept(server) /\ ServerSound(server) /\ Halved(server)
      /\ uplink \in [Seats -> Seq(Envelope)] /\ posted \in [Seats -> Seq(Envelope)]
      /\ server \in ServerState /\ server.run.revision \in Nat /\ server.run.id \in Nat
  BY SeatTypes DEF RetrySound, RunKept, ServerSound, RunSound, Seats
<1>2. ASSUME NEW a \in Seats, Send(a) PROVE RetrySound'
  <2>1. PICK id \in 0 .. MaxIds - 1, type \in CommandTypes :
            Post(a, [kind |-> "command", run |-> server.run.id, id |-> id,
                     expected |-> server.run.revision, type |-> type])
    BY <1>2 DEF Send
  <2> DEFINE e == [kind |-> "command", run |-> server.run.id, id |-> id,
                   expected |-> server.run.revision, type |-> type]
  <2>2. e \in Envelope /\ Timely(server, a, e)
    BY <1>1, <1>2, RetryAssumption DEF Envelope, Timely, Send
  <2> HIDE DEF e
  <2> QED BY <2>1, <2>2, PostSound DEF e
<1>3. ASSUME NEW a \in Seats, Resend(a) PROVE RetrySound'
  <2>1. PICK e \in Range(posted[a]) : Post(a, e)
    BY <1>3 DEF Resend
  <2>2. e \in Envelope /\ Timely(server, a, e)
    BY <1>1 DEF RetrySound, Range
  <2> QED BY <2>1, <2>2, PostSound
<1>4. ASSUME TurnTimerFires, UNCHANGED posted PROVE RetrySound'
  <2>1. server.phase = "active"
    BY <1>1, <1>4 DEF TurnTimerFires, ServerSound
  <2>2. ServerSound(server') /\ Resolved(server, server') /\ uplink' = uplink
    BY <1>1, <1>4, <2>1, DeadlineResolved DEF TurnTimerFires
  <2>3. server.run.state.activeSeat \in Seats
    BY <1>1 DEF ServerState, RunState, TurnState
  <2>4. \E command \in Command : Played(server', server, server.run.state.activeSeat, NoId, command)
    BY <1>1, <2>1, <2>2, ResolvedPlayed
  <2>5. RunKept(server') /\ server'.run.revision = server.run.revision + 1
    BY <1>1, <2>2, <2>3, <2>4, PlayedKept
  <2> QED BY <1>1, <1>4, <2>2, <2>5, StepSound DEF Onward
<1>5. ASSUME DeadlinePasses, UNCHANGED posted PROVE RetrySound'
  <2>1. server' = [server EXCEPT !.expired = TRUE] /\ uplink' = uplink
    BY <1>5 DEF DeadlinePasses
  <2>2. /\ server' \in ServerState
        /\ server'.run = server.run /\ server'.phase = server.phase /\ server'.sent = server.sent
        /\ server'.turnTimer = server.turnTimer /\ server'.revealTimers = server.revealTimers
        /\ server'.completed = server.completed
    BY <1>1, <2>1 DEF ServerState
  <2>3. ServerSound(server') /\ Halved(server')
    <3>1. ServerSound(server')
      BY <1>1, <2>2 DEF ServerSound, RunSound
    <3> QED BY <1>1, <2>2, <3>1, HalvedKept
  <2>4. \A s \in Seats : Accounted(server', s)
    BY <1>1, <2>2, AccountedStill DEF RunKept, accepted, told
  <2>5. RunKept(server')
    BY <2>3, <2>4 DEF RunKept
  <2> QED BY <1>1, <1>5, <2>1, <2>2, <2>5, StepSound DEF Onward
<1>6. ASSUME NEW a \in Seats, HandleCommand(a), UNCHANGED posted PROVE RetrySound'
  <2>1. received(a, "command") /\ server' \in handleGameCommand(server, a, Head(uplink[a]))
    BY <1>6 DEF HandleCommand
  <2>2. /\ Head(uplink[a]) \in Envelope /\ Timely(server, a, Head(uplink[a]))
        /\ uplink' \in [Seats -> Seq(Envelope)]
        /\ \A s \in Seats : Range(uplink'[s]) \subseteq Range(uplink[s])
    BY <2>1, EnvelopeReceived
  <2>3. RunKept(server') /\ Onward(server', server)
    BY <1>1, <2>1, <2>2, CommandAnswered
  <2> QED BY <1>6, <2>2, <2>3, StepSound
<1>7. ASSUME NEW a \in Seats, RevealTimerFires(a), UNCHANGED posted PROVE RetrySound'
  <2>1. /\ a \in server.revealTimers /\ uplink' = uplink
        /\ server' \in closeRevealWindow([server EXCEPT !.revealTimers = server.revealTimers \ {a}], a)
    BY <1>7 DEF RevealTimerFires
  <2>2. /\ ServerSound(server') /\ server'.phase = "active"
        /\ \E st \in endReveal(server.run.state, a) :
            Spread(server, server', a, NoId, [type |-> "end-reveal", after |-> st],
                   buffering(server))
    BY <1>1, <2>1, WindowClosed
  <2>3. \E command \in Command : Played(server', server, a, NoId, command)
    BY <1>1, <2>1, <2>2, WindowPlayed
  <2>4. RunKept(server') /\ server'.run.revision = server.run.revision + 1
    BY <1>1, <2>2, <2>3, PlayedKept
  <2> QED BY <1>1, <1>7, <2>1, <2>4, StepSound DEF Onward
<1>8. CASE UNCHANGED retryVars
  BY <1>1, <1>8 DEF retryVars, RetrySound
<1> QED BY <1>2, <1>3, <1>4, <1>5, <1>6, <1>7, <1>8 DEF RetryNext

\* What the seats of a run have been told stays in order.
THEOREM RetryInvariant == RetrySpec => []RetrySound
BY RetryInitSound, RetryNextSound, PTL DEF RetrySpec

\* Whatever a client repeats, it is told of one acceptance of each command and of each
\* revision once (handleGameCommand and rememberResponse of matchCoordinator.ts).
THEOREM AnswersStaySingle == RetrySpec => []AnsweredOnce
<1>1. RetrySound => AnsweredOnce
  BY DEF RetrySound, RunKept, Accounted, accepted, AnsweredOnce, AnswersAgree, RevisionsOnce,
         acceptances
<1> QED BY <1>1, RetryInvariant, PTL

\* A repeated command is never applied again, and one whose deadline has passed finds the
\* turn it was meant for over (handleGameCommand of matchCoordinator.ts).
THEOREM RepeatsStayInert == RetrySpec => RepeatsInert
<1>1. RetrySound /\ [RetryNext]_retryVars =>
        /\ [\A s \in Seats :
                HandleCommand(s) /\ Head(uplink[s]).id \in server.run.acceptedCommandIds[s] =>
                    server'.run.revision = server.run.revision
                        + (IF server.phase = "active" /\ server.expired THEN 1 ELSE 0)]_retryVars
        /\ [\A s \in Seats :
                HandleCommand(s) /\ server.phase = "active" /\ server.expired =>
                    server'.run.revision = server.run.revision + 1]_retryVars
  <2> SUFFICES ASSUME RetrySound, NEW s \in Seats, HandleCommand(s)
               PROVE  /\ Head(uplink[s]).id \in server.run.acceptedCommandIds[s] =>
                            server'.run.revision = server.run.revision + overdue(server)
                      /\ overdue(server) = 1 =>
                            server'.run.revision = server.run.revision + 1
    BY DEF overdue
  <2>1. received(s, "command") /\ server' \in handleGameCommand(server, s, Head(uplink[s]))
    BY DEF HandleCommand
  <2>2. Head(uplink[s]) \in Envelope /\ Timely(server, s, Head(uplink[s])) /\ RunKept(server)
    BY <2>1, EnvelopeReceived DEF RetrySound
  <2> QED BY <2>1, <2>2, CommandAnswered
<1> QED BY <1>1, RetryInvariant, PTL DEF RetrySpec, RepeatsInert, RepeatInert, LateCommandMissesTurn
=============================================================================

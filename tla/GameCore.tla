------------------------------ MODULE GameCore ------------------------------
(* The rules reducer of packages/game-core/src/index.ts.                     *)
(*                                                                           *)
(* Two seats each fill their own copy of the same set of locations; pieces   *)
(* meet where both boards hold one.  A seat's lines unlock power-ups, a      *)
(* destroyed piece desecrates its cell, and the game is over after maxTurns  *)
(* turns, played or passed.                                                  *)
(*                                                                           *)
(* The reducer is pure, so each of its functions is an operator on a game    *)
(* state; one that chooses at random, or that loops, yields the set of       *)
(* states it can return, and {} is a rejection.  The mulberry32 generator,   *)
(* the rejection reasons and the domain events are left out, and so is       *)
(* currentRound, which is a function of turnCount.                           *)
EXTENDS Integers, Sequences, FiniteSets

CONSTANTS
    Locations,        \* mode.topology.locationIds
    WinningPatterns,  \* mode.topology.winningPatterns, in its order
    PowerupBySymbol,  \* config.powerupBySymbol
    PowerupsEnabled,  \* config.powerupsEnabled
    AllowedPowerups,  \* the power-ups config.powerups leaves on
    Rounds            \* config.rounds

Seats    == {0, 1}
Symbols  == {"rock", "paper", "scissors"}
Powerups == {"shield", "reveal", "extraTurn"}

NoSymbol == "none"    \* a location whose symbol is null
NoSeat   == 2         \* a drawn result's winner

ASSUME TopologyAssumption ==
    /\ Locations # {}
    /\ IsFiniteSet(Locations)
    /\ WinningPatterns \in Seq((SUBSET Locations) \ {{}})
ASSUME ConfigAssumption ==
    /\ PowerupBySymbol \in [Symbols -> Powerups]
    /\ PowerupsEnabled \in BOOLEAN
    /\ AllowedPowerups \subseteq Powerups
    /\ Rounds \in Nat \ {0}

DESECRATION_TURNS == 2
maxTurns == 2 * Rounds

otherSeat(s) == 1 - s
defeats == [rock |-> "scissors", paper |-> "rock", scissors |-> "paper"]

-----------------------------------------------------------------------------
(* The game state.                                                           *)

LocationState ==
    [symbol : Symbols \cup {NoSymbol}, immune : BOOLEAN,
     desecratedTurns : 0 .. DESECRATION_TURNS]

Placement == [locationId : Locations, symbol : Symbols]

PlayerPowerups ==
    [unlocked : SUBSET Powerups, used : SUBSET Powerups,
     revealActive : BOOLEAN, extraTurnArmed : BOOLEAN,
     extraTurnInProgress : BOOLEAN, shieldSelectionPending : BOOLEAN]

GameResult == [scores : [Seats -> Nat], winner : Seats \cup {NoSeat}]
NoResult   == [scores |-> [s \in Seats |-> 0], winner |-> NoSeat]

GameState ==
    [phase : {"active", "finished"},
     firstSeat : Seats,
     boards : [Seats -> [Locations -> LocationState]],
     powerups : [Seats -> PlayerPowerups],
     activeSeat : Seats,
     turnCount : 0 .. maxTurns,
     pendingExtraPlacements : {<<>>} \cup {<<p>> : p \in Placement},
     result : GameResult]

createPowerups ==
    [unlocked |-> {}, used |-> {}, revealActive |-> FALSE,
     extraTurnArmed |-> FALSE, extraTurnInProgress |-> FALSE,
     shieldSelectionPending |-> FALSE]

createBoard ==
    [l \in Locations |->
        [symbol |-> NoSymbol, immune |-> FALSE, desecratedTurns |-> 0]]

createGame(first) ==
    [phase |-> "active", firstSeat |-> first,
     boards |-> [s \in Seats |-> createBoard],
     powerups |-> [s \in Seats |-> createPowerups],
     activeSeat |-> first, turnCount |-> 0,
     pendingExtraPlacements |-> <<>>, result |-> NoResult]

-----------------------------------------------------------------------------
(* Turns.                                                                    *)

isPlayable(cell) == cell.symbol = NoSymbol /\ cell.desecratedTurns = 0
hasLegalPlacement(st, s) == \E l \in Locations : isPlayable(st.boards[s][l])

\* fault: the guard on a cell that is not desecrated is dropped
beginTurns_NoGuard(board, n) ==
    [l \in Locations |-> [board[l] EXCEPT !.desecratedTurns = @ - n]]

\* beginTurn, run n times on the same seat's board
beginTurns(board, n) ==
    [l \in Locations |->
        [board[l] EXCEPT !.desecratedTurns = IF @ > n THEN @ - n ELSE 0]]

scoreOf(st, s) == Cardinality({l \in Locations : st.boards[s][l].symbol # NoSymbol})

finishGame(st) ==
    LET scores == [s \in Seats |-> scoreOf(st, s)]
        winner == IF scores[0] = scores[1] THEN NoSeat
                  ELSE IF scores[0] > scores[1] THEN 0 ELSE 1
    IN  [st EXCEPT !.phase = "finished",
                   !.result = [scores |-> scores, winner |-> winner]]

\* fault: every turn that begins ages both boards
turnsOf_BothSeats(st, s, n) == n

\* how many of the first n turns to begin after the active seat's are seat s's
turnsOf(st, s, n) == IF s = st.activeSeat THEN n \div 2 ELSE (n + 1) \div 2

\* the seats alternate for n turns
turnsBegun(st, n) ==
    [st EXCEPT !.activeSeat = IF n % 2 = 0 THEN @ ELSE otherSeat(@),
               !.boards = [s \in Seats |->
                              beginTurns(st.boards[s], turnsOf(st, s, n))]]

\* fault: the last turn is off by one
turnsConsumed_Late(st, k) ==
    LET counted == [st EXCEPT !.turnCount = @ + k]
    IN  IF counted.turnCount > maxTurns
        THEN finishGame(turnsBegun(counted, k - 1))
        ELSE turnsBegun(counted, k)

\* k turns are used up: the active seat's own and k - 1 automatic passes.  The
\* last turn of the game is not followed by another seat's.
turnsConsumed(st, k) ==
    LET counted == [st EXCEPT !.turnCount = @ + k]
    IN  IF counted.turnCount >= maxTurns
        THEN finishGame(turnsBegun(counted, k - 1))
        ELSE turnsBegun(counted, k)

\* fault: resolveAutomaticPasses is not called
passingStops_AtOnce(st, k) == TRUE

\* resolveAutomaticPasses stops passing where the game is over or the seat
\* whose turn has begun can place
passingStops(st, k) ==
    \/ st.turnCount + k >= maxTurns
    \/ LET next == turnsBegun(st, k) IN hasLegalPlacement(next, next.activeSeat)

\* consumeTurn with the loop of resolveAutomaticPasses: the loop is left after
\* the first k at which it may stop
consumeTurn(st) ==
    {turnsConsumed(st, k) :
        k \in {n \in 1 .. maxTurns - st.turnCount :
                    /\ \A j \in 1 .. n - 1 : ~passingStops(st, j)
                    /\ passingStops(st, n)}}

-----------------------------------------------------------------------------
(* Conflicts: c is the pair of cells, one of each seat, at one location.     *)

\* fault: a tie leaves both pieces
shouldClear_TieStands(c, s) == defeats[c[otherSeat(s)].symbol] = c[s].symbol

\* comparison: does seat s's piece lose to, or tie with, the one it meets
shouldClear(c, s) ==
    LET mine == c[s].symbol  theirs == c[otherSeat(s)].symbol
    IN  mine = theirs \/ defeats[theirs] = mine

\* handleImmunity: a shield is spent on the attacker's piece
shieldHolds(c, clears, s) == clears[s] /\ c[s].immune
\* fault: the shield is spent and the attacker stays
handleImmunity_AttackerStays(c, clears, s) ==
    IF shieldHolds(c, clears, s) THEN [c EXCEPT ![s].immune = FALSE] ELSE c

handleImmunity(c, clears, s) ==
    IF shieldHolds(c, clears, s)
    THEN [c EXCEPT ![s].immune = FALSE,
                   ![otherSeat(s)].symbol = NoSymbol,
                   ![otherSeat(s)].immune = FALSE]
    ELSE c

resolveConflict(c) ==
    IF \E s \in Seats : c[s].symbol = NoSymbol
    THEN c
    ELSE LET clears == [s \in Seats |-> shouldClear(c, s)]
             c1     == handleImmunity(c, clears, 0)
             c2     == handleImmunity(c1, clears, 1)
             lost(s) == \/ c2[s].symbol = NoSymbol
                        \/ clears[s] /\ ~shieldHolds(IF s = 0 THEN c ELSE c1, clears, s)
         IN  [s \in Seats |->
                IF lost(s) THEN [symbol |-> NoSymbol, immune |-> FALSE,
                                 desecratedTurns |-> DESECRATION_TURNS]
                ELSE c2[s]]

-----------------------------------------------------------------------------
(* Power-ups.                                                                *)

\* the seat's locations of a pattern all hold y
lineOf(st, s, pattern, y) == \A l \in pattern : st.boards[s][l].symbol = y

\* what the seat's line along the i-th pattern would unlock
lineUnlocks(st, s, i) ==
    {PowerupBySymbol[y] : y \in {x \in Symbols : lineOf(st, s, WinningPatterns[i], x)}}
        \cap (AllowedPowerups \ st.powerups[s].unlocked)

\* fault: the loop over the patterns starts one too late
maybeUnlockPowerup_SkipsFirst(st, s) ==
    [st EXCEPT !.powerups[s].unlocked =
        @ \cup UNION {lineUnlocks(st, s, i) : i \in 2 .. Len(WinningPatterns)}]

\* only the first pattern with something to unlock does
maybeUnlockPowerup(st, s) ==
    LET first == {i \in DOMAIN WinningPatterns :
                    /\ lineUnlocks(st, s, i) # {}
                    /\ \A j \in 1 .. i - 1 : lineUnlocks(st, s, j) = {}}
    IN  IF PowerupsEnabled
        THEN [st EXCEPT !.powerups[s].unlocked =
                @ \cup UNION {lineUnlocks(st, s, i) : i \in first}]
        ELSE st

-----------------------------------------------------------------------------
(* Commands.                                                                 *)

\* the piece is down, its conflict resolved and its line claimed
placed(st, s, l, y) ==
    LET met     == [p \in Seats |-> IF p = s
                                    THEN [st.boards[p][l] EXCEPT !.symbol = y]
                                    ELSE st.boards[p][l]]
        settled == resolveConflict(met)
        next    == [st EXCEPT
                      !.boards = [p \in Seats |-> [st.boards[p] EXCEPT ![l] = settled[p]]],
                      !.powerups[s].revealActive = FALSE]
    IN  maybeUnlockPowerup(next, s)

\* fault: the extra turn stays armed while it is played
extraTurnStarted_StaysArmed(st, s, l, y) ==
    [st EXCEPT !.powerups[s].extraTurnInProgress = TRUE,
               !.pendingExtraPlacements = <<[locationId |-> l, symbol |-> y]>>]

\* fault: the first half is kept, but not that a second is owed
extraTurnStarted_NotInProgress(st, s, l, y) ==
    [st EXCEPT !.powerups[s].extraTurnArmed = FALSE,
               !.pendingExtraPlacements = <<[locationId |-> l, symbol |-> y]>>]

extraTurnStarted(st, s, l, y) ==
    [st EXCEPT !.powerups[s].extraTurnArmed = FALSE,
               !.powerups[s].extraTurnInProgress = TRUE,
               !.pendingExtraPlacements = <<[locationId |-> l, symbol |-> y]>>]

\* fault: an extra turn the board has no room for stays armed
extraTurnEnded_StaysArmed(st, s) ==
    [st EXCEPT !.powerups[s].extraTurnInProgress = FALSE,
               !.pendingExtraPlacements = <<>>]

extraTurnEnded(st, s) ==
    [st EXCEPT !.powerups[s].extraTurnArmed = FALSE,
               !.powerups[s].extraTurnInProgress = FALSE,
               !.pendingExtraPlacements = <<>>]

place(st, s, l, y) ==
    LET next == placed(st, s, l, y)
        mine == next.powerups[s]
    IN  IF st.powerups[s].shieldSelectionPending \/ ~isPlayable(st.boards[s][l])
        THEN {}
        ELSE IF mine.extraTurnArmed /\ hasLegalPlacement(next, s)
        THEN {extraTurnStarted(next, s, l, y)}
        ELSE IF mine.extraTurnArmed \/ mine.extraTurnInProgress
        THEN consumeTurn(extraTurnEnded(next, s))
        ELSE consumeTurn(next)

\* fault: a power-up that was used may be used again
activatePowerup_Again(st, s, powerup) ==
    LET mine == st.powerups[s]
    IN  IF ~PowerupsEnabled \/ powerup \notin mine.unlocked
        THEN {}
        ELSE {[st EXCEPT !.powerups[s] =
                [mine EXCEPT
                    !.used = @ \cup {powerup},
                    !.shieldSelectionPending = @ \/ powerup = "shield",
                    !.revealActive = @ \/ powerup = "reveal",
                    !.extraTurnArmed = @ \/ powerup = "extraTurn"]]}

activatePowerup(st, s, powerup) ==
    LET mine == st.powerups[s]
    IN  IF ~PowerupsEnabled \/ powerup \notin mine.unlocked \/ powerup \in mine.used
        THEN {}
        ELSE {[st EXCEPT !.powerups[s] =
                [mine EXCEPT
                    !.used = @ \cup {powerup},
                    !.shieldSelectionPending = @ \/ powerup = "shield",
                    !.revealActive = @ \/ powerup = "reveal",
                    !.extraTurnArmed = @ \/ powerup = "extraTurn"]]}

\* fault: any location may be shielded
selectShieldTarget_Empty(st, s, l) ==
    IF ~st.powerups[s].shieldSelectionPending THEN {}
    ELSE {[st EXCEPT !.boards[s][l].immune = TRUE,
                     !.powerups[s].shieldSelectionPending = FALSE]}

selectShieldTarget(st, s, l) ==
    IF ~st.powerups[s].shieldSelectionPending \/ st.boards[s][l].symbol = NoSymbol
    THEN {}
    ELSE {[st EXCEPT !.boards[s][l].immune = TRUE,
                     !.powerups[s].shieldSelectionPending = FALSE]}

\* accepted, and inert, when the reveal is already down
endReveal(st, s) == {[st EXCEPT !.powerups[s].revealActive = FALSE]}

\* fault: a timeout places without aiming the shield that is owed
shieldSettled_Forgotten(st, s) == {st}

\* the random shield target of a turn that timed out while one was owed
shieldSettled(st, s) ==
    LET targets == {l \in Locations : st.boards[s][l].symbol # NoSymbol}
    IN  IF ~st.powerups[s].shieldSelectionPending THEN {st}
        ELSE IF targets = {}
        THEN {[st EXCEPT !.powerups[s].shieldSelectionPending = FALSE]}
        ELSE UNION {selectShieldTarget(st, s, l) : l \in targets}

\* fault: a timeout leaves the second half of an extra turn to the player
randomPlacement_HalfTurnStands(st, s) ==
    IF st.powerups[s].extraTurnInProgress THEN {st}
    ELSE UNION {place(st, s, l, y) :
                    l \in {c \in Locations : isPlayable(st.boards[s][c])}, y \in Symbols}

\* a random piece on a random playable cell
randomPlacement(st, s) ==
    LET available == {l \in Locations : isPlayable(st.boards[s][l])}
    IN  IF available = {} THEN consumeTurn(st)
        ELSE UNION {place(st, s, l, y) : l \in available, y \in Symbols}

applyTimeout(st) ==
    UNION {randomPlacement(working, st.activeSeat) :
            working \in shieldSettled(st, st.activeSeat)}

-----------------------------------------------------------------------------
(* The game as a state machine, one action per command of applyCommand.      *)

VARIABLE game

\* applyCommand's check of the phase and of the actor
mayAct(s) == game.phase = "active" /\ s = game.activeSeat

Init == \E first \in Seats : game = createGame(first)

Place(s, l, y)         == mayAct(s) /\ game' \in place(game, s, l, y)
ActivatePowerup(s, p)  == mayAct(s) /\ game' \in activatePowerup(game, s, p)
SelectShieldTarget(s, l) == mayAct(s) /\ game' \in selectShieldTarget(game, s, l)
\* exempt from the check of the actor
EndReveal(s)           == game.phase = "active" /\ game' \in endReveal(game, s)
Timeout                == game.phase = "active" /\ game' \in applyTimeout(game)

Next ==
    \/ Timeout
    \/ \E s \in Seats :
        \/ \E l \in Locations, y \in Symbols : Place(s, l, y)
        \/ \E p \in Powerups : ActivatePowerup(s, p)
        \/ \E l \in Locations : SelectShieldTarget(s, l)
        \/ EndReveal(s)

Spec == Init /\ [][Next]_game

\* ENABLED <<Timeout>>_game, as a predicate of the state
canTimeOut == game.phase = "active" /\ applyTimeout(game) \ {game} # {}

\* Every mode arms a turn clock (MIN_TURN_SECONDS > 0), and when it expires the
\* authority applies a timeout: no player has to act for the game to go on.
\* This is WF_game(Timeout) written out, which TLC evaluates much faster than it
\* finds out whether an operator that yields a set of states is enabled.
ClockRuns == []<>~canTimeOut \/ []<><<Timeout>>_game
FairSpec == Spec /\ ClockRuns

-----------------------------------------------------------------------------
(* Properties.                                                               *)

\* Every field of the reducer's state has its type.
TypeOK == game \in GameState

\* A location is never occupied on both boards: resolveConflict leaves at most
\* one piece where two met, whichever of them was shielded.
SoleOccupantIn(st) ==
    \A l \in Locations : \E s \in Seats : st.boards[s][l].symbol = NoSymbol
SoleOccupant == SoleOccupantIn(game)

\* Only a piece carries a shield and only an empty cell is desecrated, so a
\* piece placed later inherits neither (place sets the symbol alone).
CellsSoundIn(st) ==
    \A s \in Seats, l \in Locations :
        LET cell == st.boards[s][l]
        IN  /\ cell.immune => cell.symbol # NoSymbol
            /\ cell.desecratedTurns > 0 => cell.symbol = NoSymbol
CellsSound == CellsSoundIn(game)

\* The two boards fit each other, and every cell of them is one that the rules
\* know: the conflict of two placements (index.ts, resolveConflict), the shields
\* and the desecration leave nothing else behind.
BoardsCoherent == SoleOccupant /\ CellsSound

\* Everything a power-up opens is closed before the turn leaves the seat that
\* opened it: no reveal, no armed or half-played extra turn and no owed shield
\* target outlives its turn or the game, by placement, timeout or pass.
FlagsWithinTurnIn(st) ==
    \A s \in Seats :
        LET p == st.powerups[s]
        IN  (p.revealActive \/ p.extraTurnArmed \/ p.extraTurnInProgress
                \/ p.shieldSelectionPending)
            => st.phase = "active" /\ s = st.activeSeat
FlagsWithinTurn == FlagsWithinTurnIn(game)

\* The first half of an extra turn is kept exactly as long as the second half
\* is owed, an extra turn is never armed again while it is in progress, and
\* only one that was activated is played.
ExtraTurnSoundIn(st) ==
    /\ \A s \in Seats :
        LET p == st.powerups[s]
        IN  /\ ~(p.extraTurnArmed /\ p.extraTurnInProgress)
            /\ p.extraTurnArmed \/ p.extraTurnInProgress => "extraTurn" \in p.used
            /\ p.used \subseteq p.unlocked
            /\ p.unlocked \subseteq AllowedPowerups
    /\ (st.pendingExtraPlacements # <<>>)
        <=> (\E s \in Seats : st.powerups[s].extraTurnInProgress)
ExtraTurnSound == ExtraTurnSoundIn(game)

\* No power-up outlives its turn, is spent twice or leaves half a turn behind,
\* however activations, placements, timeouts and passes follow each other.
PowerupsCoherent == FlagsWithinTurn /\ ExtraTurnSound

\* Turns alternate strictly from the first seat on, passes included, so each
\* seat has its share of maxTurns; the game is over exactly when they are used
\* up, and its result counts the boards it ended with.
TurnOrderIn(st) ==
    /\ st.phase = "active" =>
        /\ st.turnCount < maxTurns
        /\ st.activeSeat = (st.firstSeat + st.turnCount) % 2
        /\ st.result = NoResult
    /\ st.phase = "finished" =>
        /\ st.turnCount = maxTurns
        /\ \A s \in Seats : st.result.scores[s] = scoreOf(st, s)
TurnOrder == TurnOrderIn(game)

\* The seat to move always has a cell to move to, so a timeout always finds a
\* placement and its branch for a full board is never taken.
ActiveSeatCanPlaceIn(st) ==
    st.phase = "active" => hasLegalPlacement(st, st.activeSeat)
ActiveSeatCanPlace == ActiveSeatCanPlaceIn(game)

\* No complete line is left unclaimed, so the order of the patterns does not
\* matter: a placement completes lines of one symbol only, and a line whose
\* power-up is disabled does not block another (index.ts, maybeUnlockPowerup).
LinesClaimed ==
    PowerupsEnabled =>
        \A s \in Seats, i \in DOMAIN WinningPatterns : lineUnlocks(game, s, i) = {}

\* A shielded piece survives every step, and loses its shield only to an attack
\* at its location in which the attacker's piece is the one destroyed.
ShieldProtects ==
    [][\A s \in Seats, l \in Locations :
        game.boards[s][l].immune =>
            /\ game'.boards[s][l].symbol = game.boards[s][l].symbol
            /\ \/ game'.boards[s][l].immune
               \/ /\ s # game.activeSeat
                  /\ isPlayable(game.boards[otherSeat(s)][l])
                  /\ game'.boards[otherSeat(s)][l].symbol = NoSymbol]_game

\* The turn at whose start a desecrated cell of seat s is playable again.
reopensAt(st, s, l) ==
    st.turnCount + 2 * st.boards[s][l].desecratedTurns
        - (IF s = st.activeSeat THEN 0 ELSE 1)

\* A destroyed cell costs its owner exactly one turn: it reopens at the start of
\* the owner's second turn after the one in which it was destroyed, and no pass
\* or timeout brings that forward or puts it off.
DesecrationCostsOneTurn ==
    [][\A s \in Seats, l \in Locations :
        LET old == game.boards[s][l]  new == game'.boards[s][l]
            due == IF old.desecratedTurns > 0 THEN reopensAt(game, s, l)
                   ELSE game.turnCount + (IF s = game.activeSeat THEN 4 ELSE 3)
        IN  /\ old.desecratedTurns > 0 /\ game'.phase = "active" =>
                IF game'.turnCount < due
                THEN new.desecratedTurns > 0 /\ reopensAt(game', s, l) = due
                ELSE isPlayable(new)
            /\ old.symbol # NoSymbol /\ new.symbol = NoSymbol /\ game'.phase = "active" =>
                IF game'.turnCount < due
                THEN new.desecratedTurns > 0 /\ reopensAt(game', s, l) = due
                ELSE isPlayable(new)]_game

\* What a seat has left to spend, counted up: each power-up once to activate it,
\* the shield once more to aim it, the extra turn once more to begin it and the
\* reveal once more to close it.
spentBy(p) ==
    Cardinality(p.used)
    + (IF "shield" \in p.used /\ ~p.shieldSelectionPending THEN 1 ELSE 0)
    + (IF "extraTurn" \in p.used /\ ~p.extraTurnArmed THEN 1 ELSE 0)
    + (IF "reveal" \in p.used /\ ~p.revealActive THEN 1 ELSE 0)
progress(st) == st.turnCount + spentBy(st.powerups[0]) + spentBy(st.powerups[1])

\* Every command that changes anything uses up a turn or a power-up for good, so
\* a game admits at most maxTurns + 12 of them, whoever plays and however the
\* clock runs.
CommandsRunOut ==
    [][progress(game') > progress(game) /\ progress(game') <= maxTurns + 12]_game

\* With only the turn clock to rely on, every game ends: no owed shield target,
\* open reveal, half-played extra turn or full board stalls it (index.ts,
\* applyTimeout and resolveAutomaticPasses).  A timeout need not end the turn: one
\* that finds an extra turn armed plays its first half, and the next the second.
GameEnds == <>(game.phase = "finished")
=============================================================================

-------------------------- MODULE GameCore_proofs --------------------------

(* Proofs about GameCore, for every topology, configuration and number of    *)
(* rounds: what each operator of the reducer does to a game state, and from  *)
(* that the invariants of every game; then what each command does, field by  *)
(* field, and from that what no command may do to a shield, a desecrated     *)
(* cell, a line or a power-up, and that the reducer implements the turn      *)
(* structure.                                                                *)
EXTENDS GameCoreTurns, FiniteSetTheorems, WellFoundedInduction, TLAPS

\* The state invariants together: each needs some of the others to be inductive
\* (a placement leaves no two pieces at a location because the cells it meets
\* are sound, a turn ends with its flags down because they belong to its seat).
GameInv(st) ==
    /\ st \in GameState
    /\ SoleOccupantIn(st)
    /\ CellsSoundIn(st)
    /\ FlagsWithinTurnIn(st)
    /\ ExtraTurnSoundIn(st)
    /\ TurnOrderIn(st)
    /\ ActiveSeatCanPlaceIn(st)

\* A cell with a shield or a desecration mark where it may have one.
CellSound(cell) ==
    /\ cell \in LocationState
    /\ cell.immune => cell.symbol # NoSymbol
    /\ cell.desecratedTurns > 0 => cell.symbol = NoSymbol

BoardsSound(boards) ==
    /\ boards \in [Seats -> [Locations -> LocationState]]
    /\ \A s \in Seats, l \in Locations : CellSound(boards[s][l])
    /\ \A l \in Locations : \E s \in Seats : boards[s][l].symbol = NoSymbol

\* Every configuration has at least one turn (maxRounds of one seat and the other).
LEMMA MaxTurnsType == maxTurns \in Nat /\ maxTurns > 0
BY ConfigAssumption DEF maxTurns

\* A state's boards are sound exactly when the invariants about boards hold.
LEMMA BoardsOf ==
    ASSUME NEW st \in GameState
    PROVE  BoardsSound(st.boards) <=> SoleOccupantIn(st) /\ CellsSoundIn(st)
BY DEF BoardsSound, SoleOccupantIn, CellsSoundIn, CellSound, GameState

-----------------------------------------------------------------------------

(* Conflicts.                                                                *)

\* A shield that holds is spent, and the attacker's cell emptied with it.
LEMMA ImmunityHandled ==
    ASSUME NEW c \in [Seats -> LocationState], NEW clears \in [Seats -> BOOLEAN],
           NEW s \in Seats, NEW o \in Seats, o = otherSeat(s)
    PROVE  LET r == handleImmunity(c, clears, s)
               held == clears[s] /\ c[s].immune
           IN  /\ r \in [Seats -> LocationState]
               /\ r[s].symbol = c[s].symbol
               /\ r[s].immune <=> c[s].immune /\ ~held
               /\ r[s].desecratedTurns = c[s].desecratedTurns
               /\ r[o].symbol = IF held THEN NoSymbol ELSE c[o].symbol
               /\ r[o].immune <=> c[o].immune /\ ~held
               /\ r[o].desecratedTurns = c[o].desecratedTurns
<1>0. o # s
  BY DEF otherSeat, Seats
<1>1. CASE ~shieldHolds(c, clears, s)
  BY <1>1 DEF handleImmunity, shieldHolds
<1>2. CASE shieldHolds(c, clears, s)
  <2> DEFINE mine == [c[s] EXCEPT !.immune = FALSE]
             theirs == [c[o] EXCEPT !.symbol = NoSymbol, !.immune = FALSE]
  <2>1. handleImmunity(c, clears, s) = [c EXCEPT ![s] = mine, ![o] = theirs]
    <3>1. handleImmunity(c, clears, s) =
            [c EXCEPT ![s].immune = FALSE, ![o].symbol = NoSymbol, ![o].immune = FALSE]
      BY <1>2 DEF handleImmunity
    <3> QED BY <3>1, <1>0, Zenon
  <2>2. /\ mine \in LocationState
        /\ mine.symbol = c[s].symbol /\ mine.immune = FALSE
        /\ mine.desecratedTurns = c[s].desecratedTurns
    BY DEF LocationState
  <2>3. /\ theirs \in LocationState
        /\ theirs.symbol = NoSymbol /\ theirs.immune = FALSE
        /\ theirs.desecratedTurns = c[o].desecratedTurns
    BY DEF LocationState
  <2> HIDE DEF mine, theirs
  <2>4. clears[s] /\ c[s].immune
    BY <1>2 DEF shieldHolds
  <2> QED BY <1>0, <2>1, <2>2, <2>3, <2>4
<1> QED BY <1>1, <1>2

\* What a conflict makes of the two cells c of a location: without two pieces nothing; of
\* two, each stays as it was or is destroyed and its cell desecrated; and a shielded piece
\* stays, its shield with it or the other piece gone.
Fought(c, d) ==
    /\ (\E s \in Seats : c[s].symbol = NoSymbol) => d = c
    /\ (\A s \in Seats : c[s].symbol # NoSymbol) =>
            \A s \in Seats :
                \/ d[s].symbol = c[s].symbol /\ d[s].desecratedTurns = c[s].desecratedTurns
                \/ d[s].symbol = NoSymbol /\ d[s].desecratedTurns = DESECRATION_TURNS
    /\ \A s \in Seats : c[s].immune /\ ~c[otherSeat(s)].immune =>
            /\ d[s].symbol = c[s].symbol
            /\ d[s].immune \/ d[otherSeat(s)].symbol = NoSymbol

\* A conflict leaves sound cells, at most one of them occupied.
LEMMA ConflictResolved ==
    ASSUME NEW c \in [Seats -> LocationState],
           \A s \in Seats : CellSound(c[s])
    PROVE  /\ resolveConflict(c) \in [Seats -> LocationState]
           /\ \A s \in Seats : CellSound(resolveConflict(c)[s])
           /\ \E s \in Seats : resolveConflict(c)[s].symbol = NoSymbol
           /\ Fought(c, resolveConflict(c))
<1> DEFINE clears == [s \in Seats |-> shouldClear(c, s)]
           c1 == handleImmunity(c, clears, 0)
           c2 == handleImmunity(c1, clears, 1)
           lost(s) == \/ c2[s].symbol = NoSymbol
                      \/ clears[s] /\ ~shieldHolds(IF s = 0 THEN c ELSE c1, clears, s)
<1>1. CASE \E s \in Seats : c[s].symbol = NoSymbol
  BY <1>1 DEF resolveConflict, Fought
<1>2. CASE \A s \in Seats : c[s].symbol # NoSymbol
  <2>1. c[0].symbol \in Symbols /\ c[1].symbol \in Symbols
    BY <1>2 DEF LocationState, Seats
  <2>2. clears \in [Seats -> BOOLEAN] /\ (clears[0] \/ clears[1])
    <3>1. shouldClear(c, 0) \/ shouldClear(c, 1)
      BY <2>1 DEF shouldClear, defeats, otherSeat, Symbols
    <3>2. \A s \in Seats : shouldClear(c, s) \in BOOLEAN
      BY DEF shouldClear
    <3> QED BY <3>1, <3>2 DEF Seats
  <2> HIDE DEF clears
  <2>3. /\ c1 \in [Seats -> LocationState]
        /\ c1[0].symbol = c[0].symbol
        /\ c1[0].immune <=> c[0].immune /\ ~clears[0]
        /\ c1[0].desecratedTurns = c[0].desecratedTurns
        /\ c1[1].symbol = IF clears[0] /\ c[0].immune THEN NoSymbol ELSE c[1].symbol
        /\ c1[1].immune <=> c[1].immune /\ ~(clears[0] /\ c[0].immune)
        /\ c1[1].desecratedTurns = c[1].desecratedTurns
    <3>1. 0 \in Seats /\ 1 \in Seats /\ 1 = otherSeat(0)
      BY DEF Seats, otherSeat
    <3>2. c[0].immune \in BOOLEAN /\ clears[0] \in BOOLEAN
      BY <2>2, <3>1 DEF LocationState
    <3> QED BY <2>2, <3>1, <3>2, ImmunityHandled
  <2> HIDE DEF c1
  <2>4. /\ c2 \in [Seats -> LocationState]
        /\ c2[1].symbol = c1[1].symbol
        /\ c2[1].immune <=> c1[1].immune /\ ~clears[1]
        /\ c2[1].desecratedTurns = c1[1].desecratedTurns
        /\ c2[0].symbol = IF clears[1] /\ c1[1].immune THEN NoSymbol ELSE c1[0].symbol
        /\ c2[0].immune <=> c1[0].immune /\ ~(clears[1] /\ c1[1].immune)
        /\ c2[0].desecratedTurns = c1[0].desecratedTurns
    <3>1. 0 \in Seats /\ 1 \in Seats /\ 0 = otherSeat(1)
      BY DEF Seats, otherSeat
    <3>2. c1[1].immune \in BOOLEAN /\ clears[1] \in BOOLEAN
      BY <2>2, <2>3, <3>1 DEF LocationState
    <3> QED BY <2>2, <2>3, <3>1, <3>2, ImmunityHandled
  <2> HIDE DEF c2
  <2>5. /\ lost(0) <=> c2[0].symbol = NoSymbol \/ (clears[0] /\ ~c[0].immune)
        /\ lost(1) <=> c2[1].symbol = NoSymbol \/ (clears[1] /\ ~c1[1].immune)
    BY <2>2 DEF shieldHolds
  <2>6. lost(0) \/ lost(1)
    BY <2>2, <2>3, <2>4, <2>5
  <2>7. \A s \in Seats : ~lost(s) => CellSound(c2[s])
    <3>1. \A s \in Seats : c[s].desecratedTurns = 0
      BY <1>2 DEF CellSound, LocationState, DESECRATION_TURNS
    <3>2. \A s \in Seats : c2[s] \in LocationState /\ c2[s].desecratedTurns = 0
      BY <2>3, <2>4, <3>1 DEF Seats
    <3>3. \A s \in Seats : ~lost(s) => c2[s].symbol # NoSymbol
      OBVIOUS
    <3> QED BY <3>2, <3>3 DEF CellSound
  <2> DEFINE dead == [symbol |-> NoSymbol, immune |-> FALSE,
                      desecratedTurns |-> DESECRATION_TURNS]
  <2>8. CellSound(dead)
    BY DEF CellSound, LocationState, DESECRATION_TURNS
  <2>9. resolveConflict(c) = [s \in Seats |-> IF lost(s) THEN dead ELSE c2[s]]
    BY <1>2 DEF resolveConflict, clears, c1, c2
  <2> HIDE DEF lost
  <2>10. \A s \in Seats : CellSound(resolveConflict(c)[s])
    BY <2>7, <2>8, <2>9
  <2>11. \E s \in Seats : resolveConflict(c)[s].symbol = NoSymbol
    BY <2>6, <2>9 DEF Seats
  <2> DEFINE d == resolveConflict(c)
  <2>12. ASSUME NEW s \in Seats
         PROVE  \/ d[s].symbol = c[s].symbol /\ d[s].desecratedTurns = c[s].desecratedTurns
                \/ d[s].symbol = NoSymbol /\ d[s].desecratedTurns = DESECRATION_TURNS
    <3>1. CASE lost(s)
      BY <2>9, <3>1
    <3>2. CASE ~lost(s)
      <4>1. d[s] = c2[s]
        BY <2>9, <3>2
      <4>2. c2[s].symbol # NoSymbol
        BY <3>2 DEF lost
      <4> QED BY <2>3, <2>4, <4>1, <4>2 DEF Seats
    <3> QED BY <3>1, <3>2
  <2>13. /\ lost(0) => d[0].symbol = NoSymbol
         /\ lost(1) => d[1].symbol = NoSymbol
         /\ ~lost(0) => d[0] = c2[0]
         /\ ~lost(1) => d[1] = c2[1]
    BY <2>9 DEF Seats
  <2>14. c[0].immune /\ ~c[1].immune =>
            d[0].symbol = c[0].symbol /\ (d[0].immune \/ d[1].symbol = NoSymbol)
    <3> HIDE DEF d
    <3> QED BY <1>2, <2>2, <2>3, <2>4, <2>5, <2>13 DEF Seats
  <2>15. c[1].immune /\ ~c[0].immune =>
            d[1].symbol = c[1].symbol /\ (d[1].immune \/ d[0].symbol = NoSymbol)
    <3> HIDE DEF d
    <3> QED BY <1>2, <2>2, <2>3, <2>4, <2>5, <2>13 DEF Seats
  <2>16. Fought(c, d)
    <3> HIDE DEF d
    <3> QED BY <1>2, <2>12, <2>14, <2>15 DEF Fought, Seats, otherSeat
  <2> QED BY <2>9, <2>10, <2>11, <2>16 DEF CellSound
<1> QED BY <1>1, <1>2

-----------------------------------------------------------------------------

(* Turns.                                                                    *)

\* Beginning turns moves the turn and wears desecration off; no piece, power-up
\* or counter changes.
LEMMA TurnsBegun ==
    ASSUME NEW st \in GameState, BoardsSound(st.boards), NEW n \in Nat
    PROVE  LET t == turnsBegun(st, n)
           IN  /\ t \in GameState
               /\ BoardsSound(t.boards)
               /\ t.activeSeat = IF n % 2 = 0 THEN st.activeSeat ELSE otherSeat(st.activeSeat)
               /\ t.phase = st.phase /\ t.firstSeat = st.firstSeat
               /\ t.turnCount = st.turnCount /\ t.result = st.result
               /\ t.powerups = st.powerups
               /\ t.pendingExtraPlacements = st.pendingExtraPlacements
<1> DEFINE boards == [s \in Seats |-> beginTurns(st.boards[s], turnsOf(st, s, n))]
           seat == IF n % 2 = 0 THEN st.activeSeat ELSE otherSeat(st.activeSeat)
<1>1. seat \in Seats
  BY DEF GameState, otherSeat, Seats
<1>2. \A s \in Seats, l \in Locations :
        /\ CellSound(boards[s][l])
        /\ boards[s][l].symbol = st.boards[s][l].symbol
  <2> TAKE s \in Seats, l \in Locations
  <2> DEFINE cell == st.boards[s][l]
             m == turnsOf(st, s, n)
  <2>1. cell \in LocationState /\ CellSound(cell)
    BY DEF BoardsSound
  <2>2. m \in Nat
    BY DEF turnsOf
  <2>3. boards[s][l] = [cell EXCEPT !.desecratedTurns =
                            IF cell.desecratedTurns > m
                            THEN cell.desecratedTurns - m ELSE 0]
    BY DEF beginTurns
  <2> HIDE DEF m
  <2> DEFINE new == boards[s][l]
  <2>4. /\ new \in LocationState /\ new.symbol = cell.symbol /\ new.immune = cell.immune
        /\ new.desecratedTurns > 0 => cell.desecratedTurns > 0
    <3> HIDE DEF cell, new, boards
    <3>1. new = [cell EXCEPT !.desecratedTurns =
                    IF cell.desecratedTurns > m
                    THEN cell.desecratedTurns - m ELSE 0]
      BY <2>3 DEF new
    <3> QED BY <2>1, <2>2, <3>1 DEF LocationState, DESECRATION_TURNS
  <2> QED BY <2>1, <2>4 DEF CellSound
<1>3. boards \in [Seats -> [Locations -> LocationState]]
  BY <1>2 DEF beginTurns, CellSound
<1>4. BoardsSound(boards)
  BY <1>2, <1>3 DEF BoardsSound
<1>5. turnsBegun(st, n) = [st EXCEPT !.activeSeat = seat, !.boards = boards]
  BY DEF turnsBegun
<1> HIDE DEF boards, seat
<1>6. /\ turnsBegun(st, n) \in GameState
      /\ turnsBegun(st, n).boards = boards
      /\ turnsBegun(st, n).activeSeat = seat
  BY <1>1, <1>3, <1>5 DEF GameState
<1>7. LET t == turnsBegun(st, n)
      IN  /\ t.phase = st.phase /\ t.firstSeat = st.firstSeat
          /\ t.turnCount = st.turnCount /\ t.result = st.result
          /\ t.powerups = st.powerups
          /\ t.pendingExtraPlacements = st.pendingExtraPlacements
  BY <1>5 DEF GameState
<1> QED BY <1>4, <1>6, <1>7 DEF seat

\* The result counts the boards the game ends with.
LEMMA GameFinished ==
    ASSUME NEW st \in GameState
    PROVE  LET t == finishGame(st)
           IN  /\ t \in GameState
               /\ t.phase = "finished"
               /\ \A s \in Seats : t.result.scores[s] = scoreOf(t, s)
               /\ t.boards = st.boards /\ t.turnCount = st.turnCount
               /\ t.powerups = st.powerups /\ t.activeSeat = st.activeSeat
               /\ t.pendingExtraPlacements = st.pendingExtraPlacements
<1> DEFINE scores == [s \in Seats |-> scoreOf(st, s)]
           winner == IF scores[0] = scores[1] THEN NoSeat
                     ELSE IF scores[0] > scores[1] THEN 0 ELSE 1
<1>1. \A s \in Seats : scoreOf(st, s) \in Nat
  <2> TAKE s \in Seats
  <2> DEFINE occupied == {l \in Locations : st.boards[s][l].symbol # NoSymbol}
  <2>1. IsFiniteSet(occupied)
    BY TopologyAssumption, FS_Subset
  <2> QED BY <2>1, FS_CardinalityType DEF scoreOf
<1>2. [scores |-> scores, winner |-> winner] \in GameResult
  BY <1>1 DEF GameResult, Seats, NoSeat
<1>3. finishGame(st) = [st EXCEPT !.phase = "finished",
                                  !.result = [scores |-> scores, winner |-> winner]]
  BY DEF finishGame
<1>4. finishGame(st).result.scores = scores
  BY <1>3 DEF GameState
<1> HIDE DEF scores, winner
<1>5. /\ finishGame(st) \in GameState
      /\ finishGame(st).phase = "finished"
      /\ finishGame(st).boards = st.boards
      /\ finishGame(st).turnCount = st.turnCount
      /\ finishGame(st).powerups = st.powerups
      /\ finishGame(st).activeSeat = st.activeSeat
      /\ finishGame(st).pendingExtraPlacements = st.pendingExtraPlacements
  BY <1>2, <1>3 DEF GameState
<1> QED BY <1>4, <1>5 DEF scores, scoreOf

\* When a turn is used up with nothing left open in it, the state after it, and
\* after the passes that follow, satisfies every invariant.
LEMMA TurnConsumed ==
    ASSUME NEW st \in GameState, BoardsSound(st.boards), st.phase = "active",
           TurnOrderIn(st), ExtraTurnSoundIn(st),
           \A s \in Seats : /\ ~st.powerups[s].revealActive
                            /\ ~st.powerups[s].extraTurnArmed
                            /\ ~st.powerups[s].extraTurnInProgress
                            /\ ~st.powerups[s].shieldSelectionPending,
           NEW t \in consumeTurn(st)
    PROVE  GameInv(t)
<1>1. PICK k \in 1 .. maxTurns - st.turnCount :
        t = turnsConsumed(st, k) /\ passingStops(st, k)
  BY DEF consumeTurn
<1>2. st.turnCount \in Nat /\ maxTurns \in Nat /\ k \in Nat /\ k >= 1
      /\ st.turnCount + k <= maxTurns
  BY MaxTurnsType DEF GameState
<1> DEFINE counted == [st EXCEPT !.turnCount = st.turnCount + k]
<1>3. /\ counted \in GameState /\ counted.turnCount = st.turnCount + k
      /\ counted.boards = st.boards /\ counted.powerups = st.powerups
      /\ counted.phase = st.phase /\ counted.firstSeat = st.firstSeat
      /\ counted.result = st.result /\ counted.activeSeat = st.activeSeat
      /\ counted.pendingExtraPlacements = st.pendingExtraPlacements
  BY <1>2 DEF GameState
<1>4. t = IF counted.turnCount >= maxTurns THEN finishGame(turnsBegun(counted, k - 1))
          ELSE turnsBegun(counted, k)
  BY <1>1 DEF turnsConsumed
<1> HIDE DEF counted
<1>5. \A u : u.powerups = st.powerups
              /\ u.pendingExtraPlacements = st.pendingExtraPlacements
              => FlagsWithinTurnIn(u) /\ ExtraTurnSoundIn(u)
  BY DEF FlagsWithinTurnIn, ExtraTurnSoundIn
<1>6. CASE counted.turnCount >= maxTurns
  <2> DEFINE u == turnsBegun(counted, k - 1)
  <2>1. k - 1 \in Nat
    BY <1>2
  <2>2. /\ u \in GameState /\ BoardsSound(u.boards)
        /\ u.turnCount = st.turnCount + k /\ u.powerups = st.powerups
        /\ u.pendingExtraPlacements = st.pendingExtraPlacements
    BY <1>3, <2>1, TurnsBegun
  <2>3. t = finishGame(u)
    BY <1>4, <1>6
  <2> HIDE DEF u
  <2>4. /\ t \in GameState /\ BoardsSound(t.boards) /\ t.phase = "finished"
        /\ t.turnCount = st.turnCount + k /\ t.powerups = st.powerups
        /\ t.pendingExtraPlacements = st.pendingExtraPlacements
        /\ \A s \in Seats : t.result.scores[s] = scoreOf(t, s)
    BY <2>2, <2>3, GameFinished
  <2>5. TurnOrderIn(t)
    BY <1>2, <1>3, <1>6, <2>4 DEF TurnOrderIn
  <2> QED BY <1>5, <2>4, <2>5, BoardsOf DEF GameInv, ActiveSeatCanPlaceIn
<1>7. CASE counted.turnCount < maxTurns
  <2>1. /\ t \in GameState /\ BoardsSound(t.boards) /\ t.phase = "active"
        /\ t.turnCount = st.turnCount + k /\ t.powerups = st.powerups
        /\ t.pendingExtraPlacements = st.pendingExtraPlacements
        /\ t.firstSeat = st.firstSeat /\ t.result = st.result
        /\ t.activeSeat = IF k % 2 = 0 THEN st.activeSeat ELSE otherSeat(st.activeSeat)
    <3>1. t = turnsBegun(counted, k)
      BY <1>2, <1>3, <1>4, <1>7
    <3>2. BoardsSound(counted.boards)
      BY <1>3
    <3> DEFINE u == turnsBegun(counted, k)
    <3>3. /\ u \in GameState /\ BoardsSound(u.boards)
          /\ u.activeSeat = IF k % 2 = 0 THEN counted.activeSeat
                            ELSE otherSeat(counted.activeSeat)
          /\ u.phase = counted.phase /\ u.firstSeat = counted.firstSeat
          /\ u.turnCount = counted.turnCount /\ u.result = counted.result
          /\ u.powerups = counted.powerups
          /\ u.pendingExtraPlacements = counted.pendingExtraPlacements
      BY <1>2, <1>3, <3>2, TurnsBegun
    <3> HIDE DEF u
    <3>4. t = u
      BY <3>1 DEF u
    <3> QED BY <1>3, <3>3, <3>4
  <2>2. TurnOrderIn(t)
    <3>1. /\ st.activeSeat = (st.firstSeat + st.turnCount) % 2
          /\ st.firstSeat \in 0 .. 1 /\ st.result = NoResult
      BY DEF TurnOrderIn, GameState, Seats
    <3>2. t.activeSeat = (t.firstSeat + t.turnCount) % 2
      BY <1>2, <2>1, <3>1 DEF otherSeat
    <3> QED BY <1>3, <1>7, <2>1, <3>1, <3>2 DEF TurnOrderIn
  <2>3. hasLegalPlacement(t, t.activeSeat)
    <3> DEFINE u == turnsBegun(st, k)
    <3>2. hasLegalPlacement(u, u.activeSeat)
      BY <1>1, <1>2, <1>3, <1>7 DEF passingStops
    <3>3. t = turnsBegun(counted, k)
      BY <1>2, <1>3, <1>4, <1>7
    <3>4. t.boards = u.boards /\ t.activeSeat = u.activeSeat
      BY <1>3, <3>3 DEF turnsBegun, turnsOf, GameState
    <3> QED BY <3>2, <3>4 DEF hasLegalPlacement
  <2> QED BY <1>5, <2>1, <2>2, <2>3, BoardsOf DEF GameInv, ActiveSeatCanPlaceIn
<1> QED BY <1>2, <1>3, <1>6, <1>7

-----------------------------------------------------------------------------

(* Commands.                                                                 *)

\* The fields of a state that no command but the end of a turn changes.
SameTurn(t, st) ==
    /\ t.phase = st.phase /\ t.firstSeat = st.firstSeat
    /\ t.activeSeat = st.activeSeat /\ t.turnCount = st.turnCount
    /\ t.result = st.result

\* One seat's power-ups where a placement may have unlocked one.
PowerupsKept(new, old) ==
    /\ new.used = old.used
    /\ new.extraTurnArmed = old.extraTurnArmed
    /\ new.extraTurnInProgress = old.extraTurnInProgress
    /\ new.shieldSelectionPending = old.shieldSelectionPending
    /\ old.unlocked \subseteq new.unlocked
    /\ new.unlocked \subseteq old.unlocked \cup AllowedPowerups

\* Claiming a line unlocks allowed power-ups of that seat and changes nothing else.
LEMMA PowerupUnlocked ==
    ASSUME NEW st \in GameState, NEW s \in Seats
    PROVE  LET t == maybeUnlockPowerup(st, s)
           IN  /\ t \in GameState /\ SameTurn(t, st)
               /\ t.boards = st.boards
               /\ t.pendingExtraPlacements = st.pendingExtraPlacements
               /\ \A p \in Seats : p # s => t.powerups[p] = st.powerups[p]
               /\ PowerupsKept(t.powerups[s], st.powerups[s])
               /\ t.powerups[s].revealActive = st.powerups[s].revealActive
<1>1. CASE ~PowerupsEnabled
  <2>1. maybeUnlockPowerup(st, s) = st
    BY <1>1 DEF maybeUnlockPowerup
  <2> QED BY <2>1 DEF SameTurn, PowerupsKept
<1>2. CASE PowerupsEnabled
  <2> DEFINE first == {i \in DOMAIN WinningPatterns :
                        /\ lineUnlocks(st, s, i) # {}
                        /\ \A j \in 1 .. i - 1 : lineUnlocks(st, s, j) = {}}
             more == UNION {lineUnlocks(st, s, i) : i \in first}
             mine == [st.powerups[s] EXCEPT !.unlocked = st.powerups[s].unlocked \cup more]
  <2>1. more \in SUBSET AllowedPowerups
    BY DEF lineUnlocks
  <2>2. maybeUnlockPowerup(st, s) = [st EXCEPT !.powerups = [st.powerups EXCEPT ![s] = mine]]
    BY <1>2 DEF maybeUnlockPowerup
  <2> HIDE DEF first
  <2>3. mine \in PlayerPowerups
    <3> HIDE DEF more
    <3> QED BY <2>1, ConfigAssumption DEF GameState, PlayerPowerups
  <2>7. PowerupsKept(mine, st.powerups[s]) /\ mine.revealActive = st.powerups[s].revealActive
    <3> HIDE DEF more
    <3> QED BY <2>1 DEF GameState, PlayerPowerups, PowerupsKept
  <2> HIDE DEF mine
  <2>4. [st.powerups EXCEPT ![s] = mine] \in [Seats -> PlayerPowerups]
    BY <2>3 DEF GameState
  <2>5. LET t == maybeUnlockPowerup(st, s)
        IN  /\ t \in GameState /\ SameTurn(t, st)
            /\ t.boards = st.boards
            /\ t.pendingExtraPlacements = st.pendingExtraPlacements
            /\ t.powerups = [st.powerups EXCEPT ![s] = mine]
    BY <2>2, <2>4 DEF GameState, SameTurn
  <2>6. st.powerups \in [Seats -> PlayerPowerups]
    BY DEF GameState
  <2> QED BY <2>5, <2>6, <2>7
<1> QED BY <1>1, <1>2, ConfigAssumption

\* A piece put on a playable cell leaves sound boards, and lowers the reveal.
LEMMA PiecePlaced ==
    ASSUME NEW st \in GameState, GameInv(st), NEW s \in Seats, NEW l \in Locations,
           NEW y \in Symbols, isPlayable(st.boards[s][l])
    PROVE  LET t == placed(st, s, l, y)
           IN  /\ t \in GameState /\ BoardsSound(t.boards) /\ SameTurn(t, st)
               /\ t.pendingExtraPlacements = st.pendingExtraPlacements
               /\ \A p \in Seats : p # s => t.powerups[p] = st.powerups[p]
               /\ PowerupsKept(t.powerups[s], st.powerups[s])
               /\ ~t.powerups[s].revealActive
<1> DEFINE met == [p \in Seats |-> IF p = s
                                   THEN [st.boards[p][l] EXCEPT !.symbol = y]
                                   ELSE st.boards[p][l]]
           settled == resolveConflict(met)
           boards == [p \in Seats |-> [st.boards[p] EXCEPT ![l] = settled[p]]]
           mine == [st.powerups[s] EXCEPT !.revealActive = FALSE]
           next == [st EXCEPT !.boards = boards,
                              !.powerups = [st.powerups EXCEPT ![s] = mine]]
<1>1. BoardsSound(st.boards)
  BY BoardsOf DEF GameInv
<1>2. met \in [Seats -> LocationState] /\ \A p \in Seats : CellSound(met[p])
  <2>1. \A p \in Seats : CellSound(st.boards[p][l])
    BY <1>1 DEF BoardsSound
  <2>2. CellSound([st.boards[s][l] EXCEPT !.symbol = y])
    <3> DEFINE cell == st.boards[s][l]
    <3>1. CellSound(cell) /\ cell.desecratedTurns = 0
      BY <2>1 DEF isPlayable
    <3> HIDE DEF cell
    <3>2. CellSound([cell EXCEPT !.symbol = y])
      BY <3>1 DEF CellSound, LocationState, Symbols, NoSymbol
    <3> QED BY <3>2 DEF cell
  <2>3. \A p \in Seats : CellSound(met[p])
    BY <2>1, <2>2
  <2> QED BY <2>3 DEF CellSound
<1>3. /\ settled \in [Seats -> LocationState]
      /\ \A p \in Seats : CellSound(settled[p])
      /\ \E p \in Seats : settled[p].symbol = NoSymbol
  <2> HIDE DEF met
  <2> QED BY <1>2, ConflictResolved
<1> HIDE DEF settled
<1>4. BoardsSound(boards)
  <2>1. st.boards \in [Seats -> [Locations -> LocationState]]
    BY <1>1 DEF BoardsSound
  <2>2. \A p \in Seats, m \in Locations :
            boards[p][m] = IF m = l THEN settled[p] ELSE st.boards[p][m]
    BY <2>1
  <2>3. boards \in [Seats -> [Locations -> LocationState]]
    BY <1>3, <2>1
  <2> HIDE DEF boards
  <2>4. \A p \in Seats, m \in Locations : CellSound(boards[p][m])
    BY <1>1, <1>3, <2>2 DEF BoardsSound
  <2>5. \A m \in Locations : \E p \in Seats : boards[p][m].symbol = NoSymbol
    BY <1>1, <1>3, <2>2 DEF BoardsSound
  <2> QED BY <2>3, <2>4, <2>5 DEF BoardsSound
<1>5. placed(st, s, l, y) = maybeUnlockPowerup(next, s)
  BY DEF placed, settled
<1> HIDE DEF boards
<1>6. st.powerups \in [Seats -> PlayerPowerups] /\ mine \in PlayerPowerups
  <2>1. st.powerups \in [Seats -> PlayerPowerups]
    BY DEF GameState
  <2> QED BY <2>1 DEF PlayerPowerups
<1>7. PowerupsKept(mine, st.powerups[s]) /\ ~mine.revealActive
  BY DEF GameState, PlayerPowerups, PowerupsKept
<1> HIDE DEF mine
<1>8. /\ next \in GameState /\ SameTurn(next, st)
      /\ next.boards = boards
      /\ next.pendingExtraPlacements = st.pendingExtraPlacements
      /\ next.powerups = [st.powerups EXCEPT ![s] = mine]
  BY <1>4, <1>6 DEF GameState, SameTurn, BoardsSound
<1> HIDE DEF next
<1>9. next.powerups[s] = mine /\ \A p \in Seats : p # s => next.powerups[p] = st.powerups[p]
  BY <1>6, <1>8
<1> DEFINE t == maybeUnlockPowerup(next, s)
<1>10. /\ t \in GameState /\ SameTurn(t, next)
       /\ t.boards = next.boards
       /\ t.pendingExtraPlacements = next.pendingExtraPlacements
       /\ \A p \in Seats : p # s => t.powerups[p] = next.powerups[p]
       /\ PowerupsKept(t.powerups[s], mine)
       /\ t.powerups[s].revealActive = mine.revealActive
  BY <1>8, <1>9, PowerupUnlocked
<1> HIDE DEF t
<1>11. PowerupsKept(t.powerups[s], st.powerups[s])
  BY <1>7, <1>10 DEF PowerupsKept
<1>12. SameTurn(t, st)
  BY <1>8, <1>10 DEF SameTurn
<1>13. placed(st, s, l, y) = t
  BY <1>5 DEF t
<1> QED BY <1>4, <1>7, <1>8, <1>9, <1>10, <1>11, <1>12, <1>13

\* What ExtraTurnSound says of the seat whose turn it is.
PowerupsSound(p, pending) ==
    /\ ~(p.extraTurnArmed /\ p.extraTurnInProgress)
    /\ p.extraTurnArmed \/ p.extraTurnInProgress => "extraTurn" \in p.used
    /\ p.used \subseteq p.unlocked
    /\ p.unlocked \subseteq AllowedPowerups
    /\ pending # <<>> <=> p.extraTurnInProgress

\* What the invariant says of power-ups, split into those of the seat to move and the
\* other seat's, which has nothing open.
LEMMA PowerupsSoundOf ==
    ASSUME NEW st, GameInv(st), st.phase = "active"
    PROVE  /\ PowerupsSound(st.powerups[st.activeSeat], st.pendingExtraPlacements)
           /\ \A p \in Seats : p # st.activeSeat =>
                /\ ~st.powerups[p].revealActive
                /\ ~st.powerups[p].extraTurnArmed
                /\ ~st.powerups[p].extraTurnInProgress
                /\ ~st.powerups[p].shieldSelectionPending
<1>1. st.activeSeat \in Seats
  BY DEF GameInv, GameState
<1> QED BY <1>1 DEF GameInv, ExtraTurnSoundIn, FlagsWithinTurnIn, PowerupsSound

\* A state in which only seat s has changed, and only its power-ups, by keeping
\* to what that seat may do in its turn.
LEMMA OwnPowerups ==
    ASSUME NEW st \in GameState, GameInv(st), NEW s \in Seats,
           st.phase = "active", s = st.activeSeat,
           NEW t \in GameState, SameTurn(t, st), BoardsSound(t.boards),
           hasLegalPlacement(t, s),
           \A p \in Seats : p # s => t.powerups[p] = st.powerups[p],
           PowerupsSound(t.powerups[s], t.pendingExtraPlacements)
    PROVE  GameInv(t)
<1>1. SoleOccupantIn(t) /\ CellsSoundIn(t)
  BY BoardsOf
<1>2. FlagsWithinTurnIn(t)
  BY DEF GameInv, FlagsWithinTurnIn, SameTurn
<1>3. \A p \in Seats : p # s => ~t.powerups[p].extraTurnInProgress
  BY DEF GameInv, FlagsWithinTurnIn
<1>4. ExtraTurnSoundIn(t)
  BY <1>3 DEF GameInv, ExtraTurnSoundIn, PowerupsSound
<1>5. TurnOrderIn(t)
  BY DEF GameInv, TurnOrderIn, SameTurn
<1>6. ActiveSeatCanPlaceIn(t)
  BY DEF ActiveSeatCanPlaceIn, SameTurn
<1> QED BY <1>1, <1>2, <1>4, <1>5, <1>6 DEF GameInv

\* A placement preserves the invariants, whether it ends the turn or begins an
\* extra one.
LEMMA PlacePreserves ==
    ASSUME NEW st, GameInv(st), NEW s \in Seats, st.phase = "active", s = st.activeSeat,
           NEW l \in Locations, NEW y \in Symbols, NEW t \in place(st, s, l, y)
    PROVE  GameInv(t)
<1> DEFINE next == placed(st, s, l, y)
           mine == next.powerups[s]
           old  == st.powerups[s]
<1>1. st \in GameState
  BY DEF GameInv
<1>2. isPlayable(st.boards[s][l]) /\ ~old.shieldSelectionPending
  BY DEF place
<1>3. t \in IF mine.extraTurnArmed /\ hasLegalPlacement(next, s)
           THEN {extraTurnStarted(next, s, l, y)}
           ELSE IF mine.extraTurnArmed \/ mine.extraTurnInProgress
           THEN consumeTurn(extraTurnEnded(next, s))
           ELSE consumeTurn(next)
  BY <1>2 DEF place
<1>4. /\ next \in GameState /\ BoardsSound(next.boards) /\ SameTurn(next, st)
      /\ next.pendingExtraPlacements = st.pendingExtraPlacements
      /\ \A p \in Seats : p # s => next.powerups[p] = st.powerups[p]
      /\ PowerupsKept(mine, old)
      /\ ~mine.revealActive
  BY <1>1, <1>2, PiecePlaced
<1>5. mine \in PlayerPowerups /\ next.powerups \in [Seats -> PlayerPowerups]
  BY <1>4 DEF GameState
<1>6. /\ PowerupsSound(old, st.pendingExtraPlacements)
      /\ \A p \in Seats : p # s => /\ ~st.powerups[p].revealActive
                                  /\ ~st.powerups[p].extraTurnArmed
                                  /\ ~st.powerups[p].extraTurnInProgress
                                  /\ ~st.powerups[p].shieldSelectionPending
  BY PowerupsSoundOf
<1>7. /\ PowerupsSound(mine, next.pendingExtraPlacements)
      /\ ~mine.shieldSelectionPending
  BY <1>2, <1>4, <1>6 DEF PowerupsKept, PowerupsSound
<1> HIDE DEF next
<1>8. TurnOrderIn(next) /\ next.phase = "active"
  BY <1>4 DEF GameInv, TurnOrderIn, SameTurn
<1>9. CASE mine.extraTurnArmed /\ hasLegalPlacement(next, s)
  <2> DEFINE new == [mine EXCEPT !.extraTurnArmed = FALSE, !.extraTurnInProgress = TRUE]
  <2>1. t = [next EXCEPT !.powerups = [next.powerups EXCEPT ![s] = new],
                         !.pendingExtraPlacements = <<[locationId |-> l, symbol |-> y]>>]
    <3>1. t = extraTurnStarted(next, s, l, y)
      BY <1>3, <1>9, Zenon
    <3>2. extraTurnStarted(next, s, l, y) =
            [next EXCEPT !.powerups = [next.powerups EXCEPT ![s] = new],
                         !.pendingExtraPlacements = <<[locationId |-> l, symbol |-> y]>>]
      BY <1>5 DEF extraTurnStarted
    <3> QED BY <3>1, <3>2, Zenon
  <2>2. /\ new \in PlayerPowerups
        /\ ~new.extraTurnArmed /\ new.extraTurnInProgress
        /\ new.used = mine.used /\ new.unlocked = mine.unlocked
    BY <1>5 DEF PlayerPowerups
  <2> HIDE DEF new
  <2>3. [locationId |-> l, symbol |-> y] \in Placement
    BY DEF Placement
  <2>4. /\ t \in GameState /\ SameTurn(t, next) /\ t.boards = next.boards
        /\ t.powerups = [next.powerups EXCEPT ![s] = new]
        /\ t.pendingExtraPlacements = <<[locationId |-> l, symbol |-> y]>>
    BY <1>4, <1>5, <2>1, <2>2, <2>3 DEF GameState, SameTurn
  <2>5. t.powerups[s] = new /\ \A p \in Seats : p # s => t.powerups[p] = st.powerups[p]
    BY <1>4, <1>5, <2>4
  <2>6. SameTurn(t, st)
    BY <1>4, <2>4 DEF SameTurn
  <2>7. t.pendingExtraPlacements # <<>>
    BY <2>4
  <2>8. hasLegalPlacement(t, s)
    BY <1>9, <2>4 DEF hasLegalPlacement
  <2>9. PowerupsSound(t.powerups[s], t.pendingExtraPlacements)
    BY <1>7, <1>9, <2>2, <2>5, <2>7 DEF PowerupsSound
  <2>10. BoardsSound(t.boards)
    BY <1>4, <2>4
  <2> QED BY <1>1, <2>4, <2>5, <2>6, <2>8, <2>9, <2>10, OwnPowerups
<1>10. CASE /\ ~(mine.extraTurnArmed /\ hasLegalPlacement(next, s))
            /\ mine.extraTurnArmed \/ mine.extraTurnInProgress
  <2> DEFINE new == [mine EXCEPT !.extraTurnArmed = FALSE, !.extraTurnInProgress = FALSE]
             u == extraTurnEnded(next, s)
  <2>1. u = [next EXCEPT !.powerups = [next.powerups EXCEPT ![s] = new],
                         !.pendingExtraPlacements = <<>>]
    BY <1>5 DEF extraTurnEnded
  <2>2. /\ new \in PlayerPowerups
        /\ ~new.extraTurnArmed /\ ~new.extraTurnInProgress
        /\ new.revealActive = mine.revealActive
        /\ new.shieldSelectionPending = mine.shieldSelectionPending
        /\ new.used = mine.used /\ new.unlocked = mine.unlocked
    BY <1>5 DEF PlayerPowerups
  <2> HIDE DEF new
  <2>3. t \in consumeTurn(u)
    BY <1>3, <1>10
  <2> HIDE DEF u
  <2>4. /\ u \in GameState /\ SameTurn(u, next) /\ u.boards = next.boards
        /\ u.powerups = [next.powerups EXCEPT ![s] = new]
        /\ u.pendingExtraPlacements = <<>>
    BY <1>4, <1>5, <2>1, <2>2 DEF GameState, SameTurn
  <2>5. u.powerups[s] = new /\ \A p \in Seats : p # s => u.powerups[p] = st.powerups[p]
    BY <1>4, <1>5, <2>4
  <2>6. TurnOrderIn(u) /\ u.phase = "active"
    BY <1>8, <2>4 DEF TurnOrderIn, SameTurn
  <2>7. ExtraTurnSoundIn(u)
    BY <1>6, <1>7, <2>2, <2>4, <2>5 DEF ExtraTurnSoundIn, GameInv, PowerupsSound
  <2>8. \A p \in Seats : /\ ~u.powerups[p].revealActive
                         /\ ~u.powerups[p].extraTurnArmed
                         /\ ~u.powerups[p].extraTurnInProgress
                         /\ ~u.powerups[p].shieldSelectionPending
    BY <1>4, <1>6, <1>7, <2>2, <2>5
  <2> QED BY <1>4, <2>3, <2>4, <2>6, <2>7, <2>8, TurnConsumed
<1>11. CASE ~mine.extraTurnArmed /\ ~mine.extraTurnInProgress
  <2>1. t \in consumeTurn(next)
    BY <1>3, <1>11
  <2>2. \A p \in Seats : /\ ~next.powerups[p].revealActive
                         /\ ~next.powerups[p].extraTurnArmed
                         /\ ~next.powerups[p].extraTurnInProgress
                         /\ ~next.powerups[p].shieldSelectionPending
    BY <1>4, <1>6, <1>7, <1>11
  <2>3. ExtraTurnSoundIn(next)
    BY <1>4, <1>7, <1>11, <2>2 DEF ExtraTurnSoundIn, GameInv, PowerupsSound
  <2> QED BY <1>4, <1>8, <2>1, <2>2, <2>3, TurnConsumed
<1> QED BY <1>9, <1>10, <1>11

\* The other commands change the power-ups of the seat whose turn it is.
LEMMA ActivatePreserves ==
    ASSUME NEW st, GameInv(st), NEW s \in Seats, st.phase = "active", s = st.activeSeat,
           NEW powerup \in Powerups, NEW t \in activatePowerup(st, s, powerup)
    PROVE  GameInv(t)
<1> DEFINE old == st.powerups[s]
           new == [old EXCEPT
                    !.used = old.used \cup {powerup},
                    !.shieldSelectionPending = old.shieldSelectionPending \/ powerup = "shield",
                    !.revealActive = old.revealActive \/ powerup = "reveal",
                    !.extraTurnArmed = old.extraTurnArmed \/ powerup = "extraTurn"]
<1>1. st \in GameState /\ old \in PlayerPowerups /\ st.powerups \in [Seats -> PlayerPowerups]
  BY DEF GameInv, GameState
<1>2. /\ t = [st EXCEPT !.powerups = [st.powerups EXCEPT ![s] = new]]
      /\ powerup \in old.unlocked /\ powerup \notin old.used
  BY DEF activatePowerup
<1> HIDE DEF old
<1>3. /\ new \in PlayerPowerups
      /\ new.used = old.used \cup {powerup} /\ new.unlocked = old.unlocked
      /\ new.extraTurnInProgress = old.extraTurnInProgress
      /\ new.extraTurnArmed => old.extraTurnArmed \/ powerup = "extraTurn"
  BY <1>1 DEF PlayerPowerups
<1> HIDE DEF new
<1>4. PowerupsSound(old, st.pendingExtraPlacements)
  BY PowerupsSoundOf DEF old
<1>5. /\ t \in GameState /\ SameTurn(t, st) /\ t.boards = st.boards
      /\ t.pendingExtraPlacements = st.pendingExtraPlacements
      /\ t.powerups = [st.powerups EXCEPT ![s] = new]
  BY <1>1, <1>2, <1>3 DEF GameState, SameTurn
<1>6. t.powerups[s] = new /\ \A p \in Seats : p # s => t.powerups[p] = st.powerups[p]
  BY <1>1, <1>5
<1>7. BoardsSound(t.boards) /\ hasLegalPlacement(t, s)
  BY <1>1, <1>5, BoardsOf DEF GameInv, ActiveSeatCanPlaceIn, hasLegalPlacement
<1>8. PowerupsSound(t.powerups[s], t.pendingExtraPlacements)
  <2>1. ~(new.extraTurnArmed /\ new.extraTurnInProgress)
    BY <1>2, <1>3, <1>4 DEF PowerupsSound
  <2> QED BY <1>2, <1>3, <1>4, <1>5, <1>6, <2>1 DEF PowerupsSound
<1> QED BY <1>1, <1>5, <1>6, <1>7, <1>8, OwnPowerups

\* Aiming the shield keeps the invariant and leaves the turn where it is.
LEMMA SelectPreserves ==
    ASSUME NEW st, GameInv(st), NEW s \in Seats, st.phase = "active", s = st.activeSeat,
           NEW l \in Locations, NEW t \in selectShieldTarget(st, s, l)
    PROVE  GameInv(t) /\ SameTurn(t, st)
<1> DEFINE old == st.powerups[s]
           new == [old EXCEPT !.shieldSelectionPending = FALSE]
           cell == st.boards[s][l]
           shielded == [cell EXCEPT !.immune = TRUE]
           board == [st.boards[s] EXCEPT ![l] = shielded]
           boards == [st.boards EXCEPT ![s] = board]
<1>1. /\ st \in GameState /\ old \in PlayerPowerups
      /\ st.powerups \in [Seats -> PlayerPowerups] /\ BoardsSound(st.boards)
  BY BoardsOf DEF GameInv, GameState
<1>2. /\ t = [st EXCEPT !.boards = boards,
                        !.powerups = [st.powerups EXCEPT ![s] = new]]
      /\ cell.symbol # NoSymbol
  BY DEF selectShieldTarget
<1>3. /\ new \in PlayerPowerups
      /\ new.used = old.used /\ new.unlocked = old.unlocked
      /\ new.extraTurnInProgress = old.extraTurnInProgress
      /\ new.extraTurnArmed = old.extraTurnArmed
  BY <1>1 DEF PlayerPowerups
<1> HIDE DEF new, old
<1>4. CellSound(shielded) /\ shielded.symbol = cell.symbol /\ ~isPlayable(shielded)
  <2>1. CellSound(cell)
    BY <1>1 DEF BoardsSound
  <2> HIDE DEF cell
  <2> QED BY <1>2, <2>1 DEF CellSound, LocationState, isPlayable
<1>5. /\ BoardsSound(boards)
      /\ \A m \in Locations : isPlayable(boards[s][m]) <=> isPlayable(st.boards[s][m])
  <2>1. \A p \in Seats, m \in Locations :
            boards[p][m] = IF p = s /\ m = l THEN shielded ELSE st.boards[p][m]
    BY <1>1 DEF BoardsSound
  <2>2. boards \in [Seats -> [Locations -> LocationState]]
    <3> HIDE DEF shielded
    <3>1. shielded \in LocationState
      BY <1>4 DEF CellSound
    <3> QED BY <1>1, <3>1 DEF BoardsSound
  <2> HIDE DEF boards, shielded
  <2>3. \A p \in Seats, m \in Locations :
            CellSound(boards[p][m]) /\ boards[p][m].symbol = st.boards[p][m].symbol
    BY <1>1, <1>4, <2>1 DEF BoardsSound
  <2>4. \A m \in Locations : \E p \in Seats : boards[p][m].symbol = NoSymbol
    BY <1>1, <2>3 DEF BoardsSound
  <2>5. ~isPlayable(cell)
    BY <1>2 DEF isPlayable
  <2> QED BY <1>4, <2>1, <2>2, <2>3, <2>4, <2>5 DEF BoardsSound
<1> HIDE DEF boards
<1>6. /\ t \in GameState /\ SameTurn(t, st) /\ t.boards = boards
      /\ t.pendingExtraPlacements = st.pendingExtraPlacements
      /\ t.powerups = [st.powerups EXCEPT ![s] = new]
  BY <1>1, <1>2, <1>3, <1>5 DEF GameState, SameTurn, BoardsSound
<1>7. t.powerups[s] = new /\ \A p \in Seats : p # s => t.powerups[p] = st.powerups[p]
  BY <1>1, <1>6
<1>8. hasLegalPlacement(t, s)
  BY <1>5, <1>6 DEF GameInv, ActiveSeatCanPlaceIn, hasLegalPlacement
<1>9. PowerupsSound(t.powerups[s], t.pendingExtraPlacements)
  BY <1>3, <1>6, <1>7, PowerupsSoundOf DEF PowerupsSound, old
<1> QED BY <1>1, <1>5, <1>6, <1>7, <1>8, <1>9, OwnPowerups

\* Closing a reveal keeps the invariant.
LEMMA EndRevealPreserves ==
    ASSUME NEW st, GameInv(st), NEW s \in Seats, st.phase = "active",
           NEW t \in endReveal(st, s)
    PROVE  GameInv(t)
<1> DEFINE old == st.powerups[s]
           new == [old EXCEPT !.revealActive = FALSE]
<1>1. st \in GameState /\ old \in PlayerPowerups /\ st.powerups \in [Seats -> PlayerPowerups]
  BY DEF GameInv, GameState
<1>2. t = [st EXCEPT !.powerups = [st.powerups EXCEPT ![s] = new]]
  BY DEF endReveal
<1>3. CASE s = st.activeSeat
  <2> HIDE DEF old
  <2>1. /\ new \in PlayerPowerups
        /\ new.used = old.used /\ new.unlocked = old.unlocked
        /\ new.extraTurnInProgress = old.extraTurnInProgress
        /\ new.extraTurnArmed = old.extraTurnArmed
    BY <1>1 DEF PlayerPowerups
  <2> HIDE DEF new
  <2>2. /\ t \in GameState /\ SameTurn(t, st) /\ t.boards = st.boards
        /\ t.pendingExtraPlacements = st.pendingExtraPlacements
        /\ t.powerups = [st.powerups EXCEPT ![s] = new]
    BY <1>1, <1>2, <2>1 DEF GameState, SameTurn
  <2>3. t.powerups[s] = new /\ \A p \in Seats : p # s => t.powerups[p] = st.powerups[p]
    BY <1>1, <2>2
  <2>4. BoardsSound(t.boards) /\ hasLegalPlacement(t, s)
    BY <1>1, <1>3, <2>2, BoardsOf DEF GameInv, ActiveSeatCanPlaceIn, hasLegalPlacement
  <2>5. PowerupsSound(t.powerups[s], t.pendingExtraPlacements)
    BY <1>3, <2>1, <2>2, <2>3, PowerupsSoundOf DEF PowerupsSound, old
  <2> QED BY <1>1, <1>3, <2>2, <2>3, <2>4, <2>5, OwnPowerups
<1>4. CASE s # st.activeSeat
  <2>1. old.revealActive = FALSE
    BY <1>1, <1>4, PowerupsSoundOf DEF PlayerPowerups
  <2>2. new = old
    <3> HIDE DEF old
    <3> QED BY <1>1, <2>1 DEF PlayerPowerups
  <2> HIDE DEF new
  <2>3. [st.powerups EXCEPT ![s] = new] = st.powerups
    BY <1>1, <2>2
  <2>4. t = st
    BY <1>1, <1>2, <2>3 DEF GameState
  <2> QED BY <2>4
<1> QED BY <1>3, <1>4

\* The shield a seat owes when its turn times out is aimed, or dropped for want of a piece.
LEMMA ShieldSettles ==
    ASSUME NEW st, GameInv(st), st.phase = "active",
           NEW w \in shieldSettled(st, st.activeSeat)
    PROVE  GameInv(w) /\ SameTurn(w, st)
<1> DEFINE s == st.activeSeat
           old == st.powerups[s]
           new == [old EXCEPT !.shieldSelectionPending = FALSE]
           targets == {l \in Locations : st.boards[s][l].symbol # NoSymbol}
<1>1. /\ st \in GameState /\ s \in Seats /\ old \in PlayerPowerups
      /\ st.powerups \in [Seats -> PlayerPowerups]
  BY DEF GameInv, GameState
<1>2. CASE w = st
  BY <1>2 DEF SameTurn
<1>3. CASE \E l \in Locations : w \in selectShieldTarget(st, s, l)
  BY <1>1, <1>3, SelectPreserves
<1>4. CASE w = [st EXCEPT !.powerups = [st.powerups EXCEPT ![s] = new]]
  <2> HIDE DEF s, old
  <2>1. /\ new \in PlayerPowerups
        /\ new.used = old.used /\ new.unlocked = old.unlocked
        /\ new.extraTurnInProgress = old.extraTurnInProgress
        /\ new.extraTurnArmed = old.extraTurnArmed
    BY <1>1 DEF PlayerPowerups
  <2> HIDE DEF new
  <2>2. /\ w \in GameState /\ SameTurn(w, st) /\ w.boards = st.boards
        /\ w.pendingExtraPlacements = st.pendingExtraPlacements
        /\ w.powerups = [st.powerups EXCEPT ![s] = new]
    BY <1>1, <1>4, <2>1 DEF GameState, SameTurn
  <2>3. w.powerups[s] = new /\ \A p \in Seats : p # s => w.powerups[p] = st.powerups[p]
    BY <1>1, <2>2
  <2>4. BoardsSound(w.boards) /\ hasLegalPlacement(w, s)
    BY <1>1, <2>2, BoardsOf DEF GameInv, ActiveSeatCanPlaceIn, hasLegalPlacement, s
  <2>5. PowerupsSound(w.powerups[s], w.pendingExtraPlacements)
    BY <2>1, <2>2, <2>3, PowerupsSoundOf DEF PowerupsSound, old, s
  <2> QED BY <1>1, <2>2, <2>3, <2>4, <2>5, OwnPowerups DEF s
<1>5. \/ w = st
      \/ w \in {[st EXCEPT !.powerups[s].shieldSelectionPending = FALSE]}
      \/ w \in UNION {selectShieldTarget(st, s, l) : l \in targets}
  BY DEF shieldSettled
<1>6. [st EXCEPT !.powerups[s].shieldSelectionPending = FALSE]
          = [st EXCEPT !.powerups = [st.powerups EXCEPT ![s] = new]]
  BY <1>1
<1> QED BY <1>2, <1>3, <1>4, <1>5, <1>6

\* A turn that times out aims an owed shield, if it can, and places: its branch
\* for a board without a playable cell is never taken.
LEMMA TimeoutPreserves ==
    ASSUME NEW st, GameInv(st), st.phase = "active", NEW t \in applyTimeout(st)
    PROVE  GameInv(t)
<1> DEFINE s == st.activeSeat
<1>1. s \in Seats
  BY DEF GameInv, GameState
<1>2. PICK w \in shieldSettled(st, s) : t \in randomPlacement(w, s)
  BY DEF applyTimeout
<1>3. GameInv(w) /\ SameTurn(w, st)
  BY <1>2, ShieldSettles
<1>4. w.phase = "active" /\ s = w.activeSeat
  BY <1>3 DEF SameTurn
<1>5. hasLegalPlacement(w, s)
  BY <1>3, <1>4 DEF GameInv, ActiveSeatCanPlaceIn
<1>6. PICK l \in Locations, y \in Symbols : t \in place(w, s, l, y)
  BY <1>2, <1>5 DEF randomPlacement, hasLegalPlacement
<1> QED BY <1>1, <1>3, <1>4, <1>6, PlacePreserves

\* A new game.
LEMMA GameCreated ==
    ASSUME NEW first \in Seats
    PROVE  GameInv(createGame(first))
<1> DEFINE st == createGame(first)
<1>1. createPowerups \in PlayerPowerups
  BY DEF createPowerups, PlayerPowerups
<1>2. createBoard \in [Locations -> LocationState]
  BY DEF createBoard, LocationState, DESECRATION_TURNS
<1>3. NoResult \in GameResult
  BY DEF NoResult, GameResult, NoSeat
<1>4. st \in GameState
  BY <1>1, <1>2, <1>3, MaxTurnsType DEF createGame, GameState
<1>5. /\ st.phase = "active" /\ st.firstSeat = first /\ st.activeSeat = first
      /\ st.turnCount = 0 /\ st.result = NoResult /\ st.pendingExtraPlacements = <<>>
      /\ st.boards = [s \in Seats |-> createBoard]
      /\ st.powerups = [s \in Seats |-> createPowerups]
  BY DEF createGame
<1> HIDE DEF st
<1>6. \A s \in Seats, l \in Locations :
        st.boards[s][l] = [symbol |-> NoSymbol, immune |-> FALSE, desecratedTurns |-> 0]
  BY <1>5 DEF createBoard
<1>7. SoleOccupantIn(st) /\ CellsSoundIn(st)
  BY <1>6 DEF SoleOccupantIn, CellsSoundIn, Seats
<1>8. \A s \in Seats :
        /\ ~st.powerups[s].revealActive /\ ~st.powerups[s].extraTurnArmed
        /\ ~st.powerups[s].extraTurnInProgress
        /\ ~st.powerups[s].shieldSelectionPending
        /\ st.powerups[s].used = {} /\ st.powerups[s].unlocked = {}
  BY <1>5 DEF createPowerups
<1>9. FlagsWithinTurnIn(st) /\ ExtraTurnSoundIn(st)
  BY <1>5, <1>8 DEF FlagsWithinTurnIn, ExtraTurnSoundIn
<1>10. TurnOrderIn(st)
  BY <1>5, MaxTurnsType DEF TurnOrderIn, Seats
<1>11. ActiveSeatCanPlaceIn(st)
  BY <1>5, <1>6, TopologyAssumption DEF ActiveSeatCanPlaceIn, hasLegalPlacement, isPlayable
<1> QED BY <1>4, <1>7, <1>9, <1>10, <1>11 DEF GameInv, st

-----------------------------------------------------------------------------

(* The theorems.                                                             *)

\* Every state of every game satisfies the invariants together.
LEMMA GameInvariant == Spec => []GameInv(game)
<1>1. Init => GameInv(game)
  BY GameCreated DEF Init
<1>2. GameInv(game) /\ [Next]_game => GameInv(game)'
  <2> SUFFICES ASSUME GameInv(game), [Next]_game
               PROVE  GameInv(game')
    BY DEF GameInv
  <2>1. CASE Timeout
    BY <2>1, TimeoutPreserves DEF Timeout
  <2>2. ASSUME NEW s \in Seats, NEW l \in Locations, NEW y \in Symbols, Place(s, l, y)
        PROVE  GameInv(game')
    BY <2>2, PlacePreserves DEF Place, mayAct
  <2>3. ASSUME NEW s \in Seats, NEW p \in Powerups, ActivatePowerup(s, p)
        PROVE  GameInv(game')
    BY <2>3, ActivatePreserves DEF ActivatePowerup, mayAct
  <2>4. ASSUME NEW s \in Seats, NEW l \in Locations, SelectShieldTarget(s, l)
        PROVE  GameInv(game')
    BY <2>4, SelectPreserves DEF SelectShieldTarget, mayAct
  <2>5. ASSUME NEW s \in Seats, EndReveal(s)
        PROVE  GameInv(game')
    BY <2>5, EndRevealPreserves DEF EndReveal
  <2>6. CASE UNCHANGED game
    BY <2>6
  <2> QED BY <2>1, <2>2, <2>3, <2>4, <2>5, <2>6 DEF Next
<1> QED BY <1>1, <1>2, PTL DEF Spec

\* TypeOK holds of every game the reducer plays.
THEOREM TypeCorrect == Spec => []TypeOK
<1>1. GameInv(game) => TypeOK
  BY DEF GameInv, TypeOK
<1> QED BY <1>1, GameInvariant, PTL

\* No location is ever occupied on both boards, and no cell carries a shield or
\* a desecration mark it should not.
THEOREM BoardsStaySound == Spec => []BoardsCoherent
<1>1. GameInv(game) => BoardsCoherent
  BY DEF GameInv, BoardsCoherent, SoleOccupant, CellsSound
<1> QED BY <1>1, GameInvariant, PTL

\* What a power-up opens is closed before the turn leaves its seat.
THEOREM PowerupsStayInTurn == Spec => []PowerupsCoherent
<1>1. GameInv(game) => PowerupsCoherent
  BY DEF GameInv, PowerupsCoherent, FlagsWithinTurn, ExtraTurnSound
<1> QED BY <1>1, GameInvariant, PTL

\* Turns alternate to the last, and the result counts the boards at the end.
THEOREM TurnsInOrder == Spec => []TurnOrder
<1>1. GameInv(game) => TurnOrder
  BY DEF GameInv, TurnOrder
<1> QED BY <1>1, GameInvariant, PTL

\* The seat to move always can, so a timeout always places.
THEOREM MoverCanPlace == Spec => []ActiveSeatCanPlace
<1>1. GameInv(game) => ActiveSeatCanPlace
  BY DEF GameInv, ActiveSeatCanPlace
<1> QED BY <1>1, GameInvariant, PTL

-----------------------------------------------------------------------------

(* Placements.                                                               *)

\* The boards after seat s has put y on its empty cell at l: only that location has
\* changed, and the other seat's piece there, if any, stays or is destroyed.
Struck(after, before, s, l, y) ==
    LET o == otherSeat(s)
    IN  /\ \A p \in Seats, m \in Locations : m # l => after[p][m] = before[p][m]
        /\ after[s][l].symbol \in {y, NoSymbol}
        /\ before[o][l].symbol = NoSymbol => after[o][l] = before[o][l]
        /\ before[o][l].symbol # NoSymbol =>
            \/ /\ after[o][l].symbol = before[o][l].symbol
               /\ after[o][l].desecratedTurns = before[o][l].desecratedTurns
            \/ /\ after[o][l].symbol = NoSymbol
               /\ after[o][l].desecratedTurns = DESECRATION_TURNS
        /\ before[o][l].immune =>
            /\ after[o][l].symbol = before[o][l].symbol
            /\ after[o][l].immune \/ after[s][l].symbol = NoSymbol

\* A placement strikes at its location.
LEMMA PieceStrikes ==
    ASSUME NEW st \in GameState, GameInv(st), NEW s \in Seats, NEW l \in Locations,
           NEW y \in Symbols, isPlayable(st.boards[s][l])
    PROVE  Struck(placed(st, s, l, y).boards, st.boards, s, l, y)
<1> DEFINE o == otherSeat(s)
           cell == st.boards[s][l]
           mine == [cell EXCEPT !.symbol = y]
           met == [p \in Seats |-> IF p = s
                                   THEN [st.boards[p][l] EXCEPT !.symbol = y]
                                   ELSE st.boards[p][l]]
           settled == resolveConflict(met)
           boards == [p \in Seats |-> [st.boards[p] EXCEPT ![l] = settled[p]]]
           next == [st EXCEPT !.boards = boards, !.powerups[s].revealActive = FALSE]
<1>1. o \in Seats /\ o # s
  BY DEF otherSeat, Seats
<1>2. /\ st.boards \in [Seats -> [Locations -> LocationState]]
      /\ \A p \in Seats : CellSound(st.boards[p][l])
  BY BoardsOf DEF GameInv, BoardsSound
<1>3. CellSound(mine) /\ mine.symbol = y /\ y # NoSymbol /\ ~mine.immune
  <2>1. CellSound(cell) /\ cell.symbol = NoSymbol /\ cell.desecratedTurns = 0
    BY <1>2 DEF isPlayable
  <2> HIDE DEF cell
  <2> QED BY <2>1 DEF CellSound, LocationState, Symbols, NoSymbol
<1>4. /\ met \in [Seats -> LocationState] /\ \A p \in Seats : CellSound(met[p])
      /\ met[s] = mine /\ met[o] = st.boards[o][l]
  <2>1. met[s] = mine /\ \A p \in Seats : p # s => met[p] = st.boards[p][l]
    OBVIOUS
  <2>2. \A p \in Seats : CellSound(met[p])
    <3> HIDE DEF met, mine
    <3> QED BY <1>2, <1>3, <2>1
  <2>3. \A p \in Seats : met[p] \in LocationState
    BY <2>2 DEF CellSound
  <2> QED BY <1>1, <2>1, <2>2, <2>3
<1> HIDE DEF met, mine
<1>5. settled \in [Seats -> LocationState] /\ Fought(met, settled)
  BY <1>4, ConflictResolved
<1>6. placed(st, s, l, y).boards = boards
  <2>1. next.boards = boards
    BY DEF GameState
  <2>2. placed(st, s, l, y) = maybeUnlockPowerup(next, s)
    BY DEF placed, met
  <2>3. maybeUnlockPowerup(next, s).boards = next.boards
    <3> HIDE DEF next
    <3> QED BY DEF maybeUnlockPowerup
  <2> QED BY <2>1, <2>2, <2>3
<1> HIDE DEF settled
<1>7. /\ \A p \in Seats : boards[p][l] = settled[p]
      /\ \A p \in Seats, m \in Locations : m # l => boards[p][m] = st.boards[p][m]
  BY <1>2
<1> HIDE DEF boards
<1>8. settled[s].symbol \in {y, NoSymbol}
  BY <1>1, <1>3, <1>4, <1>5 DEF Fought
<1>9. st.boards[o][l].symbol = NoSymbol => settled[o] = st.boards[o][l]
  BY <1>1, <1>4, <1>5 DEF Fought
<1>10. st.boards[o][l].symbol # NoSymbol =>
            \/ /\ settled[o].symbol = st.boards[o][l].symbol
               /\ settled[o].desecratedTurns = st.boards[o][l].desecratedTurns
            \/ /\ settled[o].symbol = NoSymbol
               /\ settled[o].desecratedTurns = DESECRATION_TURNS
  <2>1. ASSUME st.boards[o][l].symbol # NoSymbol
        PROVE  \A p \in Seats : met[p].symbol # NoSymbol
    BY <1>3, <1>4, <2>1 DEF Seats, otherSeat
  <2> QED BY <1>1, <1>4, <1>5, <2>1 DEF Fought
<1>11. st.boards[o][l].immune =>
            /\ settled[o].symbol = st.boards[o][l].symbol
            /\ settled[o].immune \/ settled[s].symbol = NoSymbol
  <2>1. s = otherSeat(o)
    BY DEF otherSeat, Seats
  <2> QED BY <1>1, <1>3, <1>4, <1>5, <2>1 DEF Fought
<1> QED BY <1>1, <1>6, <1>7, <1>8, <1>9, <1>10, <1>11 DEF Struck

\* st with k turns used up, its active seat's and k - 1 passes: t keeps the pieces, the
\* shields and the power-ups, and while the game goes on desecration wears off.
Passed(t, st, k) ==
    LET over == t.turnCount = maxTurns
    IN  /\ t \in GameState /\ t.powerups = st.powerups
        /\ t.pendingExtraPlacements = st.pendingExtraPlacements
        /\ t.turnCount = st.turnCount + k
        /\ t.phase = IF over THEN "finished" ELSE "active"
        /\ over /\ k % 2 = 1 => t.activeSeat = st.activeSeat
        /\ over /\ k % 2 = 0 => t.activeSeat = otherSeat(st.activeSeat)
        /\ ~over /\ k % 2 = 1 => t.activeSeat = otherSeat(st.activeSeat)
        /\ ~over /\ k % 2 = 0 => t.activeSeat = st.activeSeat
        /\ \A p \in Seats, m \in Locations :
            LET old == st.boards[p][m]  new == t.boards[p][m]  n == turnsOf(st, p, k)
            IN  /\ new.symbol = old.symbol /\ new.immune = old.immune
                /\ ~over => new.desecratedTurns =
                        IF old.desecratedTurns > n THEN old.desecratedTurns - n ELSE 0

\* Turns that begin change nothing of a cell but how long it is desecrated.
LEMMA CellsAged ==
    ASSUME NEW st \in GameState, NEW n, NEW p \in Seats, NEW m \in Locations
    PROVE  LET old == st.boards[p][m]  new == turnsBegun(st, n).boards[p][m]
               k == turnsOf(st, p, n)
           IN  /\ new.symbol = old.symbol /\ new.immune = old.immune
               /\ new.desecratedTurns =
                    IF old.desecratedTurns > k THEN old.desecratedTurns - k ELSE 0
<1> DEFINE cell == st.boards[p][m]
           k == turnsOf(st, p, n)
           aged == [cell EXCEPT !.desecratedTurns = IF @ > k THEN @ - k ELSE 0]
<1>1. turnsBegun(st, n).boards = [s \in Seats |-> beginTurns(st.boards[s], turnsOf(st, s, n))]
  BY DEF turnsBegun, GameState
<1>2. turnsBegun(st, n).boards[p][m] = aged
  BY <1>1 DEF beginTurns
<1>3. cell \in LocationState
  BY DEF GameState
<1> HIDE DEF cell, k
<1>4. /\ aged.symbol = cell.symbol /\ aged.immune = cell.immune
      /\ aged.desecratedTurns =
            IF cell.desecratedTurns > k THEN cell.desecratedTurns - k ELSE 0
  BY <1>3 DEF LocationState
<1> QED BY <1>2, <1>4 DEF cell, k

\* A turn that is used up takes the passes after it along.
LEMMA TurnPasses ==
    ASSUME NEW st \in GameState, BoardsSound(st.boards), st.phase = "active",
           NEW t \in consumeTurn(st)
    PROVE  \E k \in 1 .. maxTurns - st.turnCount : Passed(t, st, k)
<1>1. PICK k \in 1 .. maxTurns - st.turnCount : t = turnsConsumed(st, k)
  BY DEF consumeTurn
<1>2. /\ st.turnCount \in Nat /\ maxTurns \in Nat /\ k \in Nat /\ k >= 1
      /\ st.turnCount + k <= maxTurns /\ k % 2 \in {0, 1}
      /\ (k - 1) % 2 = 0 <=> k % 2 = 1
  <2>1. /\ st.turnCount \in Nat /\ maxTurns \in Nat /\ k \in Nat /\ k >= 1
        /\ st.turnCount + k <= maxTurns
    BY MaxTurnsType DEF GameState
  <2>2. k % 2 \in {0, 1} /\ ((k - 1) % 2 = 0 <=> k % 2 = 1)
    BY <2>1
  <2> QED BY <2>1, <2>2
<1> DEFINE counted == [st EXCEPT !.turnCount = st.turnCount + k]
<1>3. /\ counted \in GameState /\ counted.turnCount = st.turnCount + k
      /\ counted.boards = st.boards /\ counted.powerups = st.powerups
      /\ counted.phase = st.phase /\ counted.activeSeat = st.activeSeat
      /\ counted.pendingExtraPlacements = st.pendingExtraPlacements
  <2> DEFINE n == st.turnCount + k
  <2>1. n \in 0 .. maxTurns
    BY <1>2
  <2> HIDE DEF n
  <2> QED BY <2>1 DEF GameState, n
<1>4. t = IF counted.turnCount >= maxTurns THEN finishGame(turnsBegun(counted, k - 1))
          ELSE turnsBegun(counted, k)
  BY <1>1 DEF turnsConsumed
<1> HIDE DEF counted
<1>5. BoardsSound(counted.boards) /\ \A p, n : turnsOf(counted, p, n) = turnsOf(st, p, n)
  BY <1>3 DEF turnsOf
<1>6. CASE counted.turnCount >= maxTurns
  <2> DEFINE u == turnsBegun(counted, k - 1)
  <2>1. k - 1 \in Nat
    BY <1>2
  <2>2. /\ u \in GameState /\ u.turnCount = st.turnCount + k /\ u.powerups = st.powerups
        /\ u.pendingExtraPlacements = st.pendingExtraPlacements
        /\ u.activeSeat = IF (k - 1) % 2 = 0 THEN counted.activeSeat
                          ELSE otherSeat(counted.activeSeat)
    BY <1>3, <1>5, <2>1, TurnsBegun
  <2>3. \A p \in Seats, m \in Locations :
            /\ u.boards[p][m].symbol = st.boards[p][m].symbol
            /\ u.boards[p][m].immune = st.boards[p][m].immune
    BY <1>3, CellsAged
  <2>4. t = finishGame(u)
    BY <1>4, <1>6
  <2> HIDE DEF u
  <2>5. /\ t \in GameState /\ t.boards = u.boards /\ t.phase = "finished"
        /\ t.turnCount = u.turnCount /\ t.powerups = u.powerups /\ t.activeSeat = u.activeSeat
        /\ t.pendingExtraPlacements = u.pendingExtraPlacements
    BY <2>2, <2>4, GameFinished
  <2>6. t.turnCount = maxTurns
    BY <1>2, <1>3, <1>6, <2>2, <2>5
  <2>7. Passed(t, st, k)
    BY <1>2, <1>3, <2>2, <2>3, <2>5, <2>6 DEF Passed
  <2> QED BY <2>7
<1>7. CASE ~(counted.turnCount >= maxTurns)
  <2> DEFINE u == turnsBegun(counted, k)
  <2>1. /\ u \in GameState /\ u.turnCount = st.turnCount + k /\ u.powerups = st.powerups
        /\ u.pendingExtraPlacements = st.pendingExtraPlacements /\ u.phase = st.phase
        /\ u.activeSeat = IF k % 2 = 0 THEN counted.activeSeat
                          ELSE otherSeat(counted.activeSeat)
    BY <1>2, <1>3, <1>5, TurnsBegun
  <2>2. \A p \in Seats, m \in Locations :
            LET old == st.boards[p][m]  new == u.boards[p][m]  n == turnsOf(st, p, k)
            IN  /\ new.symbol = old.symbol /\ new.immune = old.immune
                /\ new.desecratedTurns =
                        IF old.desecratedTurns > n THEN old.desecratedTurns - n ELSE 0
    BY <1>3, <1>5, CellsAged
  <2>3. t = u
    BY <1>4, <1>7
  <2> HIDE DEF u
  <2>4. t.turnCount # maxTurns
    BY <1>2, <1>3, <1>7, <2>1, <2>3
  <2>5. Passed(t, st, k)
    BY <1>2, <1>3, <2>1, <2>2, <2>3, <2>4 DEF Passed
  <2> QED BY <2>5
<1> QED BY <1>6, <1>7

\* The state after a placement of y by s at l, before its turn is used up: the boards
\* struck, the reveal down and no extra turn armed.  The first half of an extra turn ends
\* there, with the second half owed.
Landed(u, st, s, l, y) ==
    LET mine == u.powerups[s]  next == placed(st, s, l, y)
    IN  /\ u \in GameState /\ BoardsSound(u.boards) /\ SameTurn(u, st)
        /\ u.boards = next.boards
        /\ \A p \in Seats : p # s => u.powerups[p] = st.powerups[p]
        /\ mine.used = st.powerups[s].used /\ mine.unlocked = next.powerups[s].unlocked
        /\ ~mine.revealActive /\ ~mine.extraTurnArmed /\ ~mine.shieldSelectionPending
        /\ mine.extraTurnInProgress => st.powerups[s].extraTurnArmed

\* What a placement does: it lands, and then either a second half is owed or the turn is
\* used up.
LEMMA PlaceLands ==
    ASSUME NEW st, GameInv(st), NEW s \in Seats, st.phase = "active", s = st.activeSeat,
           NEW l \in Locations, NEW y \in Symbols, NEW t \in place(st, s, l, y)
    PROVE  /\ isPlayable(st.boards[s][l]) /\ ~st.powerups[s].shieldSelectionPending
           /\ Struck(placed(st, s, l, y).boards, st.boards, s, l, y)
           /\ \E u : /\ Landed(u, st, s, l, y)
                     /\ \/ t = u /\ u.powerups[s].extraTurnInProgress
                        \/ /\ ~u.powerups[s].extraTurnInProgress
                           /\ \E k \in 1 .. maxTurns - u.turnCount : Passed(t, u, k)
<1> DEFINE next == placed(st, s, l, y)
           mine == next.powerups[s]
           old  == st.powerups[s]
<1>1. st \in GameState
  BY DEF GameInv
<1>2. isPlayable(st.boards[s][l]) /\ ~old.shieldSelectionPending
  BY DEF place
<1>3. t \in IF mine.extraTurnArmed /\ hasLegalPlacement(next, s)
           THEN {extraTurnStarted(next, s, l, y)}
           ELSE IF mine.extraTurnArmed \/ mine.extraTurnInProgress
           THEN consumeTurn(extraTurnEnded(next, s))
           ELSE consumeTurn(next)
  BY <1>2 DEF place
<1>4. Struck(next.boards, st.boards, s, l, y)
  BY <1>1, <1>2, PieceStrikes
<1>5. /\ next \in GameState /\ BoardsSound(next.boards) /\ SameTurn(next, st)
      /\ \A p \in Seats : p # s => next.powerups[p] = st.powerups[p]
      /\ mine.used = old.used /\ ~mine.revealActive /\ ~mine.shieldSelectionPending
      /\ mine.extraTurnArmed = old.extraTurnArmed
  <2>1. /\ next \in GameState /\ BoardsSound(next.boards) /\ SameTurn(next, st)
        /\ \A p \in Seats : p # s => next.powerups[p] = st.powerups[p]
        /\ PowerupsKept(mine, old) /\ ~mine.revealActive
    BY <1>1, <1>2, PiecePlaced
  <2> QED BY <1>2, <2>1 DEF PowerupsKept
<1>6. mine \in PlayerPowerups /\ next.powerups \in [Seats -> PlayerPowerups]
  BY <1>5 DEF GameState
<1>7. next.phase = "active"
  BY <1>5 DEF SameTurn
<1> SUFFICES \E u : /\ Landed(u, st, s, l, y)
                    /\ \/ t = u /\ u.powerups[s].extraTurnInProgress
                       \/ ~u.powerups[s].extraTurnInProgress /\ t \in consumeTurn(u)
  <2>1. ASSUME NEW u, Landed(u, st, s, l, y), t \in consumeTurn(u)
        PROVE  \E k \in 1 .. maxTurns - u.turnCount : Passed(t, u, k)
    <3>1. u \in GameState /\ BoardsSound(u.boards) /\ u.phase = "active"
      BY <2>1 DEF Landed, SameTurn
    <3> QED BY <2>1, <3>1, TurnPasses
  <2>2. \E u : /\ Landed(u, st, s, l, y)
               /\ \/ t = u /\ u.powerups[s].extraTurnInProgress
                  \/ /\ ~u.powerups[s].extraTurnInProgress
                     /\ \E k \in 1 .. maxTurns - u.turnCount : Passed(t, u, k)
    BY <2>1
  <2> QED BY <1>2, <1>4, <2>2
<1>8. CASE mine.extraTurnArmed /\ hasLegalPlacement(next, s)
  <2> DEFINE new == [mine EXCEPT !.extraTurnArmed = FALSE, !.extraTurnInProgress = TRUE]
             first == <<[locationId |-> l, symbol |-> y]>>
  <2>1. t = [next EXCEPT !.powerups = [next.powerups EXCEPT ![s] = new],
                         !.pendingExtraPlacements = first]
    <3> HIDE DEF next
    <3>1. t = extraTurnStarted(next, s, l, y)
      BY <1>3, <1>8, Zenon
    <3>2. extraTurnStarted(next, s, l, y) =
            [next EXCEPT !.powerups = [next.powerups EXCEPT ![s] = new],
                         !.pendingExtraPlacements = first]
      BY <1>6 DEF extraTurnStarted
    <3> QED BY <3>1, <3>2, Zenon
  <2>2. /\ new \in PlayerPowerups /\ ~new.extraTurnArmed /\ new.extraTurnInProgress
        /\ new.used = mine.used /\ new.unlocked = mine.unlocked
        /\ new.revealActive = mine.revealActive
        /\ new.shieldSelectionPending = mine.shieldSelectionPending
    BY <1>6 DEF PlayerPowerups
  <2>3. first \in {<<p>> : p \in Placement}
    BY DEF Placement
  <2> HIDE DEF next, new, mine, first
  <2>4. /\ t \in GameState /\ SameTurn(t, next) /\ t.boards = next.boards
        /\ t.powerups = [next.powerups EXCEPT ![s] = new]
    BY <1>5, <1>6, <2>1, <2>2, <2>3 DEF GameState, SameTurn
  <2>5. t.powerups[s] = new /\ \A p \in Seats : p # s => t.powerups[p] = st.powerups[p]
    BY <1>5, <1>6, <2>4
  <2>6. SameTurn(t, st)
    BY <1>5, <2>4 DEF SameTurn
  <2>7. Landed(t, st, s, l, y)
    BY <1>5, <1>8, <2>2, <2>4, <2>5, <2>6 DEF Landed, mine, next
  <2> QED BY <2>2, <2>5, <2>7
<1>9. CASE /\ ~(mine.extraTurnArmed /\ hasLegalPlacement(next, s))
           /\ mine.extraTurnArmed \/ mine.extraTurnInProgress
  <2> DEFINE new == [mine EXCEPT !.extraTurnArmed = FALSE, !.extraTurnInProgress = FALSE]
             u == extraTurnEnded(next, s)
  <2>1. u = [next EXCEPT !.powerups = [next.powerups EXCEPT ![s] = new],
                         !.pendingExtraPlacements = <<>>]
    <3> HIDE DEF next
    <3> QED BY <1>6 DEF extraTurnEnded
  <2>2. /\ new \in PlayerPowerups /\ ~new.extraTurnArmed /\ ~new.extraTurnInProgress
        /\ new.used = mine.used /\ new.unlocked = mine.unlocked
        /\ new.revealActive = mine.revealActive
        /\ new.shieldSelectionPending = mine.shieldSelectionPending
    BY <1>6 DEF PlayerPowerups
  <2>3. t \in consumeTurn(u)
    BY <1>3, <1>9
  <2> HIDE DEF next, new, u, mine
  <2>4. /\ u \in GameState /\ SameTurn(u, next) /\ u.boards = next.boards
        /\ u.powerups = [next.powerups EXCEPT ![s] = new]
    BY <1>5, <1>6, <2>1, <2>2 DEF GameState, SameTurn
  <2>5. u.powerups[s] = new /\ \A p \in Seats : p # s => u.powerups[p] = st.powerups[p]
    BY <1>5, <1>6, <2>4
  <2>6. SameTurn(u, st)
    BY <1>5, <2>4 DEF SameTurn
  <2>7. Landed(u, st, s, l, y)
    BY <1>5, <2>2, <2>4, <2>5, <2>6 DEF Landed, mine, next
  <2> QED BY <2>2, <2>3, <2>5, <2>7
<1>10. CASE ~mine.extraTurnArmed /\ ~mine.extraTurnInProgress
  <2>1. t \in consumeTurn(next)
    BY <1>3, <1>10
  <2>2. Landed(next, st, s, l, y)
    BY <1>5, <1>10 DEF Landed
  <2> HIDE DEF next
  <2> QED BY <1>10, <2>1, <2>2
<1> QED BY <1>8, <1>9, <1>10

-----------------------------------------------------------------------------

(* The other commands.                                                       *)

\* t has st's power-ups, apart from those of seat s, of which it has the same half-played
\* turn and the same lines unlocked.
OthersAsIs(t, st, s) ==
    /\ t \in GameState /\ SameTurn(t, st)
    /\ t.pendingExtraPlacements = st.pendingExtraPlacements
    /\ \A p \in Seats : p # s => t.powerups[p] = st.powerups[p]
    /\ t.powerups[s].unlocked = st.powerups[s].unlocked
    /\ t.powerups[s].extraTurnInProgress = st.powerups[s].extraTurnInProgress

\* t is st with the owed shield of seat s aimed, or dropped for want of a piece.
Aimed(t, st, s) ==
    LET mine == t.powerups[s]  old == st.powerups[s]
    IN  /\ OthersAsIs(t, st, s)
        /\ old.shieldSelectionPending /\ ~mine.shieldSelectionPending
        /\ mine.used = old.used /\ mine.revealActive = old.revealActive
        /\ mine.extraTurnArmed = old.extraTurnArmed
        /\ \A p \in Seats, m \in Locations :
            /\ t.boards[p][m].symbol = st.boards[p][m].symbol
            /\ t.boards[p][m].desecratedTurns = st.boards[p][m].desecratedTurns
            /\ st.boards[p][m].immune => t.boards[p][m].immune

\* A power-up of seat s is activated.
Activated(t, st, s, powerup) ==
    LET mine == t.powerups[s]  old == st.powerups[s]
    IN  /\ OthersAsIs(t, st, s) /\ t.boards = st.boards
        /\ powerup \in old.unlocked /\ powerup \notin old.used
        /\ mine.used = old.used \cup {powerup}
        /\ mine.shieldSelectionPending <=> old.shieldSelectionPending \/ powerup = "shield"
        /\ mine.revealActive <=> old.revealActive \/ powerup = "reveal"
        /\ mine.extraTurnArmed <=> old.extraTurnArmed \/ powerup = "extraTurn"

\* The reveal of seat s is lowered.
Lowered(t, st, s) ==
    LET mine == t.powerups[s]  old == st.powerups[s]
    IN  /\ OthersAsIs(t, st, s) /\ t.boards = st.boards
        /\ mine.used = old.used /\ ~mine.revealActive
        /\ mine.extraTurnArmed = old.extraTurnArmed
        /\ mine.shieldSelectionPending = old.shieldSelectionPending
        /\ ~old.revealActive => t = st

\* activatePowerup activates.
LEMMA PowerupActivates ==
    ASSUME NEW st \in GameState, NEW s \in Seats, NEW powerup \in Powerups,
           NEW t \in activatePowerup(st, s, powerup)
    PROVE  Activated(t, st, s, powerup)
<1> DEFINE old == st.powerups[s]
           new == [old EXCEPT
                    !.used = old.used \cup {powerup},
                    !.shieldSelectionPending = old.shieldSelectionPending \/ powerup = "shield",
                    !.revealActive = old.revealActive \/ powerup = "reveal",
                    !.extraTurnArmed = old.extraTurnArmed \/ powerup = "extraTurn"]
<1>1. old \in PlayerPowerups /\ st.powerups \in [Seats -> PlayerPowerups]
  BY DEF GameState
<1>2. /\ t = [st EXCEPT !.powerups = [st.powerups EXCEPT ![s] = new]]
      /\ powerup \in old.unlocked /\ powerup \notin old.used
  BY DEF activatePowerup
<1> HIDE DEF old
<1>3. /\ new \in PlayerPowerups /\ new.used = old.used \cup {powerup}
      /\ new.unlocked = old.unlocked /\ new.extraTurnInProgress = old.extraTurnInProgress
  BY <1>1 DEF PlayerPowerups
<1>4. /\ new.shieldSelectionPending <=> old.shieldSelectionPending \/ powerup = "shield"
      /\ new.revealActive <=> old.revealActive \/ powerup = "reveal"
      /\ new.extraTurnArmed <=> old.extraTurnArmed \/ powerup = "extraTurn"
  BY <1>1 DEF PlayerPowerups
<1> HIDE DEF new
<1>5. /\ t \in GameState /\ SameTurn(t, st) /\ t.boards = st.boards
      /\ t.pendingExtraPlacements = st.pendingExtraPlacements
      /\ t.powerups = [st.powerups EXCEPT ![s] = new]
  BY <1>1, <1>2, <1>3 DEF GameState, SameTurn
<1>6. t.powerups[s] = new /\ \A p \in Seats : p # s => t.powerups[p] = st.powerups[p]
  BY <1>1, <1>5
<1>7. OthersAsIs(t, st, s)
  BY <1>3, <1>5, <1>6 DEF OthersAsIs, old
<1> QED BY <1>2, <1>3, <1>4, <1>5, <1>6, <1>7 DEF Activated, old

\* endReveal lowers.
LEMMA RevealLowers ==
    ASSUME NEW st \in GameState, NEW s \in Seats, NEW t \in endReveal(st, s)
    PROVE  Lowered(t, st, s)
<1> DEFINE old == st.powerups[s]
           new == [old EXCEPT !.revealActive = FALSE]
<1>1. old \in PlayerPowerups /\ st.powerups \in [Seats -> PlayerPowerups]
  BY DEF GameState
<1>2. t = [st EXCEPT !.powerups = [st.powerups EXCEPT ![s] = new]]
  BY DEF endReveal
<1> HIDE DEF old
<1>3. /\ new \in PlayerPowerups /\ new.used = old.used /\ new.unlocked = old.unlocked
      /\ new.extraTurnInProgress = old.extraTurnInProgress /\ ~new.revealActive
      /\ new.extraTurnArmed = old.extraTurnArmed
      /\ new.shieldSelectionPending = old.shieldSelectionPending
  BY <1>1 DEF PlayerPowerups
<1> HIDE DEF new
<1>4. /\ t \in GameState /\ SameTurn(t, st) /\ t.boards = st.boards
      /\ t.pendingExtraPlacements = st.pendingExtraPlacements
      /\ t.powerups = [st.powerups EXCEPT ![s] = new]
  BY <1>1, <1>2, <1>3 DEF GameState, SameTurn
<1>5. t.powerups[s] = new /\ \A p \in Seats : p # s => t.powerups[p] = st.powerups[p]
  BY <1>1, <1>4
<1>6. ASSUME ~old.revealActive
      PROVE  t = st
  <2>1. old.revealActive = FALSE
    BY <1>1, <1>6 DEF PlayerPowerups
  <2>2. new = old
    BY <1>1, <2>1 DEF PlayerPowerups, new
  <2>3. [st.powerups EXCEPT ![s] = new] = st.powerups
    BY <1>1, <2>2 DEF old
  <2> QED BY <1>2, <2>3 DEF GameState
<1> QED BY <1>3, <1>4, <1>5, <1>6 DEF Lowered, OthersAsIs, old

\* st with these boards, in which seat s owes no shield target any more.
shieldDone(st, s, boards) ==
    [st EXCEPT !.boards = boards, !.powerups[s].shieldSelectionPending = FALSE]

\* The boards once the piece of seat s at l has its shield.
shieldedAt(st, s, l) == [st.boards EXCEPT ![s][l].immune = TRUE]

\* A shield is aimed, or dropped.
LEMMA ShieldAims ==
    ASSUME NEW st \in GameState, NEW s \in Seats, st.powerups[s].shieldSelectionPending,
           NEW boards,
           boards = st.boards \/ \E l \in Locations : boards = shieldedAt(st, s, l),
           NEW t, t = shieldDone(st, s, boards)
    PROVE  Aimed(t, st, s)
<1> DEFINE old == st.powerups[s]
           new == [old EXCEPT !.shieldSelectionPending = FALSE]
<1>1. /\ old \in PlayerPowerups /\ st.powerups \in [Seats -> PlayerPowerups]
      /\ st.boards \in [Seats -> [Locations -> LocationState]]
  BY DEF GameState
<1>2. /\ boards \in [Seats -> [Locations -> LocationState]]
      /\ \A p \in Seats, m \in Locations :
            /\ boards[p][m].symbol = st.boards[p][m].symbol
            /\ boards[p][m].desecratedTurns = st.boards[p][m].desecratedTurns
            /\ st.boards[p][m].immune => boards[p][m].immune
  <2>1. CASE boards = st.boards
    BY <1>1, <2>1
  <2>2. ASSUME NEW l \in Locations, boards = shieldedAt(st, s, l)
        PROVE  <1>2!1 /\ <1>2!2
    <3> DEFINE cell == st.boards[s][l]
               shielded == [cell EXCEPT !.immune = TRUE]
    <3>1. boards = [st.boards EXCEPT ![s] = [st.boards[s] EXCEPT ![l] = shielded]]
      BY <2>2 DEF shieldedAt
    <3>2. cell \in LocationState
      BY <1>1
    <3> HIDE DEF cell
    <3>4. /\ shielded \in LocationState /\ shielded.immune /\ shielded.symbol = cell.symbol
          /\ shielded.desecratedTurns = cell.desecratedTurns
      BY <3>2 DEF LocationState
    <3> HIDE DEF shielded
    <3>3. \A p \in Seats, m \in Locations :
            boards[p][m] = IF p = s /\ m = l THEN shielded ELSE st.boards[p][m]
      BY <1>1, <3>1
    <3>5. boards \in [Seats -> [Locations -> LocationState]]
      BY <1>1, <3>1, <3>4
    <3> QED BY <1>1, <3>3, <3>4, <3>5 DEF cell
  <2> QED BY <2>1, <2>2
<1>3. t = [st EXCEPT !.boards = boards, !.powerups = [st.powerups EXCEPT ![s] = new]]
  BY DEF shieldDone
<1> HIDE DEF old
<1>4. /\ new \in PlayerPowerups /\ new.used = old.used /\ new.unlocked = old.unlocked
      /\ new.extraTurnInProgress = old.extraTurnInProgress
      /\ new.revealActive = old.revealActive
      /\ new.extraTurnArmed = old.extraTurnArmed /\ ~new.shieldSelectionPending
  BY <1>1 DEF PlayerPowerups
<1> HIDE DEF new
<1> DEFINE powerups == [st.powerups EXCEPT ![s] = new]
<1>5. /\ powerups \in [Seats -> PlayerPowerups] /\ powerups[s] = new
      /\ \A p \in Seats : p # s => powerups[p] = st.powerups[p]
  BY <1>1, <1>4
<1>6. boards \in [Seats -> [Locations -> LocationState]]
  BY <1>2
<1>7. t = [st EXCEPT !.boards = boards, !.powerups = powerups]
  BY <1>3
<1> HIDE DEF powerups
<1>8. t \in GameState
  BY <1>5, <1>6, <1>7 DEF GameState
<1>9. /\ SameTurn(t, st) /\ t.boards = boards /\ t.powerups = powerups
      /\ t.pendingExtraPlacements = st.pendingExtraPlacements
  BY <1>7 DEF GameState, SameTurn
<1> QED BY <1>2, <1>4, <1>5, <1>8, <1>9 DEF Aimed, OthersAsIs, old

\* selectShieldTarget aims.
LEMMA ShieldSelects ==
    ASSUME NEW st \in GameState, NEW s \in Seats, NEW l \in Locations,
           NEW t \in selectShieldTarget(st, s, l)
    PROVE  Aimed(t, st, s)
<1> DEFINE boards == shieldedAt(st, s, l)
<1>1. /\ st.powerups[s].shieldSelectionPending
      /\ t = shieldDone(st, s, boards)
  BY DEF selectShieldTarget, shieldDone, shieldedAt
<1> HIDE DEF boards
<1> QED BY <1>1, ShieldAims DEF boards

\* A timeout aims the shield that is owed, and then places.
LEMMA TimeoutLands ==
    ASSUME NEW st, GameInv(st), st.phase = "active", NEW t \in applyTimeout(st)
    PROVE  \E w : /\ GameInv(w) /\ SameTurn(w, st)
                  /\ w = st \/ Aimed(w, st, st.activeSeat)
                  /\ \E l \in Locations, y \in Symbols : t \in place(w, st.activeSeat, l, y)
<1> DEFINE s == st.activeSeat
           targets == {l \in Locations : st.boards[s][l].symbol # NoSymbol}
<1>1. st \in GameState /\ s \in Seats
  BY DEF GameInv, GameState
<1>2. PICK w \in shieldSettled(st, s) : t \in randomPlacement(w, s)
  BY DEF applyTimeout
<1> HIDE DEF s
<1>3. GameInv(w) /\ SameTurn(w, st)
  BY <1>1, <1>2, ShieldSettles DEF s
<1>4. w = st \/ Aimed(w, st, s)
  <2>1. CASE ~st.powerups[s].shieldSelectionPending
    BY <1>2, <2>1 DEF shieldSettled
  <2>2. CASE st.powerups[s].shieldSelectionPending /\ targets = {}
    <3>1. w = [st EXCEPT !.powerups[s].shieldSelectionPending = FALSE]
      BY <1>2, <2>2 DEF shieldSettled
    <3>2. w = shieldDone(st, s, st.boards)
      BY <1>1, <3>1 DEF GameState, shieldDone
    <3> QED BY <1>1, <2>2, <3>2, ShieldAims
  <2>3. CASE st.powerups[s].shieldSelectionPending /\ targets # {}
    <3>1. PICK l \in targets : w \in selectShieldTarget(st, s, l)
      BY <1>2, <2>3 DEF shieldSettled
    <3> QED BY <1>1, <3>1, ShieldSelects
  <2> QED BY <2>1, <2>2, <2>3
<1>5. hasLegalPlacement(w, s)
  BY <1>3 DEF GameInv, ActiveSeatCanPlaceIn, SameTurn, s
<1>6. PICK l \in Locations, y \in Symbols : t \in place(w, s, l, y)
  BY <1>2, <1>5 DEF randomPlacement, hasLegalPlacement
<1> QED BY <1>3, <1>4, <1>6 DEF s
-----------------------------------------------------------------------------

(* The refinement.                                                           *)

\* What is open in a turn was opened by a power-up: an owed shield target and an open
\* reveal belong to seats that have used theirs.
OpenedByUse(st) ==
    \A s \in Seats :
        LET p == st.powerups[s]
        IN  /\ p.shieldSelectionPending => "shield" \in p.used
            /\ p.revealActive => "reveal" \in p.used

\* A turn state is the record of its fields.
TurnRecord(a) ==
    a = [phase |-> a.phase, activeSeat |-> a.activeSeat, turnCount |-> a.turnCount,
         revealed |-> a.revealed, extended |-> a.extended,
         revealActive |-> a.revealActive, extraTurnArmed |-> a.extraTurnArmed,
         extraTurnInProgress |-> a.extraTurnInProgress, setups |-> a.setups]

\* The mapping yields turn states.
LEMMA TurnsShape == \A st : TurnRecord(turnsIn(st))
BY DEF TurnRecord, turnsIn

\* Activating a shield is a set-up, activating one of the other two power-ups arms it.
LEMMA ActivationTurns ==
    ASSUME NEW st \in GameState, NEW s \in Seats, s = st.activeSeat,
           NEW powerup \in Powerups, NEW t, Activated(t, st, s, powerup)
    PROVE  LET a == turnsIn(st)  b == turnsIn(t)
           IN  b \in Turns!setUp(a) \/ b \in Turns!reveal(a) \/ b \in Turns!armExtraTurn(a)
<1> DEFINE a == turnsIn(st)
           b == turnsIn(t)
           old == st.powerups[s]
           mine == t.powerups[s]
<1>1. /\ t.phase = st.phase /\ t.activeSeat = st.activeSeat /\ t.turnCount = st.turnCount
      /\ \A p \in Seats : p # s => t.powerups[p] = st.powerups[p]
      /\ mine.extraTurnInProgress = old.extraTurnInProgress
      /\ powerup \notin old.used /\ mine.used = old.used \cup {powerup}
      /\ mine.shieldSelectionPending <=> old.shieldSelectionPending \/ powerup = "shield"
      /\ mine.revealActive <=> old.revealActive \/ powerup = "reveal"
      /\ mine.extraTurnArmed <=> old.extraTurnArmed \/ powerup = "extraTurn"
  BY DEF Activated, OthersAsIs, SameTurn
<1>2. b.extraTurnInProgress = a.extraTurnInProgress
  BY <1>1 DEF turnsIn
<1>3. /\ powerup = "reveal" => b.revealed = a.revealed \cup {s} /\ s \notin a.revealed
      /\ powerup = "reveal" => b.revealActive = a.revealActive \cup {s}
      /\ powerup # "reveal" => b.revealed = a.revealed /\ b.revealActive = a.revealActive
  BY <1>1 DEF turnsIn
<1>4. /\ powerup = "extraTurn" => b.extended = a.extended \cup {s} /\ s \notin a.extended
      /\ powerup = "extraTurn" => b.extraTurnArmed = a.extraTurnArmed \cup {s}
      /\ powerup # "extraTurn" => b.extended = a.extended /\ b.extraTurnArmed = a.extraTurnArmed
  BY <1>1 DEF turnsIn
<1>5. /\ powerup = "shield" => a.setups[s] = 0 /\ b.setups = [a.setups EXCEPT ![s] = 1]
      /\ powerup # "shield" => b.setups = a.setups
  BY <1>1 DEF turnsIn, setupsOf
<1>6. b.phase = a.phase /\ b.activeSeat = a.activeSeat /\ b.turnCount = a.turnCount
      /\ a.activeSeat = s
  BY <1>1 DEF turnsIn
<1>7. CASE powerup = "shield"
  <2> DEFINE more == [a.setups EXCEPT ![s] = a.setups[s] + 1]
  <2>2. b.setups = more
    <3> HIDE DEF a, b
    <3> QED BY <1>5, <1>7
  <2> HIDE DEF more
  <2>3. b = [a EXCEPT !.setups = more]
    BY <1>2, <1>3, <1>4, <1>6, <1>7, <2>2 DEF turnsIn
  <2> HIDE DEF a, b
  <2>1. b = [a EXCEPT !.setups = [a.setups EXCEPT ![s] = a.setups[s] + 1]]
    BY <2>3 DEF more
  <2> QED BY <1>5, <1>6, <1>7, <2>1 DEF Turns!setUp, a, b
<1>8. CASE powerup = "reveal"
  <2>1. b = [a EXCEPT !.revealed = a.revealed \cup {s},
                      !.revealActive = a.revealActive \cup {s}]
    <3>1. TurnRecord(a) /\ TurnRecord(b)
      BY TurnsShape
    <3> DEFINE seen == a.revealed \cup {s}
               up == a.revealActive \cup {s}
    <3> HIDE DEF a, b
    <3>2. b.revealed = seen /\ b.revealActive = up
      BY <1>3, <1>4, <1>8
    <3> HIDE DEF seen, up
    <3>3. b = [a EXCEPT !.revealed = seen, !.revealActive = up]
      BY <1>2, <1>3, <1>4, <1>5, <1>6, <1>8, <3>1, <3>2 DEF TurnRecord
    <3> QED BY <3>3 DEF seen, up
  <2> HIDE DEF a, b
  <2> QED BY <1>3, <1>6, <1>8, <2>1 DEF Turns!reveal, a, b
<1>9. CASE powerup = "extraTurn"
  <2>1. b = [a EXCEPT !.extended = a.extended \cup {s},
                      !.extraTurnArmed = a.extraTurnArmed \cup {s}]
    <3>1. TurnRecord(a) /\ TurnRecord(b)
      BY TurnsShape
    <3> DEFINE had == a.extended \cup {s}
               armed == a.extraTurnArmed \cup {s}
    <3> HIDE DEF a, b
    <3>2. b.extended = had /\ b.extraTurnArmed = armed
      BY <1>3, <1>4, <1>9
    <3> HIDE DEF had, armed
    <3>3. b = [a EXCEPT !.extended = had, !.extraTurnArmed = armed]
      BY <1>2, <1>3, <1>4, <1>5, <1>6, <1>9, <3>1, <3>2 DEF TurnRecord
    <3> QED BY <3>3 DEF had, armed
  <2> HIDE DEF a, b
  <2> QED BY <1>4, <1>6, <1>9, <2>1 DEF Turns!armExtraTurn, a, b
<1> QED BY <1>7, <1>8, <1>9 DEF Powerups

\* Aiming an owed shield is the other set-up of a seat.
LEMMA AimTurns ==
    ASSUME NEW st \in GameState, OpenedByUse(st), NEW s \in Seats, s = st.activeSeat,
           NEW t, Aimed(t, st, s)
    PROVE  turnsIn(t) \in Turns!setUp(turnsIn(st))
<1> DEFINE a == turnsIn(st)
           b == turnsIn(t)
           old == st.powerups[s]
           mine == t.powerups[s]
           more == [a.setups EXCEPT ![s] = a.setups[s] + 1]
<1>1. /\ t.phase = st.phase /\ t.activeSeat = st.activeSeat /\ t.turnCount = st.turnCount
      /\ \A p \in Seats : p # s => t.powerups[p] = st.powerups[p]
      /\ mine.extraTurnInProgress = old.extraTurnInProgress /\ mine.used = old.used
      /\ mine.revealActive = old.revealActive /\ mine.extraTurnArmed = old.extraTurnArmed
      /\ old.shieldSelectionPending /\ ~mine.shieldSelectionPending
  BY DEF Aimed, OthersAsIs, SameTurn
<1>2. "shield" \in old.used
  BY <1>1 DEF OpenedByUse
<1>3. /\ b.phase = a.phase /\ b.activeSeat = a.activeSeat /\ b.turnCount = a.turnCount
      /\ b.revealed = a.revealed /\ b.extended = a.extended
      /\ b.revealActive = a.revealActive /\ b.extraTurnArmed = a.extraTurnArmed
      /\ b.extraTurnInProgress = a.extraTurnInProgress /\ a.activeSeat = s
  BY <1>1 DEF turnsIn
<1>4. a.setups[s] = 1 /\ b.setups = [a.setups EXCEPT ![s] = 2]
  BY <1>1, <1>2 DEF turnsIn, setupsOf
<1>5. b.setups = more
  <2> HIDE DEF a, b
  <2> QED BY <1>4
<1> HIDE DEF more
<1>6. b = [a EXCEPT !.setups = more]
  BY <1>3, <1>5 DEF turnsIn
<1> HIDE DEF a, b
<1>7. b \in Turns!setUp(a)
  BY <1>3, <1>4, <1>6 DEF Turns!setUp, more
<1> QED BY <1>7 DEF a, b

\* Lowering a reveal lowers it.
LEMMA LoweringTurns ==
    ASSUME NEW st \in GameState, NEW s \in Seats, NEW t, Lowered(t, st, s)
    PROVE  turnsIn(t) \in Turns!endReveal(turnsIn(st), s)
<1> DEFINE a == turnsIn(st)
           b == turnsIn(t)
           old == st.powerups[s]
           mine == t.powerups[s]
<1>1. /\ t.phase = st.phase /\ t.activeSeat = st.activeSeat /\ t.turnCount = st.turnCount
      /\ \A p \in Seats : p # s => t.powerups[p] = st.powerups[p]
      /\ mine.extraTurnInProgress = old.extraTurnInProgress /\ mine.used = old.used
      /\ ~mine.revealActive /\ mine.extraTurnArmed = old.extraTurnArmed
      /\ mine.shieldSelectionPending = old.shieldSelectionPending
  BY DEF Lowered, OthersAsIs, SameTurn
<1>2. /\ b.phase = a.phase /\ b.activeSeat = a.activeSeat /\ b.turnCount = a.turnCount
      /\ b.revealed = a.revealed /\ b.extended = a.extended
      /\ b.extraTurnArmed = a.extraTurnArmed
      /\ b.extraTurnInProgress = a.extraTurnInProgress
      /\ b.revealActive = a.revealActive \ {s}
  BY <1>1 DEF turnsIn
<1>3. b.setups = a.setups
  BY <1>1 DEF turnsIn, setupsOf
<1>4. b = [a EXCEPT !.revealActive = a.revealActive \ {s}]
  BY <1>2, <1>3 DEF turnsIn
<1> HIDE DEF a, b
<1>5. b \in Turns!endReveal(a, s)
  BY <1>4 DEF Turns!endReveal
<1> QED BY <1>5 DEF a, b

\* A placement's turn is one the turn structure allows: it is over with the passes after
\* it, or it is the first half of an extra turn that was armed.
LEMMA PlaceTurns ==
    ASSUME NEW st, GameInv(st), NEW s \in Seats, st.phase = "active", s = st.activeSeat,
           NEW l \in Locations, NEW y \in Symbols, NEW t \in place(st, s, l, y)
    PROVE  turnsIn(t) \in Turns!turnPlaced(turnsIn(st))
<1>1. PICK u : /\ Landed(u, st, s, l, y)
               /\ \/ t = u /\ u.powerups[s].extraTurnInProgress
                  \/ /\ ~u.powerups[s].extraTurnInProgress
                     /\ \E k \in 1 .. maxTurns - u.turnCount : Passed(t, u, k)
  BY PlaceLands
<1> DEFINE a == turnsIn(st)
           b == turnsIn(t)
           c == turnsIn(u)
           low == [a EXCEPT !.revealActive = a.revealActive \ {s}]
           old == st.powerups[s]
           mine == u.powerups[s]
<1>2. /\ u \in GameState
      /\ u.phase = st.phase /\ u.activeSeat = st.activeSeat /\ u.turnCount = st.turnCount
      /\ \A p \in Seats : p # s => u.powerups[p] = st.powerups[p]
      /\ mine.used = old.used /\ ~mine.revealActive /\ ~mine.extraTurnArmed
      /\ ~mine.shieldSelectionPending
      /\ mine.extraTurnInProgress => old.extraTurnArmed
  BY <1>1 DEF Landed, SameTurn
<1>3. ~old.shieldSelectionPending
  BY PlaceLands
<1>4. /\ c.phase = a.phase /\ c.activeSeat = s /\ c.turnCount = a.turnCount
      /\ c.revealed = a.revealed /\ c.extended = a.extended
      /\ c.revealActive = a.revealActive \ {s}
      /\ c.extraTurnArmed = a.extraTurnArmed \ {s} /\ a.activeSeat = s
      /\ mine.extraTurnInProgress => s \in a.extraTurnArmed
      /\ c.extraTurnInProgress = IF mine.extraTurnInProgress THEN a.extraTurnInProgress \cup {s}
                                 ELSE a.extraTurnInProgress \ {s}
  BY <1>2 DEF turnsIn
<1>5. c.setups = a.setups
  BY <1>2, <1>3 DEF turnsIn, setupsOf
<1>6. /\ low.activeSeat = s /\ low.turnCount = a.turnCount /\ a.turnCount = st.turnCount
      /\ low.extraTurnArmed = a.extraTurnArmed
      /\ low.extraTurnInProgress = a.extraTurnInProgress
  BY <1>2 DEF turnsIn
<1>7. Turns!turnPlaced(a) =
        {Turns!turnEnded(low, k) : k \in 1 .. maxTurns - a.turnCount}
            \cup (IF s \in a.extraTurnArmed THEN {Turns!firstHalf(low)} ELSE {})
  <2> HIDE DEF a
  <2> QED BY <1>4 DEF Turns!turnPlaced
<1>8. CASE t = u /\ mine.extraTurnInProgress
  <2>1. c = [low EXCEPT !.extraTurnArmed = a.extraTurnArmed \ {s},
                        !.extraTurnInProgress = a.extraTurnInProgress \cup {s}]
    <3>1. TurnRecord(a) /\ TurnRecord(c)
      BY TurnsShape
    <3> DEFINE armed == a.extraTurnArmed \ {s}
               half  == a.extraTurnInProgress \cup {s}
               down  == a.revealActive \ {s}
    <3> HIDE DEF a, c
    <3>2. /\ c.phase = a.phase /\ c.activeSeat = a.activeSeat /\ c.turnCount = a.turnCount
          /\ c.revealed = a.revealed /\ c.extended = a.extended
          /\ c.revealActive = down /\ c.extraTurnArmed = armed
          /\ c.extraTurnInProgress = half /\ c.setups = a.setups
      BY <1>4, <1>5, <1>8
    <3> HIDE DEF armed, half, down
    <3>3. c = [[a EXCEPT !.revealActive = down]
                 EXCEPT !.extraTurnArmed = armed, !.extraTurnInProgress = half]
      BY <3>1, <3>2 DEF TurnRecord
    <3> QED BY <3>3 DEF armed, half, down
  <2> HIDE DEF a, c, low
  <2>2. c = Turns!firstHalf(low)
    BY <1>6, <2>1 DEF Turns!firstHalf
  <2> QED BY <1>4, <1>7, <1>8, <2>2 DEF a, c
<1>9. ASSUME ~mine.extraTurnInProgress, NEW k \in 1 .. maxTurns - u.turnCount, Passed(t, u, k)
      PROVE  b \in Turns!turnPlaced(a)
  <2> DEFINE over == a.turnCount + k = maxTurns
             phase == IF over THEN "finished" ELSE "active"
             seat == IF over = (k % 2 = 1) THEN s ELSE otherSeat(s)
  <2>1. /\ t.powerups = u.powerups /\ t.turnCount = a.turnCount + k
        /\ t.phase = phase
    BY <1>2, <1>6, <1>9 DEF Passed
  <2>2. t.activeSeat = seat
    <3>1. k % 2 \in {0, 1}
      BY <1>2, MaxTurnsType DEF GameState
    <3>2. over <=> t.turnCount = maxTurns
      BY <2>1
    <3>3. u.activeSeat = s
      BY <1>2
    <3>4. /\ over /\ k % 2 = 1 => t.activeSeat = s
          /\ over /\ k % 2 = 0 => t.activeSeat = otherSeat(s)
          /\ ~over /\ k % 2 = 1 => t.activeSeat = otherSeat(s)
          /\ ~over /\ k % 2 = 0 => t.activeSeat = s
      BY <1>9, <3>2, <3>3 DEF Passed
    <3>9. over \in BOOLEAN
      OBVIOUS
    <3> HIDE DEF over
    <3>5. CASE k % 2 = 1 /\ over
      BY <3>4, <3>5
    <3>6. CASE k % 2 = 1 /\ ~over
      BY <3>4, <3>6
    <3>7. CASE k % 2 = 0 /\ over
      BY <3>4, <3>7
    <3>8. CASE k % 2 = 0 /\ ~over
      BY <3>4, <3>8, <3>9
    <3> QED BY <3>1, <3>5, <3>6, <3>7, <3>8
  <2>3. /\ b.phase = phase /\ b.activeSeat = seat /\ b.turnCount = a.turnCount + k
        /\ b.revealed = c.revealed /\ b.extended = c.extended
        /\ b.revealActive = c.revealActive /\ b.extraTurnArmed = c.extraTurnArmed
        /\ b.extraTurnInProgress = c.extraTurnInProgress /\ b.setups = c.setups
    <3> HIDE DEF phase, seat
    <3> QED BY <2>1, <2>2 DEF turnsIn
  <2>4. b = [low EXCEPT !.turnCount = a.turnCount + k, !.phase = phase, !.activeSeat = seat,
                        !.extraTurnArmed = a.extraTurnArmed \ {s},
                        !.extraTurnInProgress = a.extraTurnInProgress \ {s}]
    <3>1. TurnRecord(a) /\ TurnRecord(b)
      BY TurnsShape
    <3> DEFINE armed == a.extraTurnArmed \ {s}
               half  == a.extraTurnInProgress \ {s}
               down  == a.revealActive \ {s}
               count == a.turnCount + k
    <3> HIDE DEF phase, seat, a, b, c
    <3>2. /\ b.phase = phase /\ b.activeSeat = seat /\ b.turnCount = count
          /\ b.revealed = a.revealed /\ b.extended = a.extended
          /\ b.revealActive = down /\ b.extraTurnArmed = armed
          /\ b.extraTurnInProgress = half /\ b.setups = a.setups
      BY <1>4, <1>5, <1>9, <2>3
    <3> HIDE DEF armed, half, down, count
    <3>3. b = [[a EXCEPT !.revealActive = down]
                 EXCEPT !.turnCount = count, !.phase = phase, !.activeSeat = seat,
                        !.extraTurnArmed = armed, !.extraTurnInProgress = half]
      BY <3>1, <3>2 DEF TurnRecord
    <3> QED BY <3>3 DEF armed, half, down, count
  <2> HIDE DEF a, b, low
  <2>5. b = Turns!turnEnded(low, k)
    BY <1>6, <2>4 DEF Turns!turnEnded, Turns!otherSeat, otherSeat
  <2>6. k \in 1 .. maxTurns - a.turnCount
    BY <1>2, <1>6
  <2> QED BY <1>7, <2>5, <2>6
<1> QED BY <1>1, <1>8, <1>9

\* What a command of the game does to st: it activates a power-up, aims a shield or lowers
\* a reveal, or it places, after a timeout with the owed shield aimed before.
Commanded(t, st) ==
    LET s == st.activeSeat
    IN  /\ st.phase = "active"
        /\ \/ \E powerup \in Powerups : Activated(t, st, s, powerup)
           \/ Aimed(t, st, s)
           \/ \E q \in Seats : Lowered(t, st, q)
           \/ \E w : /\ GameInv(w) /\ SameTurn(w, st)
                     /\ w = st \/ Aimed(w, st, s)
                     /\ \E l \in Locations, y \in Symbols : t \in place(w, s, l, y)

\* Every step of the reducer is one of these.
LEMMA StepIsCommanded ==
    ASSUME GameInv(game), Next
    PROVE  Commanded(game', game)
<1>1. game \in GameState
  BY DEF GameInv
<1>2. CASE Timeout
  <2>1. game.phase = "active" /\ game' \in applyTimeout(game)
    BY <1>2 DEF Timeout
  <2> QED BY <2>1, TimeoutLands DEF Commanded
<1>3. ASSUME NEW s \in Seats, NEW l \in Locations, NEW y \in Symbols, Place(s, l, y)
      PROVE  Commanded(game', game)
  <2>1. game.phase = "active" /\ s = game.activeSeat /\ game' \in place(game, s, l, y)
    BY <1>3 DEF Place, mayAct
  <2>2. SameTurn(game, game)
    BY DEF SameTurn
  <2> QED BY <2>1, <2>2 DEF Commanded
<1>4. ASSUME NEW s \in Seats, NEW p \in Powerups, ActivatePowerup(s, p)
      PROVE  Commanded(game', game)
  <2>1. game.phase = "active" /\ s = game.activeSeat /\ game' \in activatePowerup(game, s, p)
    BY <1>4 DEF ActivatePowerup, mayAct
  <2> QED BY <1>1, <2>1, PowerupActivates DEF Commanded
<1>5. ASSUME NEW s \in Seats, NEW l \in Locations, SelectShieldTarget(s, l)
      PROVE  Commanded(game', game)
  <2>1. game.phase = "active" /\ s = game.activeSeat /\ game' \in selectShieldTarget(game, s, l)
    BY <1>5 DEF SelectShieldTarget, mayAct
  <2> QED BY <1>1, <2>1, ShieldSelects DEF Commanded
<1>6. ASSUME NEW s \in Seats, EndReveal(s)
      PROVE  Commanded(game', game)
  <2>1. game.phase = "active" /\ game' \in endReveal(game, s)
    BY <1>6 DEF EndReveal
  <2> QED BY <1>1, <2>1, RevealLowers DEF Commanded
<1> QED BY <1>2, <1>3, <1>4, <1>5, <1>6 DEF Next

\* Aiming a shield opens nothing.
LEMMA AimKeepsOpened ==
    ASSUME NEW st, OpenedByUse(st), NEW s \in Seats, NEW t, Aimed(t, st, s)
    PROVE  OpenedByUse(t)
BY DEF OpenedByUse, Aimed, OthersAsIs

\* No command opens what was not used.
LEMMA OpenedByUseKept ==
    ASSUME NEW st, GameInv(st), OpenedByUse(st), NEW t, Commanded(t, st)
    PROVE  OpenedByUse(t)
<1> DEFINE s == st.activeSeat
<1>1. s \in Seats
  BY DEF GameInv, GameState
<1> HIDE DEF s
<1>2. ASSUME NEW powerup \in Powerups, Activated(t, st, s, powerup)
      PROVE  OpenedByUse(t)
  BY <1>1, <1>2 DEF OpenedByUse, Activated, OthersAsIs
<1>3. CASE Aimed(t, st, s)
  BY <1>1, <1>3, AimKeepsOpened
<1>4. ASSUME NEW q \in Seats, Lowered(t, st, q)
      PROVE  OpenedByUse(t)
  BY <1>4 DEF OpenedByUse, Lowered, OthersAsIs
<1>5. ASSUME NEW w, GameInv(w), SameTurn(w, st), w = st \/ Aimed(w, st, s),
             NEW l \in Locations, NEW y \in Symbols, t \in place(w, s, l, y)
      PROVE  OpenedByUse(t)
  <2>1. OpenedByUse(w)
    BY <1>1, <1>5, AimKeepsOpened
  <2>2. w.phase = "active" /\ s = w.activeSeat
    BY <1>5 DEF SameTurn, Commanded, s
  <2>3. PICK u : Landed(u, w, s, l, y) /\ (t = u \/ \E k : Passed(t, u, k))
    BY <1>1, <1>5, <2>2, PlaceLands
  <2>4. OpenedByUse(u)
    BY <1>1, <2>1, <2>3 DEF OpenedByUse, Landed
  <2> QED BY <2>3, <2>4 DEF Passed, OpenedByUse
<1> QED BY <1>2, <1>3, <1>4, <1>5 DEF Commanded, s

\* In every game, what is open was opened by use.
LEMMA OpenedInvariant == Spec => []OpenedByUse(game)
<1>1. Init => OpenedByUse(game)
  BY DEF Init, OpenedByUse, createGame, createPowerups
<1>2. GameInv(game) /\ OpenedByUse(game) /\ [Next]_game => OpenedByUse(game)'
  <2> SUFFICES ASSUME GameInv(game), OpenedByUse(game), [Next]_game
               PROVE  OpenedByUse(game')
    BY DEF OpenedByUse
  <2>1. CASE Next
    BY <2>1, StepIsCommanded, OpenedByUseKept
  <2> QED BY <2>1
<1> QED BY <1>1, <1>2, GameInvariant, PTL DEF Spec

\* A command is a step of the turn structure.
LEMMA CommandTurns ==
    ASSUME GameInv(game), OpenedByUse(game), Commanded(game', game)
    PROVE  Turns!Next
<1> DEFINE s == game.activeSeat
           a == turnsIn(game)
           b == turnsIn(game')
<1>1. game \in GameState /\ s \in Seats /\ game.phase = "active"
  BY DEF GameInv, GameState, Commanded
<1>2. /\ turnsOfGame = a /\ turnsOfGame' = b
      /\ a.phase = "active" /\ a.activeSeat = s /\ Turns!Seats = Seats
  BY <1>1 DEF turnsOfGame, turnsIn, Turns!Seats, Seats
<1>3. SUFFICES \/ b \in Turns!timedOut(a) \/ b \in Turns!turnPlaced(a)
               \/ b \in Turns!setUp(a) \/ b \in Turns!reveal(a)
               \/ b \in Turns!armExtraTurn(a)
               \/ \E q \in Seats : b \in Turns!endReveal(a, q)
  <2> HIDE DEF a, b, s
  <2> QED BY <1>1, <1>2 DEF Turns!Next, Turns!Timeout, Turns!Place, Turns!SetUp, Turns!Reveal,
             Turns!ArmExtraTurn, Turns!EndReveal, Turns!mayAct
<1> HIDE DEF a, b, s
<1>4. ASSUME NEW powerup \in Powerups, Activated(game', game, s, powerup)
      PROVE  b \in Turns!setUp(a) \/ b \in Turns!reveal(a) \/ b \in Turns!armExtraTurn(a)
  BY <1>1, <1>4, ActivationTurns DEF a, b, s
<1>5. CASE Aimed(game', game, s)
  BY <1>1, <1>5, AimTurns DEF a, b, s
<1>6. ASSUME NEW q \in Seats, Lowered(game', game, q)
      PROVE  b \in Turns!endReveal(a, q)
  BY <1>1, <1>6, LoweringTurns DEF a, b
<1>7. ASSUME NEW w, GameInv(w), SameTurn(w, game), w = game \/ Aimed(w, game, s),
             NEW l \in Locations, NEW y \in Symbols, game' \in place(w, s, l, y)
      PROVE  b \in Turns!timedOut(a)
  <2>1. w.phase = "active" /\ s = w.activeSeat
    BY <1>1, <1>7 DEF SameTurn, s
  <2>2. b \in Turns!turnPlaced(turnsIn(w))
    BY <1>1, <1>7, <2>1, PlaceTurns DEF b
  <2>3. turnsIn(w) = a \/ turnsIn(w) \in Turns!setUp(a)
    BY <1>1, <1>7, AimTurns DEF a, s
  <2> QED BY <2>2, <2>3 DEF Turns!timedOut
<1> QED BY <1>4, <1>5, <1>6, <1>7 DEF Commanded, s

\* The reducer implements the turn structure the match authority relies on: a new game maps
\* to new turns, and every command to a step of them.
THEOREM GameImplementsTurns == Spec => ImplementsTurns
<1>1. Init => Turns!Init
  <2> SUFFICES ASSUME NEW first \in Seats, game = createGame(first)
               PROVE  turnsOfGame = Turns!newTurns(first)
    BY DEF Init, Turns!Init, Turns!Seats, Seats
  <2>1. \A q \in Seats : game.powerups[q] = createPowerups
    BY DEF createGame
  <2>2. game.phase = "active" /\ game.activeSeat = first /\ game.turnCount = 0
    BY DEF createGame
  <2> DEFINE a == turnsIn(game)
             new == Turns!newTurns(first)
  <2>3. /\ a.phase = "active" /\ a.activeSeat = first /\ a.turnCount = 0
        /\ a.revealed = {} /\ a.extended = {} /\ a.revealActive = {}
        /\ a.extraTurnArmed = {} /\ a.extraTurnInProgress = {}
    BY <2>1, <2>2 DEF turnsIn, createPowerups
  <2>4. \A q \in Seats : setupsOf(game.powerups[q]) = 0
    BY <2>1 DEF setupsOf, createPowerups
  <2>5. a.setups = [q \in Seats |-> 0]
    BY <2>4 DEF turnsIn
  <2>6. /\ new.phase = "active" /\ new.activeSeat = first /\ new.turnCount = 0
        /\ new.revealed = {} /\ new.extended = {} /\ new.revealActive = {}
        /\ new.extraTurnArmed = {} /\ new.extraTurnInProgress = {}
        /\ new.setups = [q \in Seats |-> 0] /\ TurnRecord(new)
    BY DEF Turns!newTurns, Turns!Seats, Seats, TurnRecord
  <2>7. TurnRecord(a) /\ turnsOfGame = a
    BY TurnsShape DEF turnsOfGame
  <2> HIDE DEF a, new
  <2>8. a = new
    BY <2>3, <2>5, <2>6, <2>7 DEF TurnRecord
  <2> QED BY <2>7, <2>8 DEF new
<1>2. GameInv(game) /\ OpenedByUse(game) /\ [Next]_game => [Turns!Next]_turnsOfGame
  <2> SUFFICES ASSUME GameInv(game), OpenedByUse(game), [Next]_game
               PROVE  Turns!Next \/ UNCHANGED turnsOfGame
    OBVIOUS
  <2>1. CASE Next
    BY <2>1, StepIsCommanded, CommandTurns
  <2>2. CASE UNCHANGED game
    BY <2>2 DEF turnsOfGame, turnsIn
  <2> QED BY <2>1, <2>2
<1> QED BY <1>1, <1>2, GameInvariant, OpenedInvariant, PTL DEF Spec, ImplementsTurns, Turns!Spec

-----------------------------------------------------------------------------

(* Shields and desecrated cells.                                             *)

\* The boards of w are those of st but for a shield that was aimed.
AsAimed(w, st) ==
    /\ SameTurn(w, st)
    /\ \A p \in Seats, m \in Locations :
        /\ w.boards[p][m].symbol = st.boards[p][m].symbol
        /\ w.boards[p][m].desecratedTurns = st.boards[p][m].desecratedTurns
        /\ st.boards[p][m].immune => w.boards[p][m].immune

\* What a placement by s makes of every cell, before its turn is used up: a desecrated cell
\* stays so, a piece stays or is destroyed in the other seat's hands, and a shield is only
\* spent where the placement was.
Swept(u, w, s) ==
    \A p \in Seats, m \in Locations :
        LET before == w.boards[p][m]  mid == u.boards[p][m]
        IN  /\ before.desecratedTurns > 0 => mid = before
            /\ before.symbol # NoSymbol /\ mid.symbol = NoSymbol =>
                p # s /\ mid.desecratedTurns = DESECRATION_TURNS
            /\ before.immune =>
                /\ mid.symbol = before.symbol
                /\ \/ mid.immune
                   \/ /\ p # s /\ isPlayable(w.boards[s][m])
                      /\ u.boards[s][m].symbol = NoSymbol

\* A placement sweeps its location.
LEMMA PlaceSweeps ==
    ASSUME NEW w, GameInv(w), NEW s \in Seats, NEW l \in Locations, NEW y \in Symbols,
           isPlayable(w.boards[s][l]), NEW u, u.boards = placed(w, s, l, y).boards,
           Struck(placed(w, s, l, y).boards, w.boards, s, l, y)
    PROVE  Swept(u, w, s)
<1> DEFINE o == otherSeat(s)
<1>1. o \in Seats /\ o # s /\ \A p \in Seats : p = s \/ p = o
  BY DEF otherSeat, Seats
<1>2. \A p \in Seats, m \in Locations : CellSound(w.boards[p][m])
  BY BoardsOf DEF GameInv, BoardsSound
<1>3. Struck(u.boards, w.boards, s, l, y)
  OBVIOUS
<1> SUFFICES ASSUME NEW p \in Seats, NEW m \in Locations
             PROVE  LET before == w.boards[p][m]  mid == u.boards[p][m]
                    IN  /\ before.desecratedTurns > 0 => mid = before
                        /\ before.symbol # NoSymbol /\ mid.symbol = NoSymbol =>
                            p # s /\ mid.desecratedTurns = DESECRATION_TURNS
                        /\ before.immune =>
                            /\ mid.symbol = before.symbol
                            /\ \/ mid.immune
                               \/ /\ p # s /\ isPlayable(w.boards[s][m])
                                  /\ u.boards[s][m].symbol = NoSymbol
  BY DEF Swept
<1>4. CASE m # l
  <2>1. u.boards[p][m] = w.boards[p][m]
    BY <1>3, <1>4 DEF Struck
  <2> QED BY <2>1
<1>5. CASE m = l /\ p = s
  <2>1. ~w.boards[p][m].immune /\ w.boards[p][m].symbol = NoSymbol
        /\ w.boards[p][m].desecratedTurns = 0
    BY <1>2, <1>5 DEF isPlayable, CellSound
  <2> QED BY <2>1
<1>6. CASE m = l /\ p = o
  <2> DEFINE before == w.boards[o][l]
             mid == u.boards[o][l]
  <2>1. CellSound(before)
    BY <1>1, <1>2
  <2>2. /\ before.symbol = NoSymbol => mid = before
        /\ before.symbol # NoSymbol =>
            mid.symbol = before.symbol \/ mid.desecratedTurns = DESECRATION_TURNS
        /\ before.immune =>
            /\ mid.symbol = before.symbol
            /\ mid.immune \/ u.boards[s][l].symbol = NoSymbol
    BY <1>3 DEF Struck
  <2> HIDE DEF before, mid, o
  <2>3. /\ before.desecratedTurns > 0 => mid = before
        /\ before.symbol # NoSymbol /\ mid.symbol = NoSymbol =>
            mid.desecratedTurns = DESECRATION_TURNS
    BY <2>1, <2>2 DEF CellSound
  <2> QED BY <1>1, <1>6, <2>2, <2>3 DEF before, mid
<1> QED BY <1>1, <1>4, <1>5, <1>6

\* A command keeps the boards apart from shields, or it sweeps them and may then use up
\* the turn.
LEMMA CommandSweeps ==
    ASSUME NEW st, GameInv(st), NEW t, Commanded(t, st)
    PROVE  \/ AsAimed(t, st)
           \/ \E w, u : /\ AsAimed(w, st) /\ GameInv(w) /\ Swept(u, w, st.activeSeat)
                        /\ u \in GameState /\ BoardsSound(u.boards) /\ SameTurn(u, w)
                        /\ t = u \/ \E k \in 1 .. maxTurns - u.turnCount : Passed(t, u, k)
<1> DEFINE s == st.activeSeat
<1>1. s \in Seats
  BY DEF GameInv, GameState
<1> HIDE DEF s
<1>2. \A w : Aimed(w, st, s) => AsAimed(w, st)
  BY DEF Aimed, OthersAsIs, AsAimed
<1>3. ASSUME NEW powerup \in Powerups, Activated(t, st, s, powerup)
      PROVE  AsAimed(t, st)
  BY <1>3 DEF Activated, OthersAsIs, AsAimed
<1>4. ASSUME NEW q \in Seats, Lowered(t, st, q)
      PROVE  AsAimed(t, st)
  BY <1>4 DEF Lowered, OthersAsIs, AsAimed
<1>5. ASSUME NEW w, GameInv(w), SameTurn(w, st), w = st \/ Aimed(w, st, s),
             NEW l \in Locations, NEW y \in Symbols, t \in place(w, s, l, y)
      PROVE  \E u : /\ AsAimed(w, st) /\ GameInv(w) /\ Swept(u, w, s)
                    /\ u \in GameState /\ BoardsSound(u.boards) /\ SameTurn(u, w)
                    /\ t = u \/ \E k \in 1 .. maxTurns - u.turnCount : Passed(t, u, k)
  <2>1. AsAimed(w, st)
    <3>1. CASE w = st
      BY <3>1, <1>5 DEF AsAimed
    <3> QED BY <1>2, <1>5, <3>1
  <2>2. w.phase = "active" /\ s = w.activeSeat
    BY <1>5 DEF SameTurn, Commanded, s
  <2>3. /\ isPlayable(w.boards[s][l])
        /\ Struck(placed(w, s, l, y).boards, w.boards, s, l, y)
        /\ \E u : /\ Landed(u, w, s, l, y)
                  /\ t = u \/ \E k \in 1 .. maxTurns - u.turnCount : Passed(t, u, k)
    BY <1>1, <1>5, <2>2, PlaceLands
  <2>4. PICK u : /\ Landed(u, w, s, l, y)
                 /\ t = u \/ \E k \in 1 .. maxTurns - u.turnCount : Passed(t, u, k)
    BY <2>3
  <2>5. /\ u \in GameState /\ BoardsSound(u.boards) /\ SameTurn(u, w)
        /\ u.boards = placed(w, s, l, y).boards
    BY <2>4 DEF Landed
  <2>6. Swept(u, w, s)
    BY <1>1, <1>5, <2>3, <2>5, PlaceSweeps
  <2> QED BY <1>5, <2>1, <2>4, <2>5, <2>6
<1> QED BY <1>2, <1>3, <1>4, <1>5 DEF Commanded, s

\* A command keeps a shielded piece, and spends the shield on the seat to move.
LEMMA ShieldKept ==
    ASSUME NEW st, GameInv(st), NEW t, Commanded(t, st), NEW s \in Seats, NEW l \in Locations,
           st.boards[s][l].immune
    PROVE  /\ t.boards[s][l].symbol = st.boards[s][l].symbol
           /\ \/ t.boards[s][l].immune
              \/ /\ s # st.activeSeat
                 /\ isPlayable(st.boards[otherSeat(s)][l])
                 /\ t.boards[otherSeat(s)][l].symbol = NoSymbol
<1>1. CASE AsAimed(t, st)
  BY <1>1 DEF AsAimed
<1>2. ASSUME NEW w, NEW u, AsAimed(w, st), Swept(u, w, st.activeSeat),
             t = u \/ \E k : Passed(t, u, k)
      PROVE  /\ t.boards[s][l].symbol = st.boards[s][l].symbol
             /\ \/ t.boards[s][l].immune
                \/ /\ s # st.activeSeat
                   /\ isPlayable(st.boards[otherSeat(s)][l])
                   /\ t.boards[otherSeat(s)][l].symbol = NoSymbol
  <2> DEFINE a == st.activeSeat
  <2>1. a \in Seats /\ (s # a => a = otherSeat(s))
    BY DEF GameInv, GameState, Seats, otherSeat
  <2>2. \A p \in Seats : /\ t.boards[p][l].symbol = u.boards[p][l].symbol
                         /\ t.boards[p][l].immune = u.boards[p][l].immune
    BY <1>2 DEF Passed
  <2> HIDE DEF a
  <2>3. /\ w.boards[s][l].immune /\ w.boards[s][l].symbol = st.boards[s][l].symbol
        /\ isPlayable(w.boards[a][l]) => isPlayable(st.boards[a][l])
    BY <1>2, <2>1 DEF AsAimed, isPlayable
  <2>4. /\ u.boards[s][l].symbol = w.boards[s][l].symbol
        /\ \/ u.boards[s][l].immune
           \/ s # a /\ isPlayable(w.boards[a][l]) /\ u.boards[a][l].symbol = NoSymbol
    BY <1>2, <2>3 DEF Swept, a
  <2> QED BY <2>1, <2>2, <2>3, <2>4 DEF a
<1> QED BY <1>1, <1>2, CommandSweeps

\* A shielded piece survives every step of every game, and its shield is only spent on an
\* attacker that dies of it.
THEOREM ShieldsHold == Spec => ShieldProtects
<1> DEFINE Kept == \A s \in Seats, l \in Locations :
                    game.boards[s][l].immune =>
                        /\ game'.boards[s][l].symbol = game.boards[s][l].symbol
                        /\ \/ game'.boards[s][l].immune
                           \/ /\ s # game.activeSeat
                              /\ isPlayable(game.boards[otherSeat(s)][l])
                              /\ game'.boards[otherSeat(s)][l].symbol = NoSymbol
<1>1. GameInv(game) /\ [Next]_game => [Kept]_game
  <2> SUFFICES ASSUME GameInv(game), Next
               PROVE  Kept
    OBVIOUS
  <2> QED BY StepIsCommanded, ShieldKept
<1> QED BY <1>1, GameInvariant, PTL DEF Spec, ShieldProtects

\* The cell is playable again when the turn due begins, and neither before nor after.
ReopensWhen(t, s, l, due) ==
    IF t.turnCount < due
    THEN t.boards[s][l].desecratedTurns > 0 /\ reopensAt(t, s, l) = due
    ELSE isPlayable(t.boards[s][l])

\* A desecrated cell wears off on schedule, whether the turn goes on or is used up with any
\* number of passes.
LEMMA CellWearsOff ==
    ASSUME NEW u \in GameState, BoardsSound(u.boards), NEW s \in Seats, NEW l \in Locations,
           u.boards[s][l].desecratedTurns > 0,
           NEW t, t = u \/ \E k \in 1 .. maxTurns - u.turnCount : Passed(t, u, k),
           t.phase = "active"
    PROVE  ReopensWhen(t, s, l, reopensAt(u, s, l))
<1> DEFINE old == u.boards[s][l]
           new == t.boards[s][l]
           d == old.desecratedTurns
           T == u.turnCount
           due == reopensAt(u, s, l)
<1>1. /\ d \in {1, 2} /\ T \in Nat /\ maxTurns \in Nat /\ u.activeSeat \in Seats
      /\ old.symbol = NoSymbol
  <2>1. CellSound(old)
    BY DEF BoardsSound
  <2>2. T \in Nat /\ maxTurns \in Nat /\ u.activeSeat \in Seats
    BY MaxTurnsType DEF GameState
  <2> HIDE DEF old
  <2>3. d \in {1, 2} /\ old.symbol = NoSymbol
    BY <2>1 DEF CellSound, LocationState, DESECRATION_TURNS, old
  <2> QED BY <2>2, <2>3 DEF old
<1>2. due = T + 2 * d - (IF s = u.activeSeat THEN 0 ELSE 1)
  BY DEF reopensAt
<1>3. CASE t = u
  <2>1. T < due
    <3> HIDE DEF d, T, due
    <3> QED BY <1>1, <1>2
  <2> QED BY <1>3, <2>1 DEF ReopensWhen
<1>4. ASSUME NEW k \in 1 .. maxTurns - u.turnCount, Passed(t, u, k)
      PROVE  ReopensWhen(t, s, l, due)
  <2> DEFINE n == turnsOf(u, s, k)
             e == new.desecratedTurns
             a == u.activeSeat
  <2>1. /\ t.turnCount = T + k /\ new.symbol = old.symbol
        /\ e = IF d > n THEN d - n ELSE 0
        /\ k % 2 = 1 => t.activeSeat = otherSeat(a)
        /\ k % 2 = 0 => t.activeSeat = a
    BY <1>4 DEF Passed
  <2>2. k \in Nat /\ k % 2 \in {0, 1}
    BY <1>1
  <2>3. n = IF s = a THEN k \div 2 ELSE (k + 1) \div 2
    BY DEF turnsOf
  <2>4. reopensAt(t, s, l) = T + k + 2 * e - (IF s = t.activeSeat THEN 0 ELSE 1)
    BY <2>1 DEF reopensAt
  <2>5. /\ k % 2 = 1 => (s = t.activeSeat <=> s # a)
        /\ k % 2 = 0 => (s = t.activeSeat <=> s = a)
    BY <1>1, <2>1 DEF otherSeat, Seats
  <2>6. isPlayable(new) <=> e = 0
    BY <1>1, <2>1 DEF isPlayable
  <2> DEFINE h == k \div 2
             r == reopensAt(t, s, l)
             open == IF T + k < due THEN e > 0 /\ r = due ELSE e = 0
  <2>7. SUFFICES open
    BY <2>1, <2>6 DEF ReopensWhen
  <2>8. h \in Nat
    BY <2>2
  <2>9. k % 2 = 1 => k = 2 * h + 1 /\ (k + 1) \div 2 = h + 1
    BY <2>2
  <2>10. k % 2 = 0 => k = 2 * h /\ (k + 1) \div 2 = h
    BY <2>2
  <2>11. due = T + 2 * d - (IF s = a THEN 0 ELSE 1)
    BY <1>2
  <2>12. d \in {1, 2} /\ T \in Nat /\ e = IF d > n THEN d - n ELSE 0
    BY <1>1, <2>1
  <2> HIDE DEF n, e, d, T, due, a, old, h, r, new
  <2>13. CASE k % 2 = 1 /\ s = a
    <3>1. k = 2 * h + 1 /\ n = h
      BY <2>3, <2>9, <2>13 DEF h
    <3>2. due = T + 2 * d /\ r = T + k + 2 * e - 1
      BY <2>4, <2>5, <2>11, <2>12, <2>13 DEF r
    <3> QED BY <2>8, <2>12, <3>1, <3>2
  <2>14. CASE k % 2 = 0 /\ s = a
    <3>1. k = 2 * h /\ n = h
      BY <2>3, <2>10, <2>14 DEF h
    <3>2. e \in Nat
      BY <2>8, <2>12, <3>1
    <3>3. due = T + 2 * d /\ r = T + k + 2 * e
      BY <2>2, <2>4, <2>5, <2>11, <2>12, <2>14, <3>2 DEF r
    <3> QED BY <2>8, <2>12, <3>1, <3>3
  <2>15. CASE k % 2 = 1 /\ s # a
    <3>1. k = 2 * h + 1 /\ n = h + 1
      BY <2>3, <2>9, <2>15
    <3>2. e \in Nat
      BY <2>8, <2>12, <3>1
    <3>3. due = T + 2 * d - 1 /\ r = T + k + 2 * e
      BY <2>2, <2>4, <2>5, <2>11, <2>12, <2>15, <3>2 DEF r
    <3> QED BY <2>8, <2>12, <3>1, <3>3
  <2>16. CASE k % 2 = 0 /\ s # a
    <3>1. k = 2 * h /\ n = h
      BY <2>3, <2>10, <2>16
    <3>2. due = T + 2 * d - 1 /\ r = T + k + 2 * e - 1
      BY <2>4, <2>5, <2>11, <2>12, <2>16 DEF r
    <3> QED BY <2>8, <2>12, <3>1, <3>2
  <2> QED BY <2>2, <2>13, <2>14, <2>15, <2>16
<1> QED BY <1>3, <1>4

\* A command leaves a desecrated cell on its schedule, and puts one it destroys on the
\* schedule of a turn's delay.
LEMMA CommandReopens ==
    ASSUME NEW st, GameInv(st), NEW t, Commanded(t, st), t.phase = "active",
           NEW s \in Seats, NEW l \in Locations
    PROVE  LET old == st.boards[s][l]  new == t.boards[s][l]
               lost == st.turnCount + (IF s = st.activeSeat THEN 4 ELSE 3)
           IN  /\ old.desecratedTurns > 0 => ReopensWhen(t, s, l, reopensAt(st, s, l))
               /\ old.symbol # NoSymbol /\ new.symbol = NoSymbol => ReopensWhen(t, s, l, lost)
<1> DEFINE old == st.boards[s][l]
           lost == st.turnCount + (IF s = st.activeSeat THEN 4 ELSE 3)
<1>1. st \in GameState /\ BoardsSound(st.boards)
  BY BoardsOf DEF GameInv
<1>2. CASE AsAimed(t, st)
  <2>1. /\ t.turnCount = st.turnCount /\ t.activeSeat = st.activeSeat
        /\ t.boards[s][l].symbol = old.symbol
        /\ t.boards[s][l].desecratedTurns = old.desecratedTurns
    BY <1>2 DEF AsAimed, SameTurn
  <2>2. reopensAt(t, s, l) = reopensAt(st, s, l)
    BY <2>1 DEF reopensAt
  <2>3. ASSUME old.desecratedTurns > 0
        PROVE  ReopensWhen(t, s, l, reopensAt(st, s, l))
    <3>1. st.phase = "active"
      BY DEF Commanded
    <3>2. ReopensWhen(st, s, l, reopensAt(st, s, l))
      BY <1>1, <2>3, <3>1, CellWearsOff
    <3> QED BY <2>1, <2>2, <3>2 DEF ReopensWhen, isPlayable
  <2> QED BY <2>1, <2>3
<1>3. ASSUME NEW w, NEW u, AsAimed(w, st), Swept(u, w, st.activeSeat),
             u \in GameState, BoardsSound(u.boards), SameTurn(u, w),
             t = u \/ \E k \in 1 .. maxTurns - u.turnCount : Passed(t, u, k)
      PROVE  /\ old.desecratedTurns > 0 => ReopensWhen(t, s, l, reopensAt(st, s, l))
             /\ old.symbol # NoSymbol /\ t.boards[s][l].symbol = NoSymbol =>
                    ReopensWhen(t, s, l, lost)
  <2> DEFINE mid == u.boards[s][l]
  <2>1. /\ u.turnCount = st.turnCount /\ u.activeSeat = st.activeSeat
        /\ w.boards[s][l].symbol = old.symbol
        /\ w.boards[s][l].desecratedTurns = old.desecratedTurns
    BY <1>3 DEF AsAimed, SameTurn
  <2>2. mid.desecratedTurns > 0 => ReopensWhen(t, s, l, reopensAt(u, s, l))
    BY <1>3, CellWearsOff
  <2>3. ASSUME old.desecratedTurns > 0
        PROVE  ReopensWhen(t, s, l, reopensAt(st, s, l))
    <3>1. mid = w.boards[s][l]
      BY <1>3, <2>1, <2>3 DEF Swept
    <3>2. reopensAt(u, s, l) = reopensAt(st, s, l)
      BY <2>1, <3>1 DEF reopensAt
    <3> QED BY <2>1, <2>2, <2>3, <3>1, <3>2
  <2>4. ASSUME old.symbol # NoSymbol, t.boards[s][l].symbol = NoSymbol
        PROVE  ReopensWhen(t, s, l, lost)
    <3>1. mid.symbol = NoSymbol
      BY <1>3, <2>4 DEF Passed
    <3>2. s # st.activeSeat /\ mid.desecratedTurns = 2
      BY <1>3, <2>1, <2>4, <3>1 DEF Swept, DESECRATION_TURNS
    <3>3. st.turnCount \in Nat
      BY <1>1, MaxTurnsType DEF GameState
    <3>4. reopensAt(u, s, l) = lost
      BY <2>1, <3>2, <3>3 DEF reopensAt
    <3> QED BY <2>2, <3>2, <3>4
  <2> QED BY <2>3, <2>4
<1> QED BY <1>2, <1>3, CommandSweeps

\* A desecrated cell reopens exactly one of its owner's turns later, in every game.
THEOREM DesecrationOnSchedule == Spec => DesecrationCostsOneTurn
<1> DEFINE OnSchedule ==
             \A s \in Seats, l \in Locations :
                LET old == game.boards[s][l]  new == game'.boards[s][l]
                    due == IF old.desecratedTurns > 0 THEN reopensAt(game, s, l)
                           ELSE game.turnCount + (IF s = game.activeSeat THEN 4 ELSE 3)
                IN  /\ old.desecratedTurns > 0 /\ game'.phase = "active" =>
                        IF game'.turnCount < due
                        THEN new.desecratedTurns > 0 /\ reopensAt(game', s, l) = due
                        ELSE isPlayable(new)
                    /\ old.symbol # NoSymbol /\ new.symbol = NoSymbol /\ game'.phase = "active" =>
                        IF game'.turnCount < due
                        THEN new.desecratedTurns > 0 /\ reopensAt(game', s, l) = due
                        ELSE isPlayable(new)
<1>1. GameInv(game) /\ [Next]_game => [OnSchedule]_game
  <2> SUFFICES ASSUME GameInv(game), Next, game'.phase = "active",
                      NEW s \in Seats, NEW l \in Locations
               PROVE  LET old == game.boards[s][l]  new == game'.boards[s][l]
                          due == IF old.desecratedTurns > 0 THEN reopensAt(game, s, l)
                                 ELSE game.turnCount + (IF s = game.activeSeat THEN 4 ELSE 3)
                      IN  /\ old.desecratedTurns > 0 => ReopensWhen(game', s, l, due)
                          /\ old.symbol # NoSymbol /\ new.symbol = NoSymbol =>
                                ReopensWhen(game', s, l, due)
    BY DEF ReopensWhen
  <2>1. Commanded(game', game)
    BY StepIsCommanded
  <2>2. game.boards[s][l].symbol # NoSymbol => ~(game.boards[s][l].desecratedTurns > 0)
    BY DEF GameInv, CellsSoundIn
  <2> QED BY <2>1, <2>2, CommandReopens
<1> QED BY <1>1, GameInvariant, PTL DEF Spec, DesecrationCostsOneTurn

-----------------------------------------------------------------------------

(* How long a game can be.                                                   *)

\* Whether a power-up that was used has nothing open any more, as a number.
spentOn(p, powerup, flag) == IF powerup \in p.used /\ ~flag THEN 1 ELSE 0

\* There are three power-ups.
LEMMA ThreePowerups == IsFiniteSet(Powerups) /\ Cardinality(Powerups) = 3
<1>1. IsFiniteSet({"shield"}) /\ Cardinality({"shield"}) = 1
  BY FS_Singleton
<1>2. /\ IsFiniteSet({"shield"} \cup {"reveal"})
      /\ Cardinality({"shield"} \cup {"reveal"}) = 2
  BY <1>1, FS_AddElement
<1>3. /\ IsFiniteSet(({"shield"} \cup {"reveal"}) \cup {"extraTurn"})
      /\ Cardinality(({"shield"} \cup {"reveal"}) \cup {"extraTurn"}) = 3
  BY <1>2, FS_AddElement
<1>4. Powerups = ({"shield"} \cup {"reveal"}) \cup {"extraTurn"}
  BY DEF Powerups
<1> QED BY <1>3, <1>4

\* A seat spends at most six steps on its power-ups.
LEMMA SpentBounded ==
    ASSUME NEW p \in PlayerPowerups
    PROVE  /\ IsFiniteSet(p.used) /\ Cardinality(p.used) \in Nat
           /\ spentBy(p) \in 0 .. 6
<1>1. p.used \in SUBSET Powerups
  BY DEF PlayerPowerups
<1>2. /\ IsFiniteSet(p.used) /\ Cardinality(p.used) \in Nat
      /\ Cardinality(p.used) <= 3
  BY <1>1, ThreePowerups, FS_Subset, FS_CardinalityType
<1> QED BY <1>2 DEF spentBy

\* A flag that is lowered, and no power-up used, counts as spent where it was open by use.
LEMMA SpentRises ==
    ASSUME NEW p \in PlayerPowerups, NEW q \in PlayerPowerups, q.used = p.used,
           q.shieldSelectionPending => p.shieldSelectionPending,
           q.extraTurnArmed => p.extraTurnArmed,
           q.revealActive => p.revealActive
    PROVE  /\ spentBy(q) >= spentBy(p)
           /\ \/ "shield" \in p.used /\ p.shieldSelectionPending /\ ~q.shieldSelectionPending
              \/ "extraTurn" \in p.used /\ p.extraTurnArmed /\ ~q.extraTurnArmed
              \/ "reveal" \in p.used /\ p.revealActive /\ ~q.revealActive
              => spentBy(q) > spentBy(p)
<1>1. Cardinality(p.used) \in Nat
  BY SpentBounded
<1> DEFINE n == Cardinality(p.used)
<1>2. spentBy(p) = n
        + spentOn(p, "shield", p.shieldSelectionPending)
        + spentOn(p, "extraTurn", p.extraTurnArmed)
        + spentOn(p, "reveal", p.revealActive)
  BY DEF spentBy, spentOn
<1>3. spentBy(q) = n
        + spentOn(p, "shield", q.shieldSelectionPending)
        + spentOn(p, "extraTurn", q.extraTurnArmed)
        + spentOn(p, "reveal", q.revealActive)
  BY DEF spentBy, spentOn
<1> HIDE DEF n
<1> QED BY <1>1, <1>2, <1>3 DEF spentOn, n

\* Activating a power-up is one step spent.
LEMMA SpentByUse ==
    ASSUME NEW p \in PlayerPowerups, NEW q \in PlayerPowerups, NEW powerup \in Powerups,
           powerup \notin p.used, q.used = p.used \cup {powerup},
           q.shieldSelectionPending <=> p.shieldSelectionPending \/ powerup = "shield",
           q.revealActive <=> p.revealActive \/ powerup = "reveal",
           q.extraTurnArmed <=> p.extraTurnArmed \/ powerup = "extraTurn"
    PROVE  spentBy(q) > spentBy(p)
<1>2. IsFiniteSet(p.used) /\ Cardinality(p.used) \in Nat
  BY SpentBounded
<1>3. Cardinality(q.used) = Cardinality(p.used) + 1
  BY <1>2, FS_AddElement
<1> DEFINE n == Cardinality(p.used)
           m == Cardinality(q.used)
<1>4. /\ spentBy(p) = n
           + spentOn(p, "shield", p.shieldSelectionPending)
           + spentOn(p, "extraTurn", p.extraTurnArmed)
           + spentOn(p, "reveal", p.revealActive)
      /\ spentBy(q) = m
           + spentOn(q, "shield", q.shieldSelectionPending)
           + spentOn(q, "extraTurn", q.extraTurnArmed)
           + spentOn(q, "reveal", q.revealActive)
  BY DEF spentBy, spentOn
<1>5. /\ spentOn(q, "shield", q.shieldSelectionPending)
            = spentOn(p, "shield", p.shieldSelectionPending)
      /\ spentOn(q, "extraTurn", q.extraTurnArmed)
            = spentOn(p, "extraTurn", p.extraTurnArmed)
      /\ spentOn(q, "reveal", q.revealActive) = spentOn(p, "reveal", p.revealActive)
  BY DEF spentOn
<1>6. /\ spentOn(p, "shield", p.shieldSelectionPending) \in 0 .. 1
      /\ spentOn(p, "extraTurn", p.extraTurnArmed) \in 0 .. 1
      /\ spentOn(p, "reveal", p.revealActive) \in 0 .. 1
  BY DEF spentOn
<1> HIDE DEF n, m
<1>7. n \in Nat /\ m = n + 1
  BY <1>2, <1>3 DEF n, m
<1> QED BY <1>4, <1>5, <1>6, <1>7

\* The progress of a game, counted from seat s.
LEMMA ProgressOf ==
    ASSUME NEW st \in GameState, NEW s \in Seats
    PROVE  /\ progress(st) = st.turnCount + spentBy(st.powerups[s])
                                + spentBy(st.powerups[otherSeat(s)])
           /\ st.turnCount \in 0 .. maxTurns /\ maxTurns \in Nat
           /\ \A p \in Seats : spentBy(st.powerups[p]) \in 0 .. 6
<1>1. \A p \in Seats : st.powerups[p] \in PlayerPowerups
  BY DEF GameState
<1>2. \A p \in Seats : spentBy(st.powerups[p]) \in 0 .. 6
  BY <1>1, SpentBounded
<1>3. st.turnCount \in 0 .. maxTurns /\ maxTurns \in Nat
  BY MaxTurnsType DEF GameState
<1>4. 0 \in Seats /\ 1 \in Seats /\ (s = 0 \/ s = 1) /\ otherSeat(0) = 1 /\ otherSeat(1) = 0
  BY DEF Seats, otherSeat
<1>5. progress(st) = st.turnCount + spentBy(st.powerups[0]) + spentBy(st.powerups[1])
  BY DEF progress
<1>6. progress(st) = st.turnCount + spentBy(st.powerups[s])
                        + spentBy(st.powerups[otherSeat(s)])
  <2> DEFINE n == st.turnCount
             a == spentBy(st.powerups[0])
             b == spentBy(st.powerups[1])
  <2>1. n \in Nat /\ a \in Nat /\ b \in Nat
    BY <1>2, <1>3, <1>4
  <2> HIDE DEF n, a, b
  <2>2. n + a + b = n + b + a
    BY <2>1
  <2> QED BY <1>4, <1>5, <2>2 DEF n, a, b
<1> QED BY <1>2, <1>3, <1>6

\* Progress is a number.
LEMMA ProgressType ==
    ASSUME NEW st \in GameState
    PROVE  /\ progress(st) \in Int /\ st.turnCount \in Nat
           /\ \A p \in Seats : spentBy(st.powerups[p]) \in Nat
<1>1. 0 \in Seats /\ 1 \in Seats
  BY DEF Seats
<1>2. /\ st.turnCount \in 0 .. maxTurns
      /\ \A p \in Seats : spentBy(st.powerups[p]) \in 0 .. 6
  BY <1>1, ProgressOf
<1> QED BY <1>1, <1>2 DEF progress

\* Where the turn stays with seat s and only its power-ups change, and by its lowered flags,
\* progress does not fall; it rises where a flag was open by use or the count goes up.
LEMMA ProgressKept ==
    ASSUME NEW st \in GameState, NEW t \in GameState, NEW s \in Seats,
           \A p \in Seats : p # s => t.powerups[p] = st.powerups[p],
           t.turnCount = st.turnCount
    PROVE  /\ spentBy(t.powerups[s]) >= spentBy(st.powerups[s]) => progress(t) >= progress(st)
           /\ spentBy(t.powerups[s]) > spentBy(st.powerups[s]) => progress(t) > progress(st)
<1> DEFINE o == otherSeat(s)
           n == st.turnCount
           a == spentBy(st.powerups[s])
           b == spentBy(st.powerups[o])
           c == spentBy(t.powerups[s])
<1>1. o \in Seats /\ o # s
  BY DEF otherSeat, Seats
<1>2. spentBy(t.powerups[o]) = b
  BY <1>1
<1>3. progress(st) = n + a + b /\ progress(t) = n + c + b
  BY <1>2, ProgressOf
<1>4. n \in Nat /\ a \in Nat /\ b \in Nat /\ c \in Nat
  BY <1>1, ProgressOf
<1> HIDE DEF n, a, b, c
<1> QED BY <1>3, <1>4 DEF a, c

\* A command that changes the game takes it further, as far as maxTurns + 12.
LEMMA CommandProgresses ==
    ASSUME NEW st, GameInv(st), OpenedByUse(st), NEW t, GameInv(t), Commanded(t, st), t # st
    PROVE  progress(t) > progress(st) /\ progress(t) <= maxTurns + 12
<1> DEFINE s == st.activeSeat
<1>1. st \in GameState /\ s \in Seats /\ t \in GameState
  BY DEF GameInv, GameState
<1>2. \A p \in Seats : st.powerups[p] \in PlayerPowerups /\ t.powerups[p] \in PlayerPowerups
  BY <1>1 DEF GameState
<1>3. progress(t) <= maxTurns + 12
  <2> DEFINE o == otherSeat(s)
  <2>1. o \in Seats
    BY <1>1 DEF otherSeat, Seats
  <2>2. /\ progress(t) = t.turnCount + spentBy(t.powerups[s]) + spentBy(t.powerups[o])
        /\ t.turnCount \in 0 .. maxTurns /\ maxTurns \in Nat
        /\ \A p \in Seats : spentBy(t.powerups[p]) \in 0 .. 6
    BY <1>1, ProgressOf
  <2> HIDE DEF s, o
  <2> QED BY <1>1, <2>1, <2>2
<1> HIDE DEF s
<1>4. ASSUME NEW powerup \in Powerups, Activated(t, st, s, powerup)
      PROVE  progress(t) > progress(st)
  <2>1. spentBy(t.powerups[s]) > spentBy(st.powerups[s])
    BY <1>1, <1>2, <1>4, SpentByUse DEF Activated
  <2>2. /\ \A p \in Seats : p # s => t.powerups[p] = st.powerups[p]
        /\ t.turnCount = st.turnCount
    BY <1>4 DEF Activated, OthersAsIs, SameTurn
  <2> QED BY <1>1, <2>1, <2>2, ProgressKept
<1>5. ASSUME NEW w \in GameState, Aimed(w, st, s)
      PROVE  progress(w) > progress(st)
  <2>1. w.powerups[s] \in PlayerPowerups
    BY <1>1 DEF GameState
  <2>2. spentBy(w.powerups[s]) > spentBy(st.powerups[s])
    BY <1>1, <1>2, <1>5, <2>1, SpentRises DEF Aimed, OpenedByUse
  <2>3. /\ \A p \in Seats : p # s => w.powerups[p] = st.powerups[p]
        /\ w.turnCount = st.turnCount
    BY <1>5 DEF Aimed, OthersAsIs, SameTurn
  <2> QED BY <1>1, <2>2, <2>3, ProgressKept
<1>6. ASSUME NEW q \in Seats, Lowered(t, st, q)
      PROVE  progress(t) > progress(st)
  <2>1. st.powerups[q].revealActive
    BY <1>6 DEF Lowered
  <2>2. spentBy(t.powerups[q]) > spentBy(st.powerups[q])
    BY <1>2, <1>6, <2>1, SpentRises DEF Lowered, OpenedByUse
  <2>3. /\ \A p \in Seats : p # q => t.powerups[p] = st.powerups[p]
        /\ t.turnCount = st.turnCount
    BY <1>6 DEF Lowered, OthersAsIs, SameTurn
  <2> QED BY <1>1, <2>2, <2>3, ProgressKept
<1>7. ASSUME NEW w, GameInv(w), SameTurn(w, st), w = st \/ Aimed(w, st, s),
             NEW l \in Locations, NEW y \in Symbols, t \in place(w, s, l, y)
      PROVE  progress(t) > progress(st)
  <2>1. w.phase = "active" /\ s = w.activeSeat /\ w \in GameState
    BY <1>7 DEF SameTurn, Commanded, s, GameInv
  <2>2. progress(w) >= progress(st)
    <3>1. progress(w) \in Int /\ progress(st) \in Int
      BY <1>1, <2>1, ProgressType
    <3> QED BY <1>5, <1>7, <2>1, <3>1
  <2>3. /\ ~w.powerups[s].shieldSelectionPending
        /\ \E u : /\ Landed(u, w, s, l, y)
                  /\ \/ t = u /\ u.powerups[s].extraTurnInProgress
                     \/ \E k \in 1 .. maxTurns - u.turnCount : Passed(t, u, k)
    BY <1>1, <1>7, <2>1, PlaceLands
  <2>4. PICK u : /\ Landed(u, w, s, l, y)
                 /\ \/ t = u /\ u.powerups[s].extraTurnInProgress
                    \/ \E k \in 1 .. maxTurns - u.turnCount : Passed(t, u, k)
    BY <2>3
  <2> DEFINE mine == u.powerups[s]
             old == w.powerups[s]
  <2>5. /\ u \in GameState /\ u.turnCount = w.turnCount
        /\ \A p \in Seats : p # s => u.powerups[p] = w.powerups[p]
        /\ mine.used = old.used
        /\ ~mine.revealActive /\ ~mine.extraTurnArmed /\ ~mine.shieldSelectionPending
        /\ mine.extraTurnInProgress => old.extraTurnArmed
    BY <2>4 DEF Landed, SameTurn
  <2>6. mine \in PlayerPowerups /\ old \in PlayerPowerups
    BY <1>1, <2>1, <2>5 DEF GameState
  <2>7. /\ spentBy(mine) >= spentBy(old)
        /\ "extraTurn" \in old.used /\ old.extraTurnArmed => spentBy(mine) > spentBy(old)
    BY <2>5, <2>6, SpentRises
  <2>8. old.extraTurnArmed => "extraTurn" \in old.used
    BY <1>1, <1>7 DEF GameInv, ExtraTurnSoundIn
  <2> HIDE DEF mine, old
  <2>9. /\ progress(u) >= progress(w)
        /\ mine.extraTurnInProgress => progress(u) > progress(w)
    BY <1>1, <2>1, <2>5, <2>7, <2>8, ProgressKept DEF mine, old
  <2>10. progress(u) \in Int /\ progress(w) \in Int /\ progress(st) \in Int
    BY <1>1, <2>1, <2>5, ProgressType
  <2>11. CASE t = u /\ mine.extraTurnInProgress
    BY <2>2, <2>9, <2>10, <2>11
  <2>12. ASSUME NEW k \in 1 .. maxTurns - u.turnCount, Passed(t, u, k)
         PROVE  progress(t) > progress(st)
    <3>1. t.powerups = u.powerups /\ t.turnCount = u.turnCount + k
      BY <2>12 DEF Passed
    <3>2. u.turnCount \in Nat /\ \A p \in Seats : spentBy(u.powerups[p]) \in Nat
      BY <2>5, ProgressType
    <3>6. k \in Nat /\ k >= 1
      BY <2>5, <3>2, MaxTurnsType
    <3>3. 0 \in Seats /\ 1 \in Seats
      BY DEF Seats
    <3>4. progress(t) > progress(u)
      BY <3>1, <3>2, <3>3, <3>6 DEF progress
    <3>5. progress(t) \in Int
      BY <1>1, ProgressType
    <3> QED BY <2>2, <2>9, <2>10, <3>4, <3>5
  <2> QED BY <2>4, <2>11, <2>12 DEF mine
<1> QED BY <1>1, <1>3, <1>4, <1>5, <1>6, <1>7 DEF Commanded, s

\* No game outlasts its budget: every command that changes it uses up a turn or a power-up.
THEOREM GamesAreBounded == Spec => CommandsRunOut
<1> DEFINE Further == progress(game') > progress(game) /\ progress(game') <= maxTurns + 12
<1>1. /\ GameInv(game) /\ GameInv(game)' /\ OpenedByUse(game) /\ [Next]_game
      => [Further]_game
  <2> SUFFICES ASSUME GameInv(game), GameInv(game'), OpenedByUse(game), Next, game' # game
               PROVE  Further
    BY DEF GameInv
  <2> QED BY StepIsCommanded, CommandProgresses
<1> QED BY <1>1, GameInvariant, OpenedInvariant, PTL DEF Spec, CommandsRunOut

-----------------------------------------------------------------------------

(* Lines.                                                                    *)

\* A set of numbers that is not empty has a least one.
LEMMA LeastExists ==
    ASSUME NEW T, T \subseteq Nat, T # {}
    PROVE  \E m \in T : \A k \in T : m <= k
<1>1. \E m \in T : \A k \in T : ~(<<k, m>> \in OpToRel(<, Nat))
  BY NatLessThanWellFounded, WFMin
<1>2. \A k, m \in Nat : ~(<<k, m>> \in OpToRel(<, Nat)) => m <= k
  BY DEF OpToRel
<1> QED BY <1>1, <1>2

\* What a line unlocks is one of the power-ups of the symbols it could be a line of.
LEMMA UnlockedByLine ==
    ASSUME NEW st, NEW s, NEW i, NEW powerup
    PROVE  powerup \in lineUnlocks(st, s, i) <=>
            /\ powerup \in AllowedPowerups /\ powerup \notin st.powerups[s].unlocked
            /\ \E x \in Symbols : /\ powerup = PowerupBySymbol[x]
                                  /\ lineOf(st, s, WinningPatterns[i], x)
BY DEF lineUnlocks

\* Every complete line of seat s is claimed.
Claimed(st, s) == \A i \in DOMAIN WinningPatterns : lineUnlocks(st, s, i) = {}

\* A seat that loses pieces, gains none and keeps what it unlocked has every line claimed
\* if it had before.
LEMMA LinesShrink ==
    ASSUME NEW st, NEW t, NEW s, Claimed(st, s),
           st.powerups[s].unlocked \subseteq t.powerups[s].unlocked,
           \A m \in Locations : t.boards[s][m].symbol \in {st.boards[s][m].symbol, NoSymbol}
    PROVE  Claimed(t, s)
<1> SUFFICES ASSUME NEW i \in DOMAIN WinningPatterns, NEW powerup \in lineUnlocks(t, s, i)
             PROVE  FALSE
  BY DEF Claimed
<1>1. WinningPatterns[i] \subseteq Locations
  BY TopologyAssumption
<1>2. PICK x \in Symbols : /\ powerup = PowerupBySymbol[x]
                           /\ lineOf(t, s, WinningPatterns[i], x)
  BY UnlockedByLine
<1>3. powerup \in AllowedPowerups /\ powerup \notin t.powerups[s].unlocked
  BY UnlockedByLine
<1>4. x # NoSymbol
  BY DEF Symbols, NoSymbol
<1>5. lineOf(st, s, WinningPatterns[i], x)
  BY <1>1, <1>2, <1>4 DEF lineOf
<1>6. powerup \in lineUnlocks(st, s, i)
  BY <1>2, <1>3, <1>5, UnlockedByLine
<1> QED BY <1>6 DEF Claimed

\* After a seat has put a piece down at one location, claiming leaves no line unclaimed:
\* the lines that are new go through that location, so they are lines of one symbol and
\* unlock one power-up, which the first of them does.
LEMMA ClaimClaims ==
    ASSUME PowerupsEnabled, NEW st, NEW next \in GameState, NEW s \in Seats, Claimed(st, s),
           next.powerups[s].unlocked = st.powerups[s].unlocked,
           NEW l \in Locations, NEW y \in Symbols,
           next.boards[s][l].symbol \in {y, NoSymbol},
           \A m \in Locations : m # l => next.boards[s][m].symbol = st.boards[s][m].symbol
    PROVE  Claimed(maybeUnlockPowerup(next, s), s)
<1> DEFINE first == {i \in DOMAIN WinningPatterns :
                        /\ lineUnlocks(next, s, i) # {}
                        /\ \A j \in 1 .. i - 1 : lineUnlocks(next, s, j) = {}}
           old == next.powerups[s]
           more == UNION {lineUnlocks(next, s, i) : i \in first}
           t == maybeUnlockPowerup(next, s)
<1>1. old \in PlayerPowerups /\ next.powerups \in [Seats -> PlayerPowerups]
  BY DEF GameState
<1>2. /\ t.boards = next.boards
      /\ t.powerups[s].unlocked = old.unlocked \cup more
  <2> DEFINE mine == [old EXCEPT !.unlocked = old.unlocked \cup more]
  <2>1. t = [next EXCEPT !.powerups = [next.powerups EXCEPT ![s] = mine]]
    BY DEF maybeUnlockPowerup
  <2> HIDE DEF first, more, old
  <2>2. mine.unlocked = old.unlocked \cup more
    BY <1>1 DEF PlayerPowerups
  <2> HIDE DEF mine, t
  <2> QED BY <1>1, <2>1, <2>2 DEF GameState
<1>3. ASSUME NEW i \in DOMAIN WinningPatterns, NEW powerup \in lineUnlocks(next, s, i)
      PROVE  powerup = PowerupBySymbol[y]
  <2>1. WinningPatterns[i] \subseteq Locations
    BY TopologyAssumption
  <2>2. PICK x \in Symbols : /\ powerup = PowerupBySymbol[x]
                             /\ lineOf(next, s, WinningPatterns[i], x)
    BY UnlockedByLine
  <2>3. powerup \in AllowedPowerups /\ powerup \notin st.powerups[s].unlocked
    BY UnlockedByLine
  <2>4. l \in WinningPatterns[i]
    <3>1. SUFFICES ASSUME l \notin WinningPatterns[i]
                   PROVE  FALSE
      OBVIOUS
    <3>2. lineOf(st, s, WinningPatterns[i], x)
      BY <2>1, <2>2, <3>1 DEF lineOf
    <3>3. powerup \in lineUnlocks(st, s, i)
      BY <2>2, <2>3, <3>2, UnlockedByLine
    <3> QED BY <3>3 DEF Claimed
  <2>5. x # NoSymbol
    BY DEF Symbols, NoSymbol
  <2>6. x = y
    BY <2>2, <2>4, <2>5 DEF lineOf
  <2> QED BY <2>2, <2>6
<1> SUFFICES ASSUME NEW i \in DOMAIN WinningPatterns, NEW powerup \in lineUnlocks(t, s, i)
             PROVE  FALSE
  BY DEF Claimed
<1>4. /\ powerup \in lineUnlocks(next, s, i) /\ powerup \notin more
  <2> HIDE DEF more, t, old
  <2>1. /\ powerup \in AllowedPowerups /\ powerup \notin t.powerups[s].unlocked
        /\ \E x \in Symbols : /\ powerup = PowerupBySymbol[x]
                              /\ lineOf(t, s, WinningPatterns[i], x)
    BY UnlockedByLine
  <2>2. \A x : lineOf(t, s, WinningPatterns[i], x) => lineOf(next, s, WinningPatterns[i], x)
    BY <1>2 DEF lineOf
  <2>3. powerup \in lineUnlocks(next, s, i)
    BY <1>2, <2>1, <2>2, UnlockedByLine DEF old
  <2> QED BY <1>2, <2>1, <2>3
<1> DEFINE open == {j \in DOMAIN WinningPatterns : lineUnlocks(next, s, j) # {}}
<1>5. DOMAIN WinningPatterns = 1 .. Len(WinningPatterns) /\ Len(WinningPatterns) \in Nat
  BY TopologyAssumption
<1>6. PICK j \in open : \A k \in open : j <= k
  <2>1. open \subseteq Nat /\ open # {}
    BY <1>4, <1>5
  <2> HIDE DEF open
  <2> QED BY <2>1, LeastExists
<1>7. j \in first
  BY <1>5, <1>6
<1>8. lineUnlocks(next, s, j) = {PowerupBySymbol[y]}
  BY <1>3, <1>6
<1>9. powerup = PowerupBySymbol[y]
  BY <1>3, <1>4
<1>10. powerup \in more
  BY <1>7, <1>8, <1>9
<1> QED BY <1>4, <1>10

\* A placement leaves every line of its seat claimed.
LEMMA PlacedClaims ==
    ASSUME PowerupsEnabled, NEW st, GameInv(st), NEW s \in Seats, Claimed(st, s),
           NEW l \in Locations, NEW y \in Symbols, isPlayable(st.boards[s][l])
    PROVE  Claimed(placed(st, s, l, y), s)
<1> DEFINE met == [p \in Seats |-> IF p = s
                                   THEN [st.boards[p][l] EXCEPT !.symbol = y]
                                   ELSE st.boards[p][l]]
           settled == resolveConflict(met)
           boards == [p \in Seats |-> [st.boards[p] EXCEPT ![l] = settled[p]]]
           old == st.powerups[s]
           mine == [old EXCEPT !.revealActive = FALSE]
           next == [st EXCEPT !.boards = boards,
                              !.powerups = [st.powerups EXCEPT ![s] = mine]]
<1>1. /\ st \in GameState /\ st.powerups \in [Seats -> PlayerPowerups]
      /\ old \in PlayerPowerups
  BY DEF GameInv, GameState
<1>2. placed(st, s, l, y) = maybeUnlockPowerup(next, s)
  BY DEF placed
<1> HIDE DEF boards, old
<1>3. mine \in PlayerPowerups /\ mine.unlocked = old.unlocked
  BY <1>1 DEF PlayerPowerups
<1> HIDE DEF mine
<1>4. next.boards = boards /\ next.powerups = [st.powerups EXCEPT ![s] = mine]
  BY <1>1 DEF GameState
<1>5. maybeUnlockPowerup(next, s).boards = next.boards
  <2> HIDE DEF next
  <2> QED BY DEF maybeUnlockPowerup
<1>6. /\ placed(st, s, l, y) \in GameState
      /\ Struck(placed(st, s, l, y).boards, st.boards, s, l, y)
  BY <1>1, PiecePlaced, PieceStrikes
<1>7. boards \in [Seats -> [Locations -> LocationState]]
  BY <1>2, <1>4, <1>5, <1>6 DEF GameState
<1>8. next \in GameState
  BY <1>1, <1>3, <1>7 DEF GameState
<1>9. next.powerups[s].unlocked = st.powerups[s].unlocked
  BY <1>1, <1>3, <1>4 DEF old
<1> HIDE DEF next
<1>10. /\ next.boards[s][l].symbol \in {y, NoSymbol}
       /\ \A m \in Locations : m # l => next.boards[s][m].symbol = st.boards[s][m].symbol
  BY <1>2, <1>5, <1>6 DEF Struck
<1> QED BY <1>2, <1>8, <1>9, <1>10, ClaimClaims

\* A command leaves every line of both seats claimed.
LEMMA CommandClaims ==
    ASSUME PowerupsEnabled, NEW st, GameInv(st), \A p \in Seats : Claimed(st, p),
           NEW t, Commanded(t, st)
    PROVE  \A p \in Seats : Claimed(t, p)
<1> DEFINE s == st.activeSeat
<1>1. s \in Seats
  BY DEF GameInv, GameState
<1> HIDE DEF s
<1>2. ASSUME NEW w, NEW q \in Seats, OthersAsIs(w, st, q),
             \A p \in Seats, m \in Locations : w.boards[p][m].symbol = st.boards[p][m].symbol
      PROVE  \A p \in Seats : Claimed(w, p)
  <2> SUFFICES ASSUME NEW p \in Seats
               PROVE  Claimed(w, p)
    OBVIOUS
  <2>1. w.powerups[p].unlocked = st.powerups[p].unlocked
    BY <1>2 DEF OthersAsIs
  <2> QED BY <1>2, <2>1, LinesShrink
<1>3. ASSUME NEW powerup \in Powerups, Activated(t, st, s, powerup)
      PROVE  \A p \in Seats : Claimed(t, p)
  BY <1>1, <1>2, <1>3 DEF Activated
<1>4. ASSUME NEW w, Aimed(w, st, s)
      PROVE  \A p \in Seats : Claimed(w, p)
  BY <1>1, <1>2, <1>4 DEF Aimed
<1>5. ASSUME NEW q \in Seats, Lowered(t, st, q)
      PROVE  \A p \in Seats : Claimed(t, p)
  BY <1>2, <1>5 DEF Lowered
<1>6. ASSUME NEW w, GameInv(w), SameTurn(w, st), w = st \/ Aimed(w, st, s),
             NEW l \in Locations, NEW y \in Symbols, t \in place(w, s, l, y),
             NEW p \in Seats
      PROVE  Claimed(t, p)
  <2> DEFINE next == placed(w, s, l, y)
  <2>1. \A q \in Seats : Claimed(w, q)
    BY <1>4, <1>6
  <2>2. w.phase = "active" /\ s = w.activeSeat
    BY <1>6 DEF SameTurn, Commanded, s
  <2>3. /\ isPlayable(w.boards[s][l]) /\ Struck(next.boards, w.boards, s, l, y)
        /\ \E u : Landed(u, w, s, l, y) /\ (t = u \/ \E k : Passed(t, u, k))
    BY <1>1, <1>6, <2>2, PlaceLands
  <2>4. Claimed(next, s)
    BY <1>1, <1>6, <2>1, <2>3, PlacedClaims
  <2> HIDE DEF next
  <2>5. PICK u : Landed(u, w, s, l, y) /\ (t = u \/ \E k : Passed(t, u, k))
    BY <2>3
  <2>6. /\ t.powerups = u.powerups
        /\ \A m \in Locations : t.boards[p][m].symbol = u.boards[p][m].symbol
    BY <2>5 DEF Passed
  <2>7. u.boards = next.boards
    BY <2>5 DEF Landed, next
  <2>8. CASE p = s
    <3>1. t.powerups[s].unlocked = next.powerups[s].unlocked
      BY <2>5, <2>6 DEF Landed, next
    <3>2. \A m \in Locations : t.boards[s][m].symbol = next.boards[s][m].symbol
      BY <2>6, <2>7, <2>8
    <3> QED BY <2>4, <2>8, <3>1, <3>2, LinesShrink
  <2>9. CASE p # s
    <3>1. t.powerups[p] = w.powerups[p]
      BY <2>5, <2>6, <2>9 DEF Landed
    <3>2. p = otherSeat(s)
      BY <1>1, <2>9 DEF Seats, otherSeat
    <3>3. \A m \in Locations : u.boards[p][m].symbol \in {w.boards[p][m].symbol, NoSymbol}
      BY <2>3, <2>7, <3>2 DEF Struck
    <3> QED BY <2>1, <2>6, <3>1, <3>3, LinesShrink
  <2> QED BY <2>8, <2>9
<1> QED BY <1>3, <1>4, <1>5, <1>6 DEF Commanded, s

\* No complete line is ever left unclaimed.
THEOREM LinesStayClaimed == Spec => []LinesClaimed
<1> DEFINE All == PowerupsEnabled => \A p \in Seats : Claimed(game, p)
<1>1. All <=> LinesClaimed
  BY DEF Claimed, LinesClaimed
<1>2. Init => All
  <2> SUFFICES ASSUME NEW first \in Seats, game = createGame(first), NEW p \in Seats,
                      NEW i \in DOMAIN WinningPatterns, NEW powerup \in lineUnlocks(game, p, i)
               PROVE  FALSE
    BY DEF Init, Claimed
  <2>1. PICK x \in Symbols : lineOf(game, p, WinningPatterns[i], x)
    BY UnlockedByLine
  <2>2. WinningPatterns[i] \subseteq Locations /\ WinningPatterns[i] # {}
    BY TopologyAssumption
  <2>3. \A m \in Locations : game.boards[p][m].symbol = NoSymbol
    BY DEF createGame, createBoard
  <2> QED BY <2>1, <2>2, <2>3 DEF lineOf, Symbols, NoSymbol
<1>3. GameInv(game) /\ All /\ [Next]_game => All'
  <2> SUFFICES ASSUME GameInv(game), All, [Next]_game, PowerupsEnabled
               PROVE  \A p \in Seats : Claimed(game', p)
    BY DEF Claimed, lineUnlocks, lineOf
  <2>1. CASE Next
    BY <2>1, StepIsCommanded, CommandClaims
  <2>2. CASE UNCHANGED game
    BY <2>2
  <2> QED BY <2>1, <2>2
<1> QED BY <1>1, <1>2, <1>3, GameInvariant, PTL DEF Spec
=============================================================================

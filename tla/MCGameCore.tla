---------------------------- MODULE MCGameCore ----------------------------
(* Small instances of the reducer: three cells in a row, with two lines that *)
(* overlap, which can be completed, broken and completed again, or with one. *)
EXTENDS GameCoreTurns

MCLocations == 1 .. 3
MCWinningPatterns == << {1, 2}, {2, 3} >>
MCOnePattern == << {1, 2} >>

MCPowerupBySymbol == [rock |-> "shield", paper |-> "reveal", scissors |-> "extraTurn"]
MCAllowed == {"shield", "reveal", "extraTurn"}

(* One of the two games: the rules treat the seats alike but for the order in *)
(* which resolveConflict looks at them, and both seats attack in either game. *)
MCInit == Init /\ game.firstSeat = 0
MCClockSpec == MCInit /\ [][Next]_game /\ ClockRuns
=============================================================================

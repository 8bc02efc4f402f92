--------------------------- MODULE GameCoreTurns ---------------------------
(* The refinement mapping from the reducer to the turn structure the match   *)
(* authority relies on.                                                      *)
EXTENDS GameCore

\* a shield takes two commands: one to activate it and one to aim it
setupsOf(p) ==
    (IF "shield" \in p.used THEN 1 ELSE 0)
    + (IF "shield" \in p.used /\ ~p.shieldSelectionPending THEN 1 ELSE 0)

turnsIn(st) ==
    [phase |-> st.phase,
     activeSeat |-> st.activeSeat,
     turnCount |-> st.turnCount,
     revealed |-> {s \in Seats : "reveal" \in st.powerups[s].used},
     extended |-> {s \in Seats : "extraTurn" \in st.powerups[s].used},
     revealActive |-> {s \in Seats : st.powerups[s].revealActive},
     extraTurnArmed |-> {s \in Seats : st.powerups[s].extraTurnArmed},
     extraTurnInProgress |-> {s \in Seats : st.powerups[s].extraTurnInProgress},
     setups |-> [s \in Seats |-> setupsOf(st.powerups[s])]]

turnsOfGame == turnsIn(game)

Turns == INSTANCE GameTurns WITH
    MaxTurns <- maxTurns, SetupBudget <- 2, turns <- turnsOfGame

\* Every command of the reducer is one the turn structure allows: a placement
\* ends the turn or is the first half of the seat's only extra turn, a pass
\* hands the turn on, and no other command moves it.
ImplementsTurns == Turns!Spec
=============================================================================

----------------------------- MODULE GameTurns -----------------------------
(* The abstract game: turns taken by two seats, as TurnRules has them.       *)
(* GameCore implements this specification (GameCoreTurns).                   *)
EXTENDS TurnRules

VARIABLE turns

mayAct(s) == turns.phase = "active" /\ s = turns.activeSeat

Place(s)     == mayAct(s) /\ turns' \in turnPlaced(turns)
SetUp(s)     == mayAct(s) /\ turns' \in setUp(turns)
Reveal(s)    == mayAct(s) /\ turns' \in reveal(turns)
ArmExtraTurn(s) == mayAct(s) /\ turns' \in armExtraTurn(turns)
EndReveal(s) == turns.phase = "active" /\ turns' \in endReveal(turns, s)
Timeout      == turns.phase = "active" /\ turns' \in timedOut(turns)

Init == \E first \in Seats : turns = newTurns(first)

Next ==
    \/ Timeout
    \/ \E s \in Seats : Place(s) \/ SetUp(s) \/ Reveal(s) \/ ArmExtraTurn(s) \/ EndReveal(s)

Spec == Init /\ [][Next]_turns
=============================================================================

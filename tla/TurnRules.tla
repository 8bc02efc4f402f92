----------------------------- MODULE TurnRules -----------------------------
(* What the reducer of packages/game-core promises to the code that drives   *)
(* it: whose turn it is, when a turn is used up, when the game is over, and  *)
(* the flags of PlayerPowerups the match authority reads.  Boards, pieces    *)
(* and scores are left out.  GameTurns is the state machine these rules make, *)
(* which GameCore implements; MatchRun is the authority built over them.     *)
EXTENDS Integers, FiniteSets

CONSTANTS
    MaxTurns,      \* state.maxTurns
    SetupBudget    \* the accepted commands that set up a seat's shield: 2, to
                   \* activate and to aim it

ASSUME TurnsAssumption == MaxTurns \in Nat \ {0} /\ SetupBudget \in Nat

Seats == {0, 1}
otherSeat(s) == 1 - s

TurnState ==
    [phase : {"active", "finished"},
     activeSeat : Seats,
     turnCount : 0 .. MaxTurns,
     revealed : SUBSET Seats,             \* the seats that have used reveal
     extended : SUBSET Seats,             \* the seats that have used extraTurn
     revealActive : SUBSET Seats,         \* the seats whose flag is set
     extraTurnArmed : SUBSET Seats,
     extraTurnInProgress : SUBSET Seats,
     setups : [Seats -> 0 .. SetupBudget]]

newTurns(first) ==
    [phase |-> "active", activeSeat |-> first, turnCount |-> 0,
     revealed |-> {}, extended |-> {}, revealActive |-> {},
     extraTurnArmed |-> {}, extraTurnInProgress |-> {},
     setups |-> [s \in Seats |-> 0]]

-----------------------------------------------------------------------------
(* What each command of the active seat may do to the turns.                 *)

\* the turn and k - 1 passes after it are used up; the last turn of the game is
\* not handed on
turnEnded(st, k) ==
    LET over == st.turnCount + k = MaxTurns
        s    == st.activeSeat
    IN  [st EXCEPT
            !.turnCount = @ + k,
            !.phase = IF over THEN "finished" ELSE "active",
            !.activeSeat = IF over = (k % 2 = 1) THEN s ELSE otherSeat(s),
            !.extraTurnArmed = @ \ {s},
            !.extraTurnInProgress = @ \ {s}]

\* the first of an extra turn's two placements keeps the turn
firstHalf(st) ==
    [st EXCEPT !.extraTurnArmed = @ \ {st.activeSeat},
               !.extraTurnInProgress = @ \cup {st.activeSeat}]

\* an extra turn the board has no room for is over at once
turnPlaced(st) ==
    LET s       == st.activeSeat
        lowered == [st EXCEPT !.revealActive = @ \ {s}]
    IN  {turnEnded(lowered, k) : k \in 1 .. MaxTurns - st.turnCount}
            \cup (IF s \in st.extraTurnArmed THEN {firstHalf(lowered)} ELSE {})

\* a shield is activated, or aimed
setUp(st) ==
    IF st.setups[st.activeSeat] < SetupBudget
    THEN {[st EXCEPT !.setups[st.activeSeat] = @ + 1]}
    ELSE {}

reveal(st) ==
    IF st.activeSeat \in st.revealed THEN {}
    ELSE {[st EXCEPT !.revealed = @ \cup {st.activeSeat},
                     !.revealActive = @ \cup {st.activeSeat}]}

armExtraTurn(st) ==
    IF st.activeSeat \in st.extended THEN {}
    ELSE {[st EXCEPT !.extended = @ \cup {st.activeSeat},
                     !.extraTurnArmed = @ \cup {st.activeSeat}]}

\* from either seat, and inert when the reveal is already down
endReveal(st, s) == {[st EXCEPT !.revealActive = @ \ {s}]}

\* a timeout aims an owed shield and places
timedOut(st) == turnPlaced(st) \cup UNION {turnPlaced(w) : w \in setUp(st)}
=============================================================================

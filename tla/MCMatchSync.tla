---------------------------- MODULE MCMatchSync ----------------------------
(* Small instances of a room and its two clients.                            *)
EXTENDS MatchSync

MCFourAndOne == [s \in Seats |-> IF s = 0 THEN 4 ELSE 1]
MCTwoAndOne   == [s \in Seats |-> IF s = 0 THEN 2 ELSE 1]
MCOneEach     == [s \in Seats |-> 1]
=============================================================================

---------------------------- MODULE Connection ----------------------------
(* What the server promises one connection, whatever the others do: the      *)
(* abstract specification of a session.  Lobby implements it for each of its *)
(* sockets (Lobby!ImplementsConnections), and Pages runs the browser against *)
(* it.                                                                       *)
EXTENDS Places

VARIABLE conn     \* [state, at]

fresh == [state |-> "none", at |-> "out"]

served == conn.state \in {"open", "closing"}

Opens == conn = fresh /\ conn' = [fresh EXCEPT !.state = "open"]

\* its client's packets; a refused one closes it
Handle(packet) ==
    /\ served /\ onePurpose(packet, conn.at)
    /\ IF refused(packet, conn.at)
       THEN conn' = [conn EXCEPT !.state = "closing"]
       ELSE \E at \in handled(packet, conn.at) : conn' = [conn EXCEPT !.at = at]

\* a frame that is not binary or does not decode, or one too many in a second
Violates == served /\ conn' = [conn EXCEPT !.state = "closing"]

\* another player's packet: a match for one that waits for it ...
Matched == served /\ conn.at \in {"queued", "hosting"} /\ conn' = [conn EXCEPT !.at = "room"]

\* ... or the end of the room
LeftBehind == served /\ conn.at = "room" /\ conn' = [conn EXCEPT !.at = "out"]

Ends == served /\ conn' = [fresh EXCEPT !.state = "gone"]

Next ==
    \/ Opens \/ Violates \/ Matched \/ LeftBehind \/ Ends
    \/ \E packet \in Packets : Handle(packet)

Init == conn = fresh

Step == UNCHANGED conn \/ Next

Spec == Init /\ [][Next]_conn
=============================================================================

------------------------------ MODULE Places ------------------------------
(* Where one connection stands in the server, and what each packet of its    *)
(* client does to that: the part of gameHandler.ts that its client can see.  *)
EXTENDS Naturals, Sequences, FiniteSets

\* no room; the room 'lobby'; there, in the queue or with a game in the list; a match
At == {"out", "lobby", "queued", "hosting", "room"}

waiting == {"lobby", "queued"}

Packets ==
    {"name", "join", "search", "unsearch", "create", "unlist", "enter", "subscribe",
     "ready", "leave"}

\* The packets that a connection in the wrong place is closed for.
refused(packet, at) ==
    \/ packet \in {"create", "enter"} /\ at \in {"out", "room"}
    \/ packet = "ready" /\ at # "room"

\* A connection that hosts a game neither queues nor enters another.
onePurpose(packet, at) == ~(packet \in {"search", "enter"} /\ at = "hosting")

\* The places a packet may leave its connection in.  An opponent may be there
\* already, a code may be unknown.
handled(packet, at) ==
    CASE packet = "join" /\ at = "out"            -> {"lobby"}
      [] packet = "search" /\ at \in waiting      -> {"queued", "room"}
      [] packet = "unsearch" /\ at = "queued"     -> {"lobby"}
      [] packet = "create" /\ at \in waiting      -> {"hosting"}
      [] packet = "unlist" /\ at = "hosting"      -> {"lobby"}
      [] packet = "enter" /\ at \in waiting       -> {at, "room"}
      [] packet = "leave"                         -> {"out"}
      [] OTHER                                    -> {at}
=============================================================================

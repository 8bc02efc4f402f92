----------------------------- MODULE MCProcess ------------------------------
(* Process for TLC.  Four scenes: three connections, two of them perhaps with *)
(* a cookie, around a limit of two; an account that changes and a peer that   *)
(* vanishes; two guests whose matches finish while the database fails; and    *)
(* two processes that migrate while the server starts.                        *)
EXTENDS Process

CONSTANTS c1, c2, c3, m1, m2

still == [conns |-> {}, accounts |-> {}, fragile |-> {}, unsettled |-> {},
          matches |-> 0, migrators |-> {}]

MCScenes ==
    {[still EXCEPT !.conns = {c1, c2, c3}, !.accounts = {c1, c2}],
     [still EXCEPT !.conns = {c1, c2}, !.accounts = {c1}, !.fragile = {c1, c2},
                   !.unsettled = {c1}],
     [still EXCEPT !.conns = {c1, c2}, !.matches = Matches],
     [still EXCEPT !.migrators = {m1, m2}]}
=============================================================================

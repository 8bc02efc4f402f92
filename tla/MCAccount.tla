----------------------------- MODULE MCAccount -----------------------------
(* Small budgets, one for each part of the page and one for each meeting of  *)
(* two parts.                                                                *)
EXTENDS Account

budget(auth, history, admin, play, fault, world) ==
    [auth |-> auth, history |-> history, admin |-> admin, play |-> play,
     fault |-> fault, world |-> world]

MCBudgets ==
    {budget(2, 0, 0, 1, 1, 0), budget(2, 0, 0, 1, 0, 1), budget(2, 0, 0, 0, 1, 1),
     budget(3, 0, 0, 1, 0, 0), budget(3, 0, 0, 0, 1, 0),
     budget(3, 0, 0, 0, 0, 1), budget(3, 1, 0, 0, 0, 0), budget(0, 4, 0, 0, 1, 0),
     budget(0, 3, 0, 0, 1, 1), budget(1, 2, 0, 1, 0, 1), budget(0, 0, 4, 0, 1, 0),
     budget(0, 0, 3, 1, 0, 1), budget(1, 0, 3, 1, 0, 0)}
=============================================================================

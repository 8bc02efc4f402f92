------------------------------ MODULE MCPages ------------------------------
(* Two sockets: one that may be left behind, lost or still closing, and one  *)
(* that is opened meanwhile.                                                 *)
EXTENDS Pages
=============================================================================

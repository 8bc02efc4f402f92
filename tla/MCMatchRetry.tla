---------------------------- MODULE MCMatchRetry ----------------------------
(* A small instance of a run whose clients repeat themselves: one answer is  *)
(* cached, so a client's second accepted command evicts its first.           *)
EXTENDS MatchRetry

MCThreeAndNone == [s \in Seats |-> IF s = 0 THEN 3 ELSE 0]
=============================================================================

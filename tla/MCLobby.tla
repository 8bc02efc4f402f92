------------------------------ MODULE MCLobby ------------------------------
(* Three connections, two of them of one account, in two tabs.               *)
EXTENDS Lobby

CONSTANTS s1, s2, s3, c1, c2, ann

MCSockets == {s1, s2, s3}
MCCodes == {c1, c2}
MCAccounts == {ann}
MCAccountOf == [s \in Sockets |-> IF s = s3 THEN Guest ELSE ann]

\* the two tabs of one account are alike, and so are the codes
MCSymmetry == Permutations({s1, s2}) \cup Permutations(MCCodes)
=============================================================================

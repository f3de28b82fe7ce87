------------------------------ MODULE MCPeers ------------------------------
(* One device of the peer, two sends, one message from it and one reset; the *)
(* sends are alike.                                                          *)
EXTENDS Peers, TLC

CONSTANTS d1, s1, s2, r1, x1
Symmetry == Permutations({s1, s2})
=============================================================================

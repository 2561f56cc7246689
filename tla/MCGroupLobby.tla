---------------------------- MODULE MCGroupLobby ----------------------------
(* GroupLobby for TLC: model values for the nodes and rooms. *)
EXTENDS GroupLobby, TLC

CONSTANTS n1, n2, r1, r2

MCNode == {n1, n2}
MCRoom == {r1}
MCTwoRooms == {r1, r2}
MCSymmetry == Permutations(MCNode)
=============================================================================

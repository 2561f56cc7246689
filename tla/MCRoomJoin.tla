----------------------------- MODULE MCRoomJoin -----------------------------
(* Instances of RoomJoin for TLC. *)
EXTENDS RoomJoin, TLC

CONSTANTS h1, h2, p1, p2

MCOneHost   == {h1}
MCHosts     == {h1, h2}
MCPlayers   == {p1, p2}
MCOnePlayer == {p1}
MCNobody    == {}
MCLocked    == {h1}
MCSymmetry  == Permutations({p1, p2})
=============================================================================

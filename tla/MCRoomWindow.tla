---------------------------- MODULE MCRoomWindow ----------------------------
(* RoomWindow for TLC: two groups; the host orders more than the other writes. *)
EXTENDS RoomWindow

CONSTANTS dht, ctz, h, o

MCGroup == {dht, ctz}
MCMaxSent == (h :> 3) @@ (o :> 1)
MCSymmetry == Permutations(MCGroup)
=============================================================================

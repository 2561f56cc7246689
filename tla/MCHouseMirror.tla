---------------------------- MODULE MCHouseMirror ----------------------------
(* HouseMirror for TLC: two peers in one group, one in the other, two ids. *)
EXTENDS HouseMirror, TLC

CONSTANTS n1, n2, n3, r1, dht, ctz

MCNode == {n1, n2, n3}
MCPeer == {<<dht, n1>>, <<dht, n2>>, <<ctz, n3>>}
MCRoom == {r1}
MCGroup == {dht, ctz}
MCId == {1, 2}
MCSymmetry == Permutations({n1, n2})
=============================================================================

---------------------------- MODULE MCMessenger ----------------------------
(* Messenger for TLC: the threads that send are model values. *)
EXTENDS Messenger

CONSTANTS s1, s2

MCSender == {s1, s2}
=============================================================================

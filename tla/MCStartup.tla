----------------------------- MODULE MCStartup -----------------------------
(* Startup for TLC: two users with a password each, who may be one person   *)
(* that tries another name.                                                 *)
EXTENDS Startup, TLC

CONSTANTS u, v, p, q, mine, theirs

MCCred == {[user |-> u, pass |-> p], [user |-> v, pass |-> q]}
MCMaxAsks == [login |-> 3, reg |-> 1]
MCAddr == {mine, theirs}
MCLists == {{theirs}, {mine, Bad}}
=============================================================================

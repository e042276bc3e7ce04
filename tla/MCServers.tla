----------------------------- MODULE MCServers -----------------------------
(* Instances of Servers for TLC: the turns, which differ only in their names. *)
EXTENDS Servers, TLC

CONSTANTS t1, t2, t3, v1, v2

TurnSymmetry == Permutations(Turns)
============================================================================

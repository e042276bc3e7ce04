----------------------------- MODULE MCConnMan -----------------------------
(* Instances of ConnMan for TLC. *)
EXTENDS ConnMan, TLC

CONSTANTS q1, q2, q3, q4, c1

RequestSymmetry == Permutations(Requests)
============================================================================

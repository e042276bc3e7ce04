---------------------------- MODULE MCVendorPool ----------------------------
(* Instances of VendorPool for TLC: the ladder and the runs' symmetry. *)
EXTENDS VendorPool, TLC

CONSTANTS r1, r2, r3, v1, v2

\* Two steps of the ladder are enough to tell a first failure from a later one and
\* to reach the cap; the jitter makes 1..3 and 2..6 ticks of them.
MCBackoffSteps == <<2, 4>>
RunSymmetry == Permutations({r1, r2})
=============================================================================

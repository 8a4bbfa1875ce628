----------------------------- MODULE MCFixedVec -----------------------------
(* FixedVec for TLC.  The elements that may panic are interchangeable, and  *)
(* so are the names of the vectors; no liveness is checked here.            *)
EXTENDS FixedVec, TLC

CONSTANTS a, b, c, v1, v2

Symmetry == Permutations({a, b}) \cup Permutations({v1, v2})
==============================================================================

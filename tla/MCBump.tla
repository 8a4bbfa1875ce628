------------------------------- MODULE MCBump -------------------------------
(* Bump for TLC: two bytes anywhere, and one byte at an even address, on a *)
(* storage that starts at an odd one, so that the first byte needs padding *)
(* and the last one can be reached exactly.                                *)
EXTENDS AllocationInfo

MCLayouts == {[size |-> 2, align |-> 1], [size |-> 1, align |-> 2]}
==============================================================================

------------------------------ MODULE MCBuffers ------------------------------
(* Two types that share a layout, one with another alignment.              *)
EXTENDS Fill

CONSTANTS i1, i2, i3

A == [name |-> "A", size |-> 4, align |-> 4]
B == [name |-> "B", size |-> 4, align |-> 4]
C == [name |-> "C", size |-> 4, align |-> 2]

MCItems == {i1, i2, i3}
MCTypes == {A, B, C}
MCTypeOf == i1 :> A @@ i2 :> A @@ i3 :> B

Symmetry == Permutations(HeapBlocks) \cup Permutations({i1, i2})
==============================================================================

------------------------------- MODULE MCBoxes -------------------------------
(* Boxes for TLC: types of no size, of one byte, of two bytes and of two     *)
(* aligned bytes, one of no size that has to be aligned, in an arena that    *)
(* starts at an odd address.                                                 *)
EXTENDS Boxes, TLC

CONSTANTS h1, h2, v1, v2

MCTypes == {Unit, [size |-> 0, align |-> 2], [size |-> 1, align |-> 1],
            [size |-> 2, align |-> 2]}
MCLayouts == {[size |-> 4, align |-> 1]}
MCTypeOf == v1 :> [size |-> 2, align |-> 2] @@ v2 :> [size |-> 1, align |-> 1]
MCLadder == {2, 4}

\* Bound: after a split at a byte put a pointer elsewhere, what is claimed still is
\* about pointers and not about values; none is moved in then.
PointersOnly == strayed => \A v \in Values : place[v] = WithCaller

Symmetry == Permutations(Handles)
==============================================================================

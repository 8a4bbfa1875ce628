------------------------------- MODULE MCChain -------------------------------
(* Chain for TLC: links of two words, boxes of one and of two words.        *)
EXTENDS Chain

CONSTANTS c1, c2, c3, l1, l2, l3

WordLayout == [size |-> 1, align |-> 1]
PairLayout == [size |-> 2, align |-> 2]

MCLayouts == {WordLayout, PairLayout}
==============================================================================

---------------------------- MODULE MCExitStack ----------------------------
(* ExitStack for TLC: a stack made for a four-word Mem, of which there are  *)
(* two values, so that one can replace the other; its storage also holds    *)
(* two or three smaller values.                                             *)
EXTENDS ExitStack, TLC

CONSTANTS a1, a2, b, c, d

MemLayout == [size |-> 4, align |-> 2]
PairLayout == [size |-> 2, align |-> 2]
WordLayout == [size |-> 1, align |-> 1]

MCLayouts == {MemLayout, PairLayout, WordLayout}

MCLayoutOf == a1 :> MemLayout @@ a2 :> MemLayout
                @@ b :> PairLayout @@ c :> WordLayout @@ d :> WordLayout
==============================================================================

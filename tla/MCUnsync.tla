------------------------------ MODULE MCUnsync ------------------------------
(* UnsyncBump for TLC: a header of two bytes; memory at even and odd        *)
(* addresses and of even and odd length, too little for a header, just      *)
(* enough for one, and enough for a few blocks.                             *)
EXTENDS UnsyncBump

MCMemories == [start : {2, 3}, len : {1, 2, 3, 6, 7, 8}]

MCLayouts ==
  {[size |-> 1, align |-> 1], [size |-> 3, align |-> 1], [size |-> 2, align |-> 2],
   [size |-> 1, align |-> 4]}
==============================================================================

--------------------------- MODULE AllocationInfo ---------------------------
(***************************************************************************)
(* WithAllocationInfo of static-alloc/src/allocator_api2.rs: a handle on   *)
(* the sync arena that keeps, in two cells of its own, where the block of  *)
(* its last allocation starts and which level that call observed.  Reading *)
(* either of the arena afterwards would be racy; the handle works both out *)
(* of what try_alloc returned.                                             *)
(*                                                                         *)
(* A handle is not Sync, so a thread stands for a handle.                  *)
(***************************************************************************)
EXTENDS Bump

\* Mutation: takes the level the call went by for the start, padding or not.
StartFromExpected(t) == expect[t]

\* level_start of an Allocation: its level is where the block ends.
LevelStart(level, size) == level - size

AllocationStart(t) == LevelStart(held'[t].at, req[t].layout.size)

\* Failure::Exhausted carries the level the call went by.
ObservedLevel(t, result) == IF result = "ok" THEN held'[t].at ELSE expect[t]

------------------------------------------------------------------------------
(* Properties *)

\* What the handle records is about its own call, whatever other threads did
\* meanwhile and however often the exchange was lost: the block between the
\* recorded start and the observed level is the one it just got; and when it
\* got none, the observed level is one this arena has reached, and the layout
\* does not fit above it.
InfoBelongsToCall ==
  [][\A t \in Threads : req[t].op = "alloc" =>
       /\ Returns(t, "ok") =>
            \E b \in blocks' \ blocks :
              /\ b.owner = t
              /\ b.start = AllocationStart(t)
              /\ EndOfBlock(b) = ObservedLevel(t, "ok")
       /\ Returns(t, "exhausted") =>
            /\ ObservedLevel(t, "exhausted") \in 0 .. consumed
            /\ ~ RoomAbove(ObservedLevel(t, "exhausted"), req[t].layout)]_vars
==============================================================================

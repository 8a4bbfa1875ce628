-------------------------------- MODULE Arena --------------------------------
(***************************************************************************)
(* The arithmetic every bump allocator of the repository runs before it    *)
(* moves its ledger: where the next block of a layout would start above a  *)
(* given level, where it would end, and whether it fits.  The sync arena   *)
(* (static-alloc/src/bump.rs) and the unsync one (unsync/bump.rs) share it.*)
(*                                                                         *)
(* Offsets and levels count bytes from the start of the arena's storage.   *)
(***************************************************************************)
EXTENDS Integers

CONSTANTS
  Base,     \* address of the first byte of the storage
  Length,   \* number of bytes of the storage
  Layouts   \* the layouts a caller may ask for

\* A request of size zero never reaches the arithmetic (assert!(size > 0)),
\* and a core::alloc::Layout has a positive alignment.
ASSUME ArenaAssumption ==
  /\ Base \in Nat
  /\ Length \in Nat
  /\ Layouts \subseteq [size : Nat \ {0}, align : Nat \ {0}]

\* usize::saturating_sub.
SaturatingSub(a, b) == IF b > a THEN 0 ELSE a - b

\* <*const u8>::align_offset: the bytes to skip to reach a multiple of align.
AlignOffset(addr, align) == (align - (addr % align)) % align

\* Bytes lost to alignment when a block of this layout is placed above level.
Padding(level, layout) == AlignOffset(Base + level, layout.align)

\* First byte of the block (at_aligned in the code).
StartOf(level, layout) == level + Padding(level, layout)

\* The level after the block (new_consumed in the code).
EndOf(level, layout) == StartOf(level, layout) + layout.size

\* Some place above level could hold a block of this layout: the reference
\* the exhaustion test is measured against.
RoomAbove(level, layout) ==
  \E s \in level .. Length : /\ (Base + s) % layout.align = 0
                             /\ s + layout.size <= Length

\* Mutation: refuses to hand out the last byte.
FitsStrictly(level, layout) ==
  layout.size < SaturatingSub(Length - level, Padding(level, layout))

\* The exhaustion test of try_alloc_at, negated.
Fits(level, layout) ==
  layout.size <= SaturatingSub(Length - level, Padding(level, layout))

==============================================================================

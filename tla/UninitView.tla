----------------------------- MODULE UninitView -----------------------------
(***************************************************************************)
(* The arithmetic of UninitView and Uninit in without-alloc/src/uninit.rs: *)
(* a pointer to memory that need not hold a value, with the bytes it has   *)
(* behind it, is split, cast and cut into slices without anyone ever       *)
(* writing an address down.                                                *)
(*                                                                         *)
(* Addresses are those of the arena the memory comes from, so that the     *)
(* addresses the arena hands out and those a view works out are compared.  *)
(* A type is its layout.                                                   *)
(***************************************************************************)
EXTENDS Arena

CONSTANTS
  Types,    \* the types memory is viewed as, by their layouts
  MaxUsize  \* usize::MAX

WithSize(layout, size) == [size |-> size, align |-> layout.align]

Unit == [size |-> 0, align |-> 1]

\* The size of a type is a multiple of its alignment, and no allocation
\* reaches the end of the address space.
ASSUME ViewAssumption ==
  /\ Types \subseteq [size : Nat, align : Nat \ {0}]
  /\ Unit \in Types
  /\ \A type \in Types : type.size % type.align = 0
  /\ MaxUsize \in Nat
  /\ Base + Length < MaxUsize

\* What the functions below look at; a view is a record that has these fields.
Views == [ptr : Nat, len : Nat, type : Types]
ViewAt(ptr, len, type) == [ptr |-> ptr, len |-> len, type |-> type]

FirstByte(v) == v.ptr
EndOfView(v) == v.ptr + v.len
Bytes(v) == FirstByte(v) .. EndOfView(v) - 1

------------------------------------------------------------------------------
(* Casting *)

\* Mutation: asks for the size alone.
FitsBySize(v, layout) == layout.size <= v.len

\* UninitView::fits.
ViewFits(v, layout) ==
  /\ AlignOffset(v.ptr, layout.align) = 0
  /\ layout.size <= v.len

\* from_memory, and decast of any view.
FromMemory(ptr, len) == ViewAt(ptr, len, Unit)

\* cast and cast_slice return the view unchanged when it does not fit.
CastsTo(v, type) == ViewFits(v, type)
CastsToSlice(v, type) == ViewFits(v, WithSize(type, 0))

As(v, type) == ViewAt(v.ptr, v.len, type)

\* NonNull::dangling with no bytes behind it: invent_for_zst and empty.
Dangling(type) == As(FromMemory(type.align, 0), type)

------------------------------------------------------------------------------
(* Splitting off the end of a view *)

\* The view keeps n bytes.
Front(v, n) == ViewAt(v.ptr, n, v.type)

\* split_at_byte: the new view, untyped, has the number of bytes that are left.
\* It begins n values of the view's type further on, not n bytes: the pointer
\* that is added to has that type.
Back(v, n) == FromMemory(v.ptr + n * v.type.size, v.len - n)

\* Mutation: the length of the second half is not reduced.
BehindOverlong(v, n) == FromMemory(v.ptr + n, v.len)

\* The bytes behind the first n, as split_at reaches them by a pointer to bytes.
Behind(v, n) == FromMemory(v.ptr + n, v.len - n)

\* split_at_byte leaves a view enough for one value of its type.
SplitsAtByte(v, n) == n <= v.len /\ n >= v.type.size

\* align_offset of a pointer to values of no size: steps of no size lead nowhere.
UnitOffset(ptr, align) == IF ptr % align = 0 THEN 0 ELSE MaxUsize

\* split_layout of an untyped view: padding first, then room for the layout.
SplitsLayout(v, layout) ==
  LET align == UnitOffset(v.ptr, layout.align)
  IN  align <= v.len /\ layout.size <= v.len - align /\ SplitsAtByte(v, align)

Aligned(v, layout) == Back(v, UnitOffset(v.ptr, layout.align))

\* Some part of a view could hold a value of this layout.
RoomIn(v, layout) ==
  \E p \in FirstByte(v) .. EndOfView(v) :
    p % layout.align = 0 /\ p + layout.size <= EndOfView(v)

------------------------------------------------------------------------------
(* Splitting slices *)

\* checked_div: any number of values of no size.
Capacity(v) == IF v.type.size = 0 THEN MaxUsize ELSE v.len \div v.type.size

\* checked_mul, and the bytes have to be there.
SplitsAt(v, n) == n * v.type.size <= MaxUsize /\ n * v.type.size <= v.len

\* Mutation: takes the index for a number of bytes.
HeadByIndex(v, n) == Front(v, n)

HeadOf(v, n) == Front(v, n * v.type.size)
TailOf(v, n) == As(Behind(v, n * v.type.size), v.type)

\* usize::wrapping_sub(1): nothing can be split behind the last of none.
Previous(n) == IF n = 0 THEN MaxUsize ELSE n - 1

==============================================================================

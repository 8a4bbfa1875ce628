-------------------------------- MODULE Boxes --------------------------------
(***************************************************************************)
(* Memory of a bump arena on its way through the owning pointers of the    *)
(* repository: untyped and typed Uninit, slices of them, without_alloc's   *)
(* Box, static_alloc's LeakBox, raw pointers and plain references.  Each   *)
(* of these is a handle here; an operation turns one into another, splits  *)
(* it in two, or moves a value in or out.                                  *)
(*                                                                         *)
(* Nothing in the code records where values are or which bytes are spoken  *)
(* for: that is what the types stand for.  place, strayed and the field    *)
(* holds are the history against which they are checked.                   *)
(***************************************************************************)
EXTENDS UninitView, FiniteSets

CONSTANTS
  Handles,  \* the variables of the program that hold one of the pointers
  Values,   \* values the program moves around
  TypeOf,   \* the type of each value
  NoValue,  \* what a handle to uninitialized memory holds
  Ladder    \* the sizes of the stack slots Alloca::run chooses from

ASSUME BoxesAssumption ==
  /\ NoValue \notin Values
  /\ TypeOf \in [Values -> Types]
  /\ Ladder \subseteq Nat

VARIABLES
  level,      \* how much of the arena is handed out
  handles,    \* what each variable holds
  place,      \* where each value is; lost when no pointer leads to it any more
  broken,     \* did a check fail that the code takes for granted?
  strayed     \* did a split at a byte put a pointer where it does not belong?

vars == <<level, handles, place, broken, strayed>>

------------------------------------------------------------------------------
(* Handles and values *)

\* uninit is Uninit, with many for Uninit<[T]>; box is without_alloc's Box;
\* leak, pin and raw are LeakBox, Pin<LeakBox> and what into_raw returns; ref
\* is a mutable reference, given is memory inside some other container.  A ref,
\* leak or raw without a value is one to MaybeUninit<T>.
Kinds == {"none", "uninit", "box", "leak", "pin", "raw", "ref", "given"}

Handle(v, kind, many, value) ==
  [ptr |-> v.ptr, len |-> v.len, type |-> v.type,
   kind |-> kind, many |-> many, holds |-> value]

Vacant == Handle(FromMemory(0, 0), "none", FALSE, NoValue)
View(v) == Handle(v, "uninit", FALSE, NoValue)
Slice(v) == Handle(v, "uninit", TRUE, NoValue)

\* A reference or a thin pointer forgets the bytes behind its value.
Thin(v, kind, many, value) ==
  Handle(Front(v, IF many THEN v.type.size * Capacity(v) ELSE v.type.size),
         kind, many, value)

IsFree(h) == handles[h].kind = "none"
IsView(h) == handles[h].kind = "uninit" /\ ~ handles[h].many
IsSlice(h) == handles[h].kind = "uninit" /\ handles[h].many

InMemory(p) == [state |-> "memory", at |-> p]
WithCaller == [state |-> "caller", at |-> 0]
Dropped == [state |-> "dropped", at |-> 0]
Lost == [state |-> "lost", at |-> 0]

Span(p, type) == p .. p + type.size - 1

\* Does writing a value of this type at p destroy w?
Overwrites(p, type, w) ==
  /\ place[w].state = "memory"
  /\ Span(p, type) \cap Span(place[w].at, TypeOf[w]) # {}

\* ptr::write and ptr::copy look at no byte they write.
AfterWrite(p, type) ==
  [w \in Values |-> IF Overwrites(p, type, w) THEN Lost ELSE place[w]]

------------------------------------------------------------------------------
(* What a step does to the handles *)

\* An unwrap or an assertion that the code has for itself, not for its caller.
Unwrap(ok) == broken' = (broken \/ ~ ok)

\* Nobody remembers that h led to a value.
Loses(h) ==
  place' = [w \in Values |-> IF w = handles[h].holds THEN Lost ELSE place[w]]

\* A value is moved to where h points, over whatever was there.
Stores(h, value) ==
  place' = [w \in Values |->
              IF w = value THEN InMemory(handles[h].ptr)
              ELSE IF w = handles[h].holds THEN Lost
              ELSE AfterWrite(handles[h].ptr, handles[h].type)[w]]

\* h becomes another kind of handle to (part of) its memory.
Becomes(h, handle) ==
  /\ handles' = [handles EXCEPT ![h] = handle]
  /\ UNCHANGED <<level, strayed>>

\* The same, and the value it led to is led to no more; the code has an unwrap
\* that succeeds if ok.
Converts(h, handle, ok) == Becomes(h, handle) /\ Loses(h) /\ Unwrap(ok)

\* The value stays with h.
Keeps(h, handle) == Becomes(h, handle) /\ UNCHANGED <<place, broken>>

\* h keeps the front, g gets the back.
Parts(h, g, front, back, ok) ==
  /\ IsFree(g)
  /\ handles' = [handles EXCEPT ![h] = front, ![g] = back]
  /\ Loses(h)
  /\ Unwrap(ok)
  /\ UNCHANGED level

Splits(h, g, front, back, ok) == Parts(h, g, front, back, ok) /\ UNCHANGED strayed

\* Does the second half not begin where the first ends?
Strays(v, n) == FirstByte(Back(v, n)) # EndOfView(Front(v, n))

SplitsOff(h, g, n, ok) ==
  /\ IsView(h)
  /\ Parts(h, g, View(Front(handles[h], n)), View(Back(handles[h], n)), ok)
  /\ strayed' = (strayed \/ Strays(handles[h], n))

------------------------------------------------------------------------------
(* LocalAllocLeakExt: memory from the arena *)

Available(layout) == layout.size = 0 \/ Fits(level, layout)

\* LocalAlloc::alloc, and a dangling pointer where nothing is to be allocated.
Granted(layout) ==
  IF layout.size = 0 THEN Dangling(layout)
  ELSE FromMemory(Base + StartOf(level, layout), layout.size)

Allocates(h, layout, handle) ==
  /\ IsFree(h)
  /\ Available(layout)
  /\ level' = IF layout.size = 0 THEN level ELSE EndOf(level, layout)
  /\ handles' = [handles EXCEPT ![h] = handle]
  /\ UNCHANGED strayed

AllocLayout(h, layout) ==
  /\ Allocates(h, layout, View(Granted(layout)))
  /\ UNCHANGED <<place, broken>>

AllocT(h, type) ==
  /\ Allocates(h, type, View(As(Granted(type), type)))
  /\ Unwrap(CastsTo(Granted(type), type))
  /\ UNCHANGED place

\* boxed and leak_box: the value is moved in, or dropped with the call.
Arrives(h, value, kind) ==
  LET type == TypeOf[value]
  IN  /\ place[value] = WithCaller
      /\ Allocates(h, type, Handle(As(Granted(type), type), kind, FALSE, value))
      /\ place' = [AfterWrite(Granted(type).ptr, type)
                     EXCEPT ![value] = InMemory(Granted(type).ptr)]

Boxed(h, value) ==
  /\ Arrives(h, value, "box")
  /\ Unwrap(CastsTo(Granted(TypeOf[value]), TypeOf[value]))

LeakBoxed(h, value) == Arrives(h, value, "leak") /\ UNCHANGED broken

BoxFails(value) ==
  /\ place[value] = WithCaller
  /\ ~ Available(TypeOf[value])
  /\ place' = [place EXCEPT ![value] = Dropped]
  /\ UNCHANGED <<level, handles, broken, strayed>>

ArrayOf(type, n) == WithSize(type, n * type.size)

FixedVec(h, type, n) ==
  /\ n * type.size <= MaxUsize
  /\ Allocates(h, ArrayOf(type, n),
               Handle(As(Granted(ArrayOf(type, n)), type), "given", TRUE, NoValue))
  /\ Unwrap(CastsToSlice(Granted(ArrayOf(type, n)), type))
  /\ UNCHANGED place

CopySlice(h, type, n) ==
  /\ Allocates(h, ArrayOf(type, n),
               Handle(As(Granted(ArrayOf(type, n)), type), "given", TRUE, NoValue))
  /\ Unwrap(CastsToSlice(Granted(ArrayOf(type, n)), type))
  /\ place' = AfterWrite(Granted(ArrayOf(type, n)).ptr, ArrayOf(type, n))

\* The layout of an RcBox; Rc::new asserts that the memory fits it.
AllocRc(h, layout) ==
  /\ Allocates(h, layout, Handle(Granted(layout), "given", FALSE, NoValue))
  /\ Unwrap(ViewFits(Granted(layout), layout))
  /\ UNCHANGED place

------------------------------------------------------------------------------
(* Uninit: splitting *)

SplitAtByte(h, g, n) ==
  /\ SplitsAtByte(handles[h], n)
  /\ SplitsOff(h, g, n, TRUE)

\* split_at_byte for the size of the type, unwrapped.
SplitToFit(h, g) ==
  LET n == handles[h].type.size
  IN  SplitsOff(h, g, n, SplitsAtByte(handles[h], n))

\* What would be padding stays with h.
SplitsFor(h, g, layout, type, back) ==
  LET tail == Aligned(handles[h], layout)
  IN  /\ IsView(h)
      /\ handles[h].type = Unit
      /\ SplitsLayout(handles[h], layout)
      /\ Splits(h, g, View(Front(handles[h], UnitOffset(handles[h].ptr, layout.align))),
                Handle(As(tail, type), "uninit", back, NoValue), ViewFits(tail, layout))

SplitLayout(h, g, layout) == SplitsFor(h, g, layout, Unit, FALSE)
SplitCast(h, g, type) == SplitsFor(h, g, type, type, FALSE)
SplitSlice(h, g, type) == SplitsFor(h, g, WithSize(type, 0), type, TRUE)

SplitAt(h, g, n) ==
  /\ IsSlice(h)
  /\ SplitsAt(handles[h], n)
  /\ Splits(h, g, Slice(HeadOf(handles[h], n)), Slice(TailOf(handles[h], n)),
            CastsToSlice(TailOf(handles[h], n), handles[h].type))

ShrinkToFit(h, g) ==
  LET n == Capacity(handles[h])
  IN  /\ IsSlice(h)
      /\ Splits(h, g, Slice(HeadOf(handles[h], n)), View(As(TailOf(handles[h], n), Unit)),
                /\ SplitsAt(handles[h], n)
                /\ CastsToSlice(TailOf(handles[h], n), handles[h].type))

\* Mutation: does not swap the halves.
SplitFirstUnswapped(h, g) ==
  /\ IsSlice(h)
  /\ SplitsAt(handles[h], 1)
  /\ Splits(h, g, Slice(HeadOf(handles[h], 1)), View(TailOf(handles[h], 1)),
            CastsTo(TailOf(handles[h], 1), handles[h].type))

SplitFirst(h, g) ==
  /\ IsSlice(h)
  /\ SplitsAt(handles[h], 1)
  /\ Splits(h, g, Slice(TailOf(handles[h], 1)), View(HeadOf(handles[h], 1)),
            CastsTo(HeadOf(handles[h], 1), handles[h].type))

SplitLast(h, g) ==
  LET n == Previous(Capacity(handles[h]))
  IN  /\ IsSlice(h)
      /\ SplitsAt(handles[h], n)
      /\ Splits(h, g, Slice(HeadOf(handles[h], n)), View(TailOf(handles[h], n)),
                CastsTo(TailOf(handles[h], n), handles[h].type))

------------------------------------------------------------------------------
(* Uninit: conversions *)

Cast(h, type) ==
  /\ IsView(h)
  /\ CastsTo(handles[h], type)
  /\ Converts(h, View(As(handles[h], type)), TRUE)

CastSlice(h, type) ==
  /\ IsView(h)
  /\ CastsToSlice(handles[h], type)
  /\ Converts(h, Slice(As(handles[h], type)), TRUE)

AsMemory(h) ==
  /\ handles[h].kind = "uninit"
  /\ Converts(h, View(As(handles[h], Unit)), TRUE)

\* into_maybe_uninit and into_maybe_uninit_slice.
IntoMaybeUninit(h) ==
  /\ handles[h].kind = "uninit"
  /\ Converts(h, Thin(handles[h], "ref", handles[h].many, NoValue), TRUE)

IsMaybeUninit(h) == handles[h].kind = "ref" /\ handles[h].holds = NoValue

FromMaybeUninit(h) ==
  /\ IsMaybeUninit(h)
  /\ ~ handles[h].many
  /\ Converts(h, View(handles[h]), CastsTo(handles[h], handles[h].type))

FromMaybeUninitSlice(h) ==
  /\ IsMaybeUninit(h)
  /\ handles[h].many
  /\ Converts(h, Slice(handles[h]), CastsToSlice(handles[h], handles[h].type))

------------------------------------------------------------------------------
(* Uninit and Box: values *)

\* Can this value be moved to where h points?
Accepts(h, value) ==
  /\ ~ handles[h].many
  /\ handles[h].type = TypeOf[value]
  /\ place[value] = WithCaller

\* The reference init returns drops nothing.
InitView(h, value) ==
  /\ IsView(h)
  /\ Accepts(h, value)
  /\ Becomes(h, Thin(handles[h], "ref", FALSE, value))
  /\ Stores(h, value)
  /\ UNCHANGED broken

BoxNew(h, value) ==
  /\ IsView(h)
  /\ Accepts(h, value)
  /\ Becomes(h, Handle(handles[h], "box", FALSE, value))
  /\ Stores(h, value)
  /\ UNCHANGED broken

\* Mutation: the box is not forgotten after the value was read.
BoxTakeKeeping(h) ==
  /\ handles[h].kind = "box"
  /\ place' = [place EXCEPT ![handles[h].holds] = WithCaller]
  /\ UNCHANGED <<level, handles, broken, strayed>>

BoxTake(h) ==
  /\ handles[h].kind = "box"
  /\ Becomes(h, View(handles[h]))
  /\ place' = [place EXCEPT ![handles[h].holds] = WithCaller]
  /\ UNCHANGED broken

\* The value stays where it is, which only the caller remembers.
BoxIntoRaw(h) ==
  /\ handles[h].kind = "box"
  /\ Keeps(h, Handle(handles[h], "uninit", FALSE, handles[h].holds))

\* Unsafe: the caller knows that the value is there.
BoxFromRaw(h) ==
  /\ IsView(h)
  /\ handles[h].holds # NoValue
  /\ Keeps(h, Handle(handles[h], "box", FALSE, handles[h].holds))

BoxLeak(h) ==
  /\ handles[h].kind = "box"
  /\ Keeps(h, Thin(handles[h], "ref", FALSE, handles[h].holds))

\* drop_in_place of what the handle holds; the memory is gone with it.
DropsInPlace(h) ==
  /\ Becomes(h, Vacant)
  /\ place' = [w \in Values |-> IF w = handles[h].holds THEN Dropped ELSE place[w]]
  /\ UNCHANGED broken

BoxDrop(h) == handles[h].kind = "box" /\ DropsInPlace(h)

------------------------------------------------------------------------------
(* LeakBox *)

IsLeakBox(h) == handles[h].kind \in {"leak", "pin"}

\* A LeakBox to MaybeUninit<T>, one or many.
FromUninit(h) ==
  /\ IsMaybeUninit(h)
  /\ Keeps(h, Handle(handles[h], "leak", handles[h].many, NoValue))

\* write, and the assume_init it ends in.
Write(h, value) ==
  /\ handles[h].kind = "leak"
  /\ handles[h].holds = NoValue
  /\ Accepts(h, value)
  /\ Becomes(h, Handle(handles[h], "leak", FALSE, value))
  /\ Stores(h, value)
  /\ UNCHANGED broken

LeakIntoRaw(h) ==
  /\ handles[h].kind = "leak"
  /\ Keeps(h, Handle(handles[h], "raw", handles[h].many, handles[h].holds))

\* Unsafe: the pointer comes from into_raw.
LeakFromRaw(h) ==
  /\ handles[h].kind = "raw"
  /\ Keeps(h, Handle(handles[h], "leak", handles[h].many, handles[h].holds))

\* Unsafe: the value is the caller's, who will not drop it.
FromMutUnchecked(h) ==
  /\ handles[h].kind = "ref"
  /\ handles[h].holds # NoValue
  /\ Keeps(h, Handle(handles[h], "leak", FALSE, handles[h].holds))

Leak(h) ==
  /\ handles[h].kind = "leak"
  /\ Keeps(h, Handle(handles[h], "ref", handles[h].many, handles[h].holds))

IntoPin(h) ==
  /\ handles[h].kind = "leak"
  /\ Keeps(h, Handle(handles[h], "pin", handles[h].many, handles[h].holds))

\* The value comes back, the memory does not.
Take(h) ==
  /\ handles[h].kind = "leak"
  /\ handles[h].holds # NoValue
  /\ Becomes(h, Vacant)
  /\ place' = [place EXCEPT ![handles[h].holds] = WithCaller]
  /\ UNCHANGED broken

LeakDrop(h) == IsLeakBox(h) /\ DropsInPlace(h)

------------------------------------------------------------------------------
(* Alloca *)

\* padded_layout has one element more.
Required(type, n) == (n + 1) * type.size

IsSlot(s, required) ==
  /\ s >= required
  /\ \A r \in Ladder : r >= required => s <= r

\* run makes an arena of the smallest size that will do on the stack, wherever
\* that is, and unwraps bump_array in it.  A request that is too large for any, or
\* for nothing, is refused with a panic, the one by run and the other by bump_array;
\* both before anything is done.  Of the address only its alignment matters.
RunAlloca(type, n, base) ==
  /\ Required(type, n) <= MaxUsize
  /\ \/ /\ n * type.size > 0
        /\ \E s \in Ladder :
             /\ IsSlot(s, Required(type, n))
             /\ Unwrap(AlignOffset(base, type.align) + n * type.size <= s)
     \/ /\ n * type.size = 0 \/ \A s \in Ladder : s < Required(type, n)
        /\ UNCHANGED broken
  /\ UNCHANGED <<level, handles, place, strayed>>

------------------------------------------------------------------------------
(* Handles that go out of scope *)

\* mem::forget of a box, and the end of a pointer that drops nothing: nobody
\* knows any more that there is a value.
Forget(h) ==
  /\ ~ IsFree(h)
  /\ Becomes(h, Vacant)
  /\ Loses(h)
  /\ UNCHANGED broken

------------------------------------------------------------------------------
Init ==
  /\ level = 0
  /\ handles = [h \in Handles |-> Vacant]
  /\ place = [v \in Values |-> WithCaller]
  /\ broken = FALSE
  /\ strayed = FALSE

CONSTANTS MaxCount  \* bound: the longest slice asked for, and the last index

ASSUME CountAssumption == MaxCount \in Nat

Counts == 0 .. MaxCount

Allocate(h) ==
  \/ \E layout \in Layouts : AllocLayout(h, layout) \/ AllocRc(h, layout)
  \/ \E type \in Types : \/ AllocT(h, type)
                         \/ \E n \in Counts : FixedVec(h, type, n) \/ CopySlice(h, type, n)
  \/ \E value \in Values : Boxed(h, value) \/ LeakBoxed(h, value)

DivideAtByte(h, g) == SplitToFit(h, g) \/ \E n \in Counts : SplitAtByte(h, g, n)

DivideElsewhere(h, g) ==
  \/ \E n \in Counts : SplitAt(h, g, n)
  \/ ShrinkToFit(h, g) \/ SplitFirst(h, g) \/ SplitLast(h, g)
  \/ \E layout \in Layouts : SplitLayout(h, g, layout)
  \/ \E type \in Types : SplitCast(h, g, type) \/ SplitSlice(h, g, type)

Convert(h) ==
  \/ \E type \in Types : Cast(h, type) \/ CastSlice(h, type)
  \/ AsMemory(h) \/ IntoMaybeUninit(h) \/ FromMaybeUninit(h) \/ FromMaybeUninitSlice(h)
  \/ FromUninit(h) \/ IntoPin(h)

MoveIn(h) == \E value \in Values : InitView(h, value) \/ BoxNew(h, value) \/ Write(h, value)

HandOver(h) ==
  \/ BoxTake(h) \/ BoxIntoRaw(h) \/ BoxFromRaw(h) \/ BoxLeak(h) \/ BoxDrop(h)
  \/ LeakIntoRaw(h) \/ LeakFromRaw(h) \/ FromMutUnchecked(h) \/ Leak(h) \/ Take(h)
  \/ LeakDrop(h) \/ Forget(h)

Next ==
  \/ \E h \in Handles : Allocate(h) \/ Convert(h) \/ MoveIn(h) \/ HandOver(h)
  \/ \E h, g \in Handles : DivideAtByte(h, g) \/ DivideElsewhere(h, g)
  \/ \E value \in Values : BoxFails(value)
  \/ \E type \in Types : \E n \in Counts, base \in 0 .. type.align - 1 :
       RunAlloca(type, n, base)

Spec == Init /\ [][Next]_vars

------------------------------------------------------------------------------
(* Properties *)

Places == [state : {"memory", "caller", "dropped", "lost"}, at : Nat]

TypeOK ==
  /\ level \in 0 .. Length
  /\ handles \in [Handles -> [ptr : Nat, len : Nat, type : Types, kind : Kinds,
                              many : BOOLEAN, holds : Values \cup {NoValue}]]
  /\ place \in [Values -> Places]
  /\ broken \in BOOLEAN
  /\ strayed \in BOOLEAN

\* "len is always at least as large as the (minimum) size of T. Furthermore, the
\* pointer is always correctly aligned to a T", and the bytes are ones that the
\* arena handed out, unless split_at_byte took the pointer elsewhere.
Valid(v) ==
  /\ AlignOffset(v.ptr, v.type.align) = 0
  /\ v.many \/ v.type.size <= v.len
  /\ strayed \/ (v.len > 0 => Base <= FirstByte(v) /\ EndOfView(v) <= Base + level)

\* Through every allocation, split, cast and conversion, what a pointer may be
\* used for is what it was made for.
ViewsValid == TypeOK /\ \A h \in Handles : IsFree(h) \/ Valid(handles[h])

\* init is safe for a view that is "unaliased for lifetime 'a", and says that "no
\* other method duplicates the pointer": no byte belongs to two pointers.  The
\* code breaks this by split_at_byte of an untyped view.
Unaliased ==
  \A g, h \in Handles :
    g # h => \/ EndOfView(handles[g]) <= FirstByte(handles[h])
             \/ EndOfView(handles[h]) <= FirstByte(handles[g])
             \/ handles[g].len = 0
             \/ handles[h].len = 0

\* It is split_at_byte alone that breaks it: through every other operation, in
\* any order, no byte belongs to two pointers.
Disjoint == strayed \/ Unaliased

InUse == UNION {Bytes(handles[h]) : h \in Handles}

\* A split loses no byte: between them the halves have what the whole had, the
\* rest behind a slice included, also of memory that strayed.  A split at a byte
\* does that, or strays.
SplitsConserve ==
  [][\A h, g \in Handles :
       /\ DivideElsewhere(h, g) => InUse' = InUse
       /\ DivideAtByte(h, g) => InUse' = InUse \/ strayed']_vars

\* "Split so that the second part fits the layout": memory is refused for a layout
\* only if no part of it could hold one ("not possible in-bounds").  The code
\* refuses all memory that is not aligned already.
FindsRoom ==
  \A h \in Handles : handles[h].kind = "uninit" =>
    \A layout \in Layouts \cup Types :
      SplitsLayout(As(handles[h], Unit), layout) <=> RoomIn(handles[h], layout)

\* No unwrap and no assertion fails that the code has for itself: a view was tested
\* for what it is then cast to, a split leaves what its halves are for, and a stack
\* slot has room for its padding.  Requests that Alloca::run refuses are not among
\* these: it tells its caller by a panic that one is too large or for nothing.
ChecksHold == ~ broken

\* A pointer through which a value can be reached leads to that value, whole and
\* not yet moved out or dropped, and no other pointer does.
Reaches ==
  \A h \in Handles : handles[h].holds # NoValue =>
    /\ place[handles[h].holds] = InMemory(handles[h].ptr)
    /\ handles[h].type = TypeOf[handles[h].holds]
    /\ \A g \in Handles : handles[g].holds = handles[h].holds => g = h

\* A value in memory has a pointer that leads to it, and so somebody who still
\* can or has to drop it: it gets lost only with its last pointer.
Managed ==
  \A v \in Values :
    place[v].state = "memory" => \E h \in Handles : handles[h].holds = v

\* Both, as long as no pointer strayed.
ValuesSafe == strayed \/ (Reaches /\ Managed)
==============================================================================

------------------------------ MODULE FixedVec ------------------------------
(***************************************************************************)
(* without-alloc/src/fixed_vec.rs: vectors in memory they do not own, and  *)
(* the Drain that removes a range from one.                                *)
(*                                                                         *)
(* ptr::read and drop_in_place leave the bytes of an element where they    *)
(* are, so a slot may hold an element that was moved out or dropped, or    *)
(* one that lives on somewhere else: what keeps an element from being      *)
(* dropped twice are lengths and offsets alone.  Loops that drop elements  *)
(* or ask an iterator take one step per element, because the code of the   *)
(* caller that runs in each may panic.  All of this is single-threaded.    *)
(*                                                                         *)
(* Addresses count in elements, which are not zero-sized.                  *)
(***************************************************************************)
EXTENDS Integers, Sequences

CONSTANTS
  Elems,     \* elements; the name of one that is gone may be used again
  Panicky,   \* those whose destructor may panic
  Vecs,      \* names for vectors
  Capacity,  \* elements that fit in the memory
  Nil        \* no vector, no Drain, nothing written yet

ASSUME FixedVecAssumption ==
  /\ Panicky \subseteq Elems
  /\ Capacity \in Nat
  /\ Nil \notin Elems \cup Vecs

VARIABLES
  mem,     \* what was last written to each slot
  vecs,    \* FixedVec: its memory, length, and the vector it borrows from
  drains,  \* Drain, on each vector
  call,    \* the loop that runs
  mode,    \* whether the thread unwinds, or a second panic aborted it
  inside,  \* the elements that were moved into this memory and are not out again
  lost     \* those of them that nothing will drop any more

vars == <<mem, vecs, drains, call, mode, inside, lost>>

Slots == 0 .. Capacity - 1

Upto == 0 .. Capacity

FixedVecs ==
  [base : Upto, capacity : Upto, length : Upto, lender : Vecs \cup {Nil}]

\* Internal invariant: `0 <= start <= end <= tail`
Drains ==
  {d \in [start : Upto, end : Upto, tail : Upto, tail_len : Upto, elements : Upto] :
     d.start <= d.end /\ d.end <= d.tail}

\* Nil is none of the values it stands for the absence of.
ASSUME NilAssumption ==
  /\ Nil \notin FixedVecs \cup Drains
  /\ \A n \in Upto : Nil \notin [1 .. n -> Elems \cup {Nil}]

NoCall == [op |-> "none"]

\* at is local_len, an index, or the number of items fill may take; to is the
\* argument of truncate.
Calls ==
  {NoCall} \cup
  [op : {"truncate", "drop", "fill", "drain"}, vec : Vecs, at : Upto, to : Upto]

Idle == call = NoCall

\* Nothing borrows from v, and v is the caller's to use.
Free(v) ==
  /\ Idle
  /\ vecs[v] # Nil
  /\ drains[v] = Nil
  /\ \A w \in Vecs : vecs[w] # Nil => vecs[w].lender # v

Usable(v) == Free(v) /\ mode = "running"

End(v) == vecs[v].base + vecs[v].length

Held(slots) == {mem[p] : p \in slots}

------------------------------------------------------------------------------
(* Elements in and out *)

\* FixedVec::new in memory that nothing borrows.  Whatever was lost is lost with
\* the bytes that were there, which mean nothing now.
New(v) ==
  /\ Idle
  /\ mode = "running"
  /\ \A w \in Vecs : vecs[w] = Nil
  /\ mem' = [p \in Slots |-> Nil]
  /\ vecs' = [vecs EXCEPT ![v] =
       [base |-> 0, capacity |-> Capacity, length |-> 0, lender |-> Nil]]
  /\ inside' = {}
  /\ lost' = {}
  /\ UNCHANGED <<drains, call, mode>>

\* Writes e behind the last element and counts it.
Write(v, e) ==
  /\ e \notin inside
  /\ mem' = [mem EXCEPT ![End(v)] = e]
  /\ vecs' = [vecs EXCEPT ![v].length = @ + 1]
  /\ inside' = inside \cup {e}

\* push, when there is room; otherwise the caller gets e back.
Push(v, e) ==
  /\ Usable(v)
  /\ vecs[v].length < vecs[v].capacity
  /\ Write(v, e)
  /\ UNCHANGED <<drains, call, mode, lost>>

Pop(v) ==
  /\ Usable(v)
  /\ vecs[v].length > 0
  /\ inside' = inside \ {mem[End(v) - 1]}
  /\ vecs' = [vecs EXCEPT ![v].length = @ - 1]
  /\ UNCHANGED <<mem, drains, call, mode, lost>>

\* fill: takes at most as many items as there is room for.
StartFill(v) ==
  /\ Usable(v)
  /\ call' = [op |-> "fill", vec |-> v,
              at |-> vecs[v].capacity - vecs[v].length, to |-> 0]
  /\ UNCHANGED <<mem, vecs, drains, mode, inside, lost>>

FillNext(e) ==
  /\ call.op = "fill"
  /\ call.at > 0
  /\ Write(call.vec, e)
  /\ call' = [call EXCEPT !.at = @ - 1]
  /\ UNCHANGED <<drains, mode, lost>>

\* The iterator has no more items, or there is no more room, or next panics;
\* extend panics itself when there is another item.
FillEnds ==
  /\ call.op = "fill"
  /\ call' = NoCall
  /\ mode' \in {"running", "panicking"}
  /\ UNCHANGED <<mem, vecs, drains, inside, lost>>

------------------------------------------------------------------------------
(* Elements that are dropped *)

\* The destructor of e returns, or panics; a second panic aborts.
Drop(e) ==
  /\ inside' = inside \ {e}
  /\ mode' = mode

DropPanics(e) ==
  /\ e \in Panicky
  /\ inside' = inside \ {e}
  /\ mode' = IF mode = "running" THEN "panicking" ELSE "aborted"

\* truncate(n), and clear.  The length of the vector is set only at the end, by
\* SetLenOnDrop.
StartTruncate(v, n) ==
  /\ Usable(v)
  /\ n < vecs[v].length
  /\ call' = [op |-> "truncate", vec |-> v, at |-> vecs[v].length, to |-> n]
  /\ UNCHANGED <<mem, vecs, drains, mode, inside, lost>>

\* Mutations: local_len stays; SetLenOnDrop sets the length that was asked for.
TruncateAgain ==
  /\ call.op = "truncate"
  /\ call.at > call.to
  /\ Drop(mem[vecs[call.vec].base + call.at - 1])
  /\ UNCHANGED <<mem, vecs, drains, call, lost>>

TruncateGivesUp ==
  /\ call.op = "truncate"
  /\ call.at > call.to
  /\ DropPanics(mem[vecs[call.vec].base + call.at - 1])
  /\ vecs' = [vecs EXCEPT ![call.vec].length = call.to]
  /\ call' = NoCall
  /\ UNCHANGED <<mem, drains, lost>>

TruncateNext ==
  /\ call.op = "truncate"
  /\ call.at > call.to
  /\ Drop(mem[vecs[call.vec].base + call.at - 1])
  /\ call' = [call EXCEPT !.at = @ - 1]
  /\ UNCHANGED <<mem, vecs, drains, lost>>

TruncatePanics ==
  /\ call.op = "truncate"
  /\ call.at > call.to
  /\ DropPanics(mem[vecs[call.vec].base + call.at - 1])
  /\ vecs' = [vecs EXCEPT ![call.vec].length = call.at - 1]
  /\ call' = NoCall
  /\ UNCHANGED <<mem, drains, lost>>

TruncateEnds ==
  /\ call.op = "truncate"
  /\ call.at = call.to
  /\ vecs' = [vecs EXCEPT ![call.vec].length = call.at]
  /\ call' = NoCall
  /\ UNCHANGED <<mem, drains, mode, inside, lost>>

\* Drop for FixedVec drops its elements as a slice: first to last, the others
\* too when one panics.
StartDrop(v) ==
  /\ Free(v)
  /\ mode # "aborted"
  /\ call' = [op |-> "drop", vec |-> v, at |-> 0, to |-> 0]
  /\ UNCHANGED <<mem, vecs, drains, mode, inside, lost>>

DropNext ==
  /\ call.op = "drop"
  /\ mode # "aborted"
  /\ call.at < vecs[call.vec].length
  /\ LET e == mem[vecs[call.vec].base + call.at]
     IN  Drop(e) \/ DropPanics(e)
  /\ call' = [call EXCEPT !.at = @ + 1]
  /\ UNCHANGED <<mem, vecs, drains, lost>>

DropEnds ==
  /\ call.op = "drop"
  /\ mode # "aborted"
  /\ call.at = vecs[call.vec].length
  /\ vecs' = [vecs EXCEPT ![call.vec] = Nil]
  /\ call' = NoCall
  /\ UNCHANGED <<mem, drains, mode, inside, lost>>

\* A vector is forgotten, with all that is in it.
Forget(v) ==
  /\ Usable(v)
  /\ lost' = lost \cup Held(vecs[v].base .. End(v) - 1)
  /\ vecs' = [vecs EXCEPT ![v] = Nil]
  /\ UNCHANGED <<mem, drains, call, mode, inside>>

------------------------------------------------------------------------------
(* split_borrowed and split_and_shrink_to *)

Kept(v, at) == IF at < vecs[v].length THEN at ELSE vecs[v].length

\* w gets the memory from at on, for good or for as long as it borrows it from
\* v; the elements there it gets for good.
Split(v, at, w, lender) ==
  /\ Usable(v)
  /\ vecs[w] = Nil
  /\ at <= vecs[v].capacity
  /\ vecs' = [vecs EXCEPT
       ![v].length = Kept(v, at),
       ![v].capacity = IF lender = v THEN @ ELSE at,
       ![w] = [base |-> vecs[v].base + at, capacity |-> vecs[v].capacity - at,
               length |-> vecs[v].length - Kept(v, at), lender |-> lender]]
  /\ UNCHANGED <<mem, drains, call, mode, inside, lost>>

SplitBorrowed(v, at, w) == Split(v, at, w, v)

\* The lifetime of the memory is that of v's: w borrows from whom v does.
SplitAndShrinkTo(v, at, w) == Split(v, at, w, vecs[v].lender)

------------------------------------------------------------------------------
(* Drain *)

DrainOf(v, from, to) ==
  [start |-> 0, end |-> to - from, tail |-> to - from,
   tail_len |-> vecs[v].length - to, elements |-> vecs[v].base + from]

\* Mutations: the length is not shortened; offsets are relative to the vector.
DrainKeepingLength(v, from, to) ==
  /\ Usable(v)
  /\ from <= to
  /\ to <= vecs[v].length
  /\ drains' = [drains EXCEPT ![v] = DrainOf(v, from, to)]
  /\ UNCHANGED <<mem, vecs, call, mode, inside, lost>>

DrainRelative(v, from, to) ==
  /\ Usable(v)
  /\ from <= to
  /\ to <= vecs[v].length
  /\ drains' = [drains EXCEPT ![v] = [DrainOf(v, from, to) EXCEPT !.end = to]]
  /\ vecs' = [vecs EXCEPT ![v].length = from]
  /\ UNCHANGED <<mem, call, mode, inside, lost>>

\* drain(from .. to): the vector ends at from until the Drain is dropped.
Drain(v, from, to) ==
  /\ Usable(v)
  /\ from <= to
  /\ to <= vecs[v].length
  /\ drains' = [drains EXCEPT ![v] = DrainOf(v, from, to)]
  /\ vecs' = [vecs EXCEPT ![v].length = from]
  /\ UNCHANGED <<mem, call, mode, inside, lost>>

\* next and next_back: the element goes to the caller.
DrainNext(v) ==
  /\ Idle
  /\ mode = "running"
  /\ drains[v] # Nil
  /\ drains[v].start # drains[v].end
  /\ inside' = inside \ {mem[drains[v].elements + drains[v].start]}
  /\ drains' = [drains EXCEPT ![v].start = @ + 1]
  /\ UNCHANGED <<mem, vecs, call, mode, lost>>

DrainNextBack(v) ==
  /\ Idle
  /\ mode = "running"
  /\ drains[v] # Nil
  /\ drains[v].start # drains[v].end
  /\ inside' = inside \ {mem[drains[v].elements + drains[v].end - 1]}
  /\ drains' = [drains EXCEPT ![v].end = @ - 1]
  /\ UNCHANGED <<mem, vecs, call, mode, lost>>

\* The slots with the elements a Drain has still to yield, and the tail's.
Remaining(d) ==
  d.elements + d.start .. d.elements + d.end - 1
    \cup d.elements + d.tail .. d.elements + d.tail + d.tail_len - 1

DrainForget(v) ==
  /\ Idle
  /\ mode = "running"
  /\ drains[v] # Nil
  /\ lost' = lost \cup Held(Remaining(drains[v]))
  /\ drains' = [drains EXCEPT ![v] = Nil]
  /\ UNCHANGED <<mem, vecs, call, mode, inside>>

\* Drop for Drain: takes what is left and drops it, one after the other.
StartDrainDrop(v) ==
  /\ Idle
  /\ mode # "aborted"
  /\ drains[v] # Nil
  /\ call' = [op |-> "drain", vec |-> v, at |-> 0, to |-> 0]
  /\ UNCHANGED <<mem, vecs, drains, mode, inside, lost>>

DrainDropNext ==
  /\ call.op = "drain"
  /\ LET d == drains[call.vec]
     IN  /\ d.start # d.end
         /\ Drop(mem[d.elements + d.start])
  /\ drains' = [drains EXCEPT ![call.vec].start = @ + 1]
  /\ UNCHANGED <<mem, vecs, call, lost>>

\* When one panics, the rest of them and the tail are left behind.
DrainDropPanics ==
  /\ call.op = "drain"
  /\ LET d == drains[call.vec]
     IN  /\ d.start # d.end
         /\ DropPanics(mem[d.elements + d.start])
         /\ lost' = lost \cup Held(Remaining([d EXCEPT !.start = @ + 1]))
  /\ drains' = [drains EXCEPT ![call.vec] = Nil]
  /\ call' = NoCall
  /\ UNCHANGED <<mem, vecs>>

\* ptr::copy of the tail to target, and the length with it.
MoveTail(d, target) ==
  [p \in Slots |->
     IF p \in target .. target + d.tail_len - 1
     THEN mem[p - target + d.elements + d.tail] ELSE mem[p]]

\* Mutation: the tail is moved to where the Drain has got to.
DrainDropEndsAtStart ==
  /\ call.op = "drain"
  /\ LET d == drains[call.vec]
     IN  /\ d.start = d.end
         /\ mem' = MoveTail(d, d.elements + d.start)
         /\ vecs' = [vecs EXCEPT ![call.vec].length = @ + d.tail_len]
  /\ drains' = [drains EXCEPT ![call.vec] = Nil]
  /\ call' = NoCall
  /\ UNCHANGED <<mode, inside, lost>>

DrainDropEnds ==
  /\ call.op = "drain"
  /\ LET d == drains[call.vec]
     IN  /\ d.start = d.end
         /\ mem' = MoveTail(d, d.elements)
         /\ vecs' = [vecs EXCEPT ![call.vec].length = @ + d.tail_len]
  /\ drains' = [drains EXCEPT ![call.vec] = Nil]
  /\ call' = NoCall
  /\ UNCHANGED <<mode, inside, lost>>

------------------------------------------------------------------------------
\* The caller catches the panic.
Catch ==
  /\ Idle
  /\ mode = "panicking"
  /\ mode' = "running"
  /\ UNCHANGED <<mem, vecs, drains, call, inside, lost>>

Init ==
  /\ mem = [p \in Slots |-> Nil]
  /\ vecs = [v \in Vecs |-> Nil]
  /\ drains = [v \in Vecs |-> Nil]
  /\ call = NoCall
  /\ mode = "running"
  /\ inside = {}
  /\ lost = {}

LoopStep ==
  \/ \E e \in Elems : FillNext(e)
  \/ FillEnds
  \/ TruncateNext \/ TruncatePanics \/ TruncateEnds
  \/ DropNext \/ DropEnds
  \/ DrainDropNext \/ DrainDropPanics \/ DrainDropEnds

Next ==
  \/ \E v \in Vecs :
       \/ New(v) \/ Pop(v) \/ StartFill(v) \/ StartDrop(v) \/ Forget(v)
       \/ DrainNext(v) \/ DrainNextBack(v) \/ DrainForget(v) \/ StartDrainDrop(v)
       \/ \E e \in Elems : Push(v, e)
       \/ \E n \in Upto : StartTruncate(v, n)
       \/ \E from, to \in Upto : Drain(v, from, to)
       \/ \E at \in Upto, w \in Vecs \ {v} :
            SplitBorrowed(v, at, w) \/ SplitAndShrinkTo(v, at, w)
  \/ LoopStep
  \/ Catch

Spec == Init /\ [][Next]_vars

------------------------------------------------------------------------------
(* Properties *)

TypeOK ==
  /\ mem \in [Slots -> Elems \cup {Nil}]
  /\ vecs \in [Vecs -> FixedVecs \cup {Nil}]
  /\ drains \in [Vecs -> Drains \cup {Nil}]
  /\ call \in Calls
  /\ mode \in {"running", "panicking", "aborted"}
  /\ inside \subseteq Elems
  /\ lost \subseteq inside

\* The slots whose element v, its Drain, or the loop that runs on v will drop.
\* truncate has dropped what lies behind local_len, although the length says
\* otherwise until it ends.
OwnSlots(v) ==
  IF vecs[v] = Nil THEN {}
  ELSE LET from == vecs[v].base +
             IF call.op = "drop" /\ call.vec = v THEN call.at ELSE 0
           to == IF call.op = "truncate" /\ call.vec = v
                 THEN vecs[v].base + call.at ELSE End(v)
       IN  from .. to - 1 \cup IF drains[v] = Nil THEN {} ELSE Remaining(drains[v])

\* No element is dropped twice, handed out twice, or handed out and dropped:
\* every slot that something will drop is one thing's alone, holds an element
\* that is still inside, and no two of them hold the same one.
OwnedOnce ==
  /\ \A v, w \in Vecs : v # w => OwnSlots(v) \cap OwnSlots(w) = {}
  /\ LET owned == UNION {OwnSlots(v) : v \in Vecs}
     IN  /\ Held(owned) \subseteq inside \ lost
         /\ \A p, q \in owned : mem[p] = mem[q] => p = q

\* "This means that other elements are still dropped when unwinding eventually
\* drops the FixedVec itself": what is inside will be dropped or handed out,
\* whoever panics when, except what a Drain leaves behind that is forgotten or
\* whose destructor panics, and what is in a vector that is forgotten.
NothingLost ==
  inside \ lost = Held(UNION {OwnSlots(v) : v \in Vecs})

\* How many steps a loop has left at most.
Left ==
  CASE call.op = "truncate" -> call.at - call.to
    [] call.op = "drop" -> vecs[call.vec].length - call.at
    [] call.op = "fill" -> call.at
    [] call.op = "drain" -> drains[call.vec].end - drains[call.vec].start
    [] OTHER -> 0

\* Every loop gets closer to its end with each element, and nothing else runs on
\* the vector before it is over: so it ends if destructors and iterators return.
LoopsShrink ==
  [][ ~ Idle => \/ call' = NoCall
                \/ /\ call'.op = call.op /\ call'.vec = call.vec
                   /\ 0 <= Left' /\ Left' < Left ]_vars

------------------------------------------------------------------------------
(* The sequences behind it *)

Read(from, to) == [i \in 1 .. to - from |-> mem[from + i - 1]]

ContentsOf(v) ==
  IF vecs[v] = Nil THEN Nil
  ELSE Read(vecs[v].base + IF call.op = "drop" /\ call.vec = v THEN call.at ELSE 0,
            IF call.op = "truncate" /\ call.vec = v
            THEN vecs[v].base + call.at ELSE End(v))

Abstract == INSTANCE VecSpec WITH
  contents <- [v \in Vecs |-> ContentsOf(v)],
  room <- [v \in Vecs |-> IF vecs[v] = Nil THEN 0 ELSE vecs[v].capacity],
  middle <- [v \in Vecs |->
    IF drains[v] = Nil THEN Nil
    ELSE Read(drains[v].elements + drains[v].start,
              drains[v].elements + drains[v].end)],
  tail <- [v \in Vecs |->
    IF drains[v] = Nil THEN << >>
    ELSE Read(drains[v].elements + drains[v].tail,
              drains[v].elements + drains[v].tail + drains[v].tail_len)]

\* Vectors behave as sequences do: in the order of their elements, with a range
\* cut out and closed again by a Drain, and with a tail split off.
SequenceSpec == Abstract!Spec
==============================================================================

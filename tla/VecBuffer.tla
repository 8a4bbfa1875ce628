------------------------------ MODULE VecBuffer ------------------------------
(***************************************************************************)
(* VecBuffer and TempVec of same-alloc/src/vec.rs: one allocation that is  *)
(* lent to vectors of ever different element types, as long as these have  *)
(* the same layout.  The program owns a vector and an option besides, with *)
(* which the contents of the TempVec may be exchanged.                     *)
(*                                                                         *)
(* heap and fate are what the allocator and the elements would say: the    *)
(* code itself keeps neither.                                              *)
(***************************************************************************)
EXTENDS Integers, FiniteSets, SequencesExt

CONSTANTS
  Items,       \* the elements
  Types,       \* their types: a name and a layout
  TypeOf,      \* the type of each element
  HeapBlocks,  \* allocations
  NoBlock,     \* what a vector of no capacity has
  MaxCap       \* bound: no vector gets longer

\* A vector of a type without a size never allocates; there are none here.
ASSUME VecBufferAssumption ==
  /\ NoBlock \notin HeapBlocks
  /\ Types # {}
  /\ \A type \in Types : type.size \in Nat \ {0} /\ type.align \in Nat \ {0}
  /\ TypeOf \in [Items -> Types]
  /\ MaxCap \in Nat \ {0}

VARIABLES
  vecs,  \* the vectors by who owns them, an Option being one of at most one item
  heap,  \* each allocation, with the layout it was made for
  fate   \* where each element is

bufferVars == <<vecs, heap, fate>>

Owners == {"buffer", "temp", "own", "option"}

Vec(type, block, cap, items) ==
  [there |-> TRUE, type |-> type, block |-> block, cap |-> cap, items |-> items]

EmptyVec(type) == Vec(type, NoBlock, 0, <<>>)

Absent == [EmptyVec(CHOOSE type \in Types : TRUE) EXCEPT !.there = FALSE]

FreeBlock == [state |-> "free", size |-> 0, align |-> 1]
BlockOf(type, cap) == [state |-> "live", size |-> cap * type.size, align |-> type.align]

------------------------------------------------------------------------------
(* Vec of the standard library *)

\* What becomes of the elements of a vector, and of its allocation.
Meet(v, end) == [i \in Items |-> IF i \in ToSet(v.items) THEN end ELSE fate[i]]
GivesBack(v) == [b \in HeapBlocks |-> IF b = v.block THEN FreeBlock ELSE heap[b]]

Create(o, type, cap) ==
  /\ ~ vecs[o].there
  /\ IF cap = 0
     THEN vecs' = [vecs EXCEPT ![o] = EmptyVec(type)] /\ UNCHANGED heap
     ELSE \E b \in HeapBlocks :
            /\ heap[b] = FreeBlock
            /\ vecs' = [vecs EXCEPT ![o] = Vec(type, b, cap, <<>>)]
            /\ heap' = [heap EXCEPT ![b] = BlockOf(type, cap)]
  /\ UNCHANGED fate

Drop(o) ==
  /\ vecs' = [vecs EXCEPT ![o] = Absent]
  /\ heap' = GivesBack(vecs[o])
  /\ fate' = Meet(vecs[o], "dropped")

\* A vector that is full grows, where it is or somewhere else.
Pushed(o, item) ==
  /\ LET v == vecs[o]
         longer == [v EXCEPT !.items = Append(@, item)]
     IN  IF Len(v.items) < v.cap
         THEN vecs' = [vecs EXCEPT ![o] = longer] /\ UNCHANGED heap
         ELSE \E b \in HeapBlocks :
                /\ b = v.block \/ heap[b] = FreeBlock
                /\ vecs' = [vecs EXCEPT ![o] = [longer EXCEPT !.block = b, !.cap = @ + 1]]
                /\ heap' = [GivesBack(v) EXCEPT ![b] = BlockOf(v.type, v.cap + 1)]
  /\ fate' = [fate EXCEPT ![item] = "held"]

Takes(o, item) == fate[item] = "caller" /\ TypeOf[item] = vecs[o].type

Push(o, item) ==
  /\ vecs[o].there
  /\ Takes(o, item)
  /\ Len(vecs[o].items) < MaxCap
  /\ Pushed(o, item)

Pop(o) ==
  /\ vecs[o].items # <<>>
  /\ vecs' = [vecs EXCEPT ![o].items = Front(@)]
  /\ fate' = [fate EXCEPT ![Last(vecs[o].items)] = "caller"]
  /\ UNCHANGED heap

\* shrink_to_fit.
ShrinkToFit(o) ==
  LET v == vecs[o]
      n == Len(v.items)
  IN  /\ n < v.cap
      /\ vecs' = [vecs EXCEPT ![o].cap = n, ![o].block = IF n = 0 THEN NoBlock ELSE @]
      /\ heap' = IF n = 0 THEN GivesBack(v)
                 ELSE [heap EXCEPT ![v.block] = BlockOf(v.type, n)]
      /\ UNCHANGED fate

\* mem::swap, or as much with mem::replace and mem::take.
Exchange ==
  /\ vecs["temp"].there /\ vecs["own"].there
  /\ vecs["temp"].type = vecs["own"].type
  /\ vecs' = [vecs EXCEPT !["temp"] = vecs["own"], !["own"] = vecs["temp"]]
  /\ UNCHANGED <<heap, fate>>

------------------------------------------------------------------------------
(* SameLayout *)

\* Mutation: the alignments are not compared.
SameSize(a, b) == a.size = b.size

SameLayout(a, b) == a.size = b.size /\ a.align = b.align

\* The allocation as a vector of another type, and its elements forgotten.
ForgetVec(v, type) == [v EXCEPT !.type = type, !.items = <<>>]

------------------------------------------------------------------------------
(* VecBuffer *)

WithCapacity(type, cap) == Create("buffer", type, cap)

\* From<Vec>; when an element panics as it is dropped the rest of them are
\* dropped still, and the vector with them.
FromVec ==
  /\ vecs["own"].there
  /\ ~ vecs["buffer"].there
  /\ vecs' = [vecs EXCEPT !["buffer"] = [vecs["own"] EXCEPT !.items = <<>>], !["own"] = Absent]
  /\ fate' = Meet(vecs["own"], "dropped")
  /\ UNCHANGED heap

FromVecPanics ==
  /\ vecs["own"].items # <<>>
  /\ ~ vecs["buffer"].there
  /\ Drop("own")

\* The buffer is left with a vector that has no allocation.
UseFor(type) ==
  LET from == vecs["buffer"]
  IN  /\ from.there
      /\ ~ vecs["temp"].there
      /\ SameLayout(from.type, type)
      /\ vecs' = [vecs EXCEPT !["temp"] = ForgetVec(from, type),
                              !["buffer"] = EmptyVec(from.type)]
      /\ fate' = Meet(from, "lost")
      /\ UNCHANGED heap

\* swap_internal_with: the buffer gets the allocation back, and what the buffer
\* had in the meantime is dropped with the TempVec.
TempDrop ==
  LET from == vecs["buffer"]
      vec == vecs["temp"]
  IN  /\ vec.there
      /\ vecs' = [vecs EXCEPT !["buffer"] = ForgetVec(vec, from.type), !["temp"] = Absent]
      /\ heap' = GivesBack(from)
      /\ fate' = [i \in Items |-> IF i \in ToSet(from.items) THEN "dropped"
                                  ELSE Meet(vec, "dropped")[i]]

\* An element panics in clear: the local vector is dropped as the stack unwinds,
\* and the buffer keeps the empty one.
TempDropPanics ==
  /\ vecs["temp"].items # <<>>
  /\ Drop("temp")

\* mem::forget.
TempForget ==
  LET vec == vecs["temp"]
  IN  /\ vec.there
      /\ vecs' = [vecs EXCEPT !["temp"] = Absent]
      /\ heap' = [b \in HeapBlocks |-> IF b = vec.block THEN [heap[b] EXCEPT !.state = "leaked"]
                                   ELSE heap[b]]
      /\ fate' = Meet(vec, "lost")

BufferDrop ==
  /\ vecs["buffer"].there
  /\ ~ vecs["temp"].there
  /\ Drop("buffer")

------------------------------------------------------------------------------
BufferInit ==
  /\ vecs = [o \in Owners |-> Absent]
  /\ heap = [b \in HeapBlocks |-> FreeBlock]
  /\ fate = [i \in Items |-> "caller"]

UsesBuffer ==
  \/ \E type \in Types, cap \in 0 .. MaxCap : WithCapacity(type, cap)
  \/ \E type \in Types : UseFor(type)
  \/ FromVec \/ FromVecPanics
  \/ TempDrop \/ TempDropPanics \/ TempForget
  \/ BufferDrop

UsesVec ==
  \/ \E type \in Types, cap \in 0 .. MaxCap : Create("own", type, cap)
  \/ \E o \in {"own", "temp"} : ShrinkToFit(o) \/ Pop(o) \/ (\E item \in Items : Push(o, item))
  \/ vecs["own"].there /\ Drop("own")
  \/ Exchange

------------------------------------------------------------------------------
(* Properties *)

BuffersTypeOK ==
  /\ vecs \in [Owners -> [there : BOOLEAN, type : Types, block : HeapBlocks \cup {NoBlock},
                          cap : 0 .. MaxCap, items : Seq(Items)]]
  /\ heap \in [HeapBlocks -> [state : {"free", "live", "leaked"}, size : Nat, align : Nat]]
  /\ fate \in [Items -> {"caller", "held", "dropped", "lost"}]

\* Every allocation in use belongs to one vector, which would give it back with
\* the layout it was made for.
AllocationsOwned ==
  /\ \A o \in Owners : vecs[o].block # NoBlock =>
       heap[vecs[o].block] = BlockOf(vecs[o].type, vecs[o].cap)
  /\ \A b \in HeapBlocks :
       Cardinality({o \in Owners : vecs[o].block = b}) = (IF heap[b].state = "live" THEN 1 ELSE 0)

\* Every element is in one place, in a vector of its type.
ElementsOwned ==
  /\ \A o \in Owners :
       /\ IsInjective(vecs[o].items)
       /\ \A i \in ToSet(vecs[o].items) : fate[i] = "held" /\ TypeOf[i] = vecs[o].type
  /\ \A i \in Items : fate[i] = "held" =>
       Cardinality({o \in Owners : i \in ToSet(vecs[o].items)}) = 1

\* Nothing is forgotten when the buffer is lent.
BufferEmpty == vecs["buffer"].items = <<>>

\* The marker lets an allocation change its type only where every vector that
\* ends up with it can free it, and no element is dropped twice, as another type,
\* or not at all, even when one panics as it is dropped.
BuffersSound == BuffersTypeOK /\ AllocationsOwned /\ ElementsOwned /\ BufferEmpty
==============================================================================

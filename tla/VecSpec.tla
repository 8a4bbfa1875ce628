------------------------------- MODULE VecSpec -------------------------------
(***************************************************************************)
(* What without-alloc/src/fixed_vec.rs promises: a FixedVec is a sequence  *)
(* of bounded length, and a Drain cuts such a sequence in three, gives     *)
(* away the middle one from either end and joins the others when dropped.  *)
(* There is no memory here, and an element is wherever the sequences say.  *)
(***************************************************************************)
EXTENDS Integers, Sequences, SequencesExt

CONSTANTS Elems, Vecs, Capacity, Nil

VARIABLES
  contents,  \* the elements of each vector, or Nil
  room,      \* the capacity of each vector
  middle,    \* what the Drain of each vector has still to yield, or Nil
  tail       \* what comes back when that Drain is dropped

vars == <<contents, room, middle, tail>>

Exists(v) == contents[v] # Nil

Whole(v) == Exists(v) /\ middle[v] = Nil

Create(v) ==
  /\ ~ Exists(v)
  /\ contents' = [contents EXCEPT ![v] = << >>]
  /\ room' = [room EXCEPT ![v] = Capacity]
  /\ UNCHANGED <<middle, tail>>

Push(v, e) ==
  /\ Whole(v)
  /\ Len(contents[v]) < room[v]
  /\ contents' = [contents EXCEPT ![v] = Append(@, e)]
  /\ UNCHANGED <<room, middle, tail>>

TakeLast(v) ==
  /\ Whole(v)
  /\ contents[v] # << >>
  /\ contents' = [contents EXCEPT ![v] = Front(@)]
  /\ UNCHANGED <<room, middle, tail>>

\* Only the destructor of the vector takes elements from its front.
DropFirst(v) ==
  /\ Whole(v)
  /\ contents[v] # << >>
  /\ contents' = [contents EXCEPT ![v] = Tail(@)]
  /\ UNCHANGED <<room, middle, tail>>

Discard(v) ==
  /\ Whole(v)
  /\ contents' = [contents EXCEPT ![v] = Nil]
  /\ room' = [room EXCEPT ![v] = 0]
  /\ UNCHANGED <<middle, tail>>

\* The elements from at on go to w, with the capacity behind them.  Whether v
\* keeps its own depends on whether w only borrows it.
Split(v, at, w, borrowed) ==
  /\ Whole(v)
  /\ ~ Exists(w)
  /\ at <= room[v]
  /\ LET kept == IF at < Len(contents[v]) THEN at ELSE Len(contents[v])
     IN  contents' = [contents EXCEPT
           ![v] = SubSeq(@, 1, kept),
           ![w] = SubSeq(contents[v], kept + 1, Len(contents[v]))]
  /\ room' = [room EXCEPT ![v] = IF borrowed THEN @ ELSE at, ![w] = room[v] - at]
  /\ UNCHANGED <<middle, tail>>

CutOut(v, from, to) ==
  /\ Whole(v)
  /\ from <= to
  /\ to <= Len(contents[v])
  /\ contents' = [contents EXCEPT ![v] = SubSeq(@, 1, from)]
  /\ middle' = [middle EXCEPT ![v] = SubSeq(contents[v], from + 1, to)]
  /\ tail' = [tail EXCEPT ![v] = SubSeq(contents[v], to + 1, Len(contents[v]))]
  /\ UNCHANGED room

YieldFirst(v) ==
  /\ middle[v] \notin {Nil, << >>}
  /\ middle' = [middle EXCEPT ![v] = Tail(@)]
  /\ UNCHANGED <<contents, room, tail>>

YieldLast(v) ==
  /\ middle[v] \notin {Nil, << >>}
  /\ middle' = [middle EXCEPT ![v] = Front(@)]
  /\ UNCHANGED <<contents, room, tail>>

Join(v) ==
  /\ middle[v] = << >>
  /\ contents' = [contents EXCEPT ![v] = @ \o tail[v]]
  /\ middle' = [middle EXCEPT ![v] = Nil]
  /\ tail' = [tail EXCEPT ![v] = << >>]
  /\ UNCHANGED room

\* A Drain that is forgotten, or whose destructor panics, takes the tail along.
LoseTail(v) ==
  /\ middle[v] # Nil
  /\ middle' = [middle EXCEPT ![v] = Nil]
  /\ tail' = [tail EXCEPT ![v] = << >>]
  /\ UNCHANGED <<contents, room>>

Init ==
  /\ contents = [v \in Vecs |-> Nil]
  /\ room = [v \in Vecs |-> 0]
  /\ middle = [v \in Vecs |-> Nil]
  /\ tail = [v \in Vecs |-> << >>]

Next ==
  \E v \in Vecs :
    \/ Create(v) \/ TakeLast(v) \/ DropFirst(v) \/ Discard(v)
    \/ YieldFirst(v) \/ YieldLast(v) \/ Join(v) \/ LoseTail(v)
    \/ \E e \in Elems : Push(v, e)
    \/ \E from, to \in 0 .. Capacity : CutOut(v, from, to)
    \/ \E at \in 0 .. Capacity, w \in Vecs \ {v}, borrowed \in BOOLEAN :
         Split(v, at, w, borrowed)

Spec == Init /\ [][Next]_vars
==============================================================================

--------------------------- MODULE FixedVecProofs ---------------------------
(***************************************************************************)
(* Nothing in a FixedVec is dropped twice, or forgotten by the code, for   *)
(* any number of vectors split from one another, any elements and any      *)
(* panics among their destructors: FixedVecInv is inductive.  And vectors  *)
(* in memory behave as the sequences of VecSpec do.                        *)
(***************************************************************************)
EXTENDS FixedVec, SequenceTheorems, TLAPS

------------------------------------------------------------------------------
(* The inductive invariant *)

\* Where the memory of v ends.
Limit(v) == vecs[v].base + vecs[v].capacity

Lends(v) == \E w \in Vecs : vecs[w] # Nil /\ vecs[w].lender = v

\* The vectors that borrow their memory from one in S are in S.
Closed(S) == \A w \in Vecs : vecs[w] # Nil /\ vecs[w].lender \in S => w \in S

\* v and those that borrow from it, directly or not.
Borrowers(v) ==
  {w \in Vecs : \A S \in SUBSET Vecs : v \in S /\ Closed(S) => w \in S}

\* The memory of w is behind the elements of v, from which it is borrowed.
Inside(w, v) ==
  /\ w \in Borrowers(v)
  /\ End(v) <= vecs[w].base
  /\ Limit(w) <= Limit(v)

Apart(v, w) == Limit(v) <= vecs[w].base \/ Limit(w) <= vecs[v].base

Nested ==
  \A v, w \in Vecs : vecs[v] # Nil /\ vecs[w] # Nil /\ v # w =>
    Apart(v, w) \/ Inside(v, w) \/ Inside(w, v)

VecsSound ==
  \A v \in Vecs : vecs[v] # Nil => vecs[v].length <= vecs[v].capacity /\ Limit(v) <= Capacity

DrainsSound ==
  \A v \in Vecs : drains[v] # Nil =>
    /\ vecs[v] # Nil
    /\ ~ Lends(v)
    /\ drains[v].elements = End(v)
    /\ End(v) + drains[v].tail + drains[v].tail_len <= Limit(v)

CallSound ==
  ~ Idle =>
    /\ vecs[call.vec] # Nil
    /\ ~ Lends(call.vec)
    /\ (call.op = "drain") <=> (drains[call.vec] # Nil)
    /\ call.op = "truncate" => call.to <= call.at /\ call.at <= vecs[call.vec].length
    /\ call.op = "drop" => call.at <= vecs[call.vec].length
    /\ call.op = "fill" => call.at + vecs[call.vec].length = vecs[call.vec].capacity

Memory ==
  /\ vecs \in [Vecs -> FixedVecs \cup {Nil}]
  /\ drains \in [Vecs -> Drains \cup {Nil}]
  /\ Nested /\ VecsSound /\ DrainsSound

\* Who uses which memory.
Shape ==
  /\ Memory
  /\ call \in Calls
  /\ mode \in {"running", "panicking", "aborted"}
  /\ CallSound

Owned == UNION {OwnSlots(v) : v \in Vecs}

\* Which elements are there.
Contents ==
  /\ mem \in [Slots -> Elems \cup {Nil}]
  /\ inside \subseteq Elems
  /\ lost \subseteq inside
  /\ Held(Owned) = inside \ lost
  /\ \A p, q \in Owned : mem[p] = mem[q] => p = q

FixedVecInv == Shape /\ Contents

------------------------------------------------------------------------------
(* What the types say *)

LEMMA VecFields ==
  ASSUME Shape, NEW v \in Vecs, vecs[v] # Nil
  PROVE  /\ vecs[v] \in FixedVecs
         /\ vecs[v].base \in Nat /\ vecs[v].length \in Nat /\ vecs[v].capacity \in Nat
         /\ vecs[v].lender \in Vecs \cup {Nil}
         /\ End(v) \in Nat /\ Limit(v) \in Nat
         /\ vecs[v].base <= End(v) /\ End(v) <= Limit(v) /\ Limit(v) <= Capacity
  BY FixedVecAssumption DEF Shape, Memory, VecsSound, FixedVecs, Upto, End, Limit

LEMMA DrainFields ==
  ASSUME Shape, NEW v \in Vecs, drains[v] # Nil
  PROVE  /\ drains[v] \in Drains
         /\ drains[v].start \in Nat /\ drains[v].end \in Nat /\ drains[v].tail \in Nat
         /\ drains[v].tail_len \in Nat /\ drains[v].elements \in Nat
         /\ drains[v].start <= drains[v].end /\ drains[v].end <= drains[v].tail
  BY FixedVecAssumption DEF Shape, Memory, Drains, Upto

LEMMA CallFields ==
  ASSUME Shape, ~ Idle
  PROVE  /\ call.op \in {"truncate", "drop", "fill", "drain"}
         /\ call.vec \in Vecs
         /\ call.at \in Upto /\ call.to \in Upto
         /\ call.at \in Nat /\ call.to \in Nat
  BY FixedVecAssumption DEF Shape, Memory, Calls, Idle, Upto

LEMMA Running ==
  ASSUME call.op # "none"
  PROVE  ~ Idle
  BY DEF Idle, NoCall

------------------------------------------------------------------------------
(* Who borrows from whom *)

LEMMA Alone ==
  ASSUME NEW v \in Vecs, ~ Lends(v)
  PROVE  Borrowers(v) = {v}
<1>1. {v} \in SUBSET Vecs /\ Closed({v})
  BY DEF Closed, Lends
<1> QED
  BY <1>1 DEF Borrowers

LEMMA FreeDoesNotLend ==
  ASSUME NEW v \in Vecs, Free(v)
  PROVE  ~ Lends(v) /\ vecs[v] # Nil /\ drains[v] = Nil /\ Idle
  BY DEF Free, Lends

\* A stretch of slots without its first.
LEMMA WithoutFirst ==
  ASSUME NEW p \in Nat, NEW end \in Nat, p < end
  PROVE  p \in p .. end - 1 /\ p + 1 .. end - 1 = (p .. end - 1) \ {p}
  OBVIOUS

\* What v itself uses of its memory.
LEMMA OwnSlotsWithin ==
  ASSUME Shape, NEW v \in Vecs, vecs[v] # Nil
  PROVE  /\ OwnSlots(v) \subseteq vecs[v].base .. Limit(v) - 1
         /\ Lends(v) => OwnSlots(v) \subseteq vecs[v].base .. End(v) - 1
<1> DEFINE from == vecs[v].base + IF call.op = "drop" /\ call.vec = v THEN call.at ELSE 0
           to == IF call.op = "truncate" /\ call.vec = v THEN vecs[v].base + call.at ELSE End(v)
<1>1. /\ vecs[v].base \in Nat /\ vecs[v].length \in Nat /\ vecs[v].capacity \in Nat
      /\ End(v) \in Nat /\ Limit(v) \in Nat /\ End(v) <= Limit(v)
  BY VecFields
<1>2. from \in Nat /\ to \in Nat /\ from >= vecs[v].base /\ to <= End(v)
  <2>1. CASE Idle
    BY <1>1, <2>1 DEF Idle, NoCall
  <2>2. CASE ~ Idle
    <3>1. call.at \in Nat /\ CallSound
      BY <2>2, CallFields DEF Shape, Memory
    <3> QED
      BY <1>1, <2>2, <3>1 DEF CallSound, End
  <2> QED
    BY <2>1, <2>2
<1>3. from .. to - 1 \subseteq vecs[v].base .. End(v) - 1
  BY <1>1, <1>2
<1>4. CASE drains[v] = Nil
  <2>1. OwnSlots(v) = from .. to - 1
    BY <1>4 DEF OwnSlots
  <2> HIDE DEF from, to
  <2> QED
    BY <1>1, <1>3, <2>1
<1>5. CASE drains[v] # Nil
  <2>1. /\ drains[v].start \in Nat /\ drains[v].end \in Nat /\ drains[v].tail \in Nat
        /\ drains[v].tail_len \in Nat /\ drains[v].elements \in Nat
        /\ drains[v].start <= drains[v].end /\ drains[v].end <= drains[v].tail
    BY <1>5, DrainFields
  <2>2. /\ ~ Lends(v) /\ drains[v].elements = End(v)
        /\ End(v) + drains[v].tail + drains[v].tail_len <= Limit(v)
    BY <1>5 DEF Shape, Memory, DrainsSound
  <2>3. Remaining(drains[v]) \subseteq End(v) .. Limit(v) - 1
    BY <1>1, <2>1, <2>2 DEF Remaining
  <2>4. OwnSlots(v) = (from .. to - 1) \cup Remaining(drains[v])
    BY <1>5 DEF OwnSlots
  <2>5. vecs[v].base <= End(v)
    BY VecFields
  <2> HIDE DEF from, to
  <2> QED
    BY <1>1, <1>3, <2>2, <2>3, <2>4, <2>5
<1> QED
  BY <1>4, <1>5

LEMMA OwnSlotsApart ==
  ASSUME Shape, NEW v \in Vecs, NEW w \in Vecs, v # w
  PROVE  OwnSlots(v) \cap OwnSlots(w) = {}
<1>1. CASE vecs[v] = Nil \/ vecs[w] = Nil
  BY <1>1 DEF OwnSlots
<1>2. ASSUME NEW x \in Vecs, NEW y \in Vecs, vecs[x] # Nil, vecs[y] # Nil, x # y,
             Apart(x, y) \/ Inside(x, y)
      PROVE  OwnSlots(x) \cap OwnSlots(y) = {}
  <2>1. /\ OwnSlots(x) \subseteq vecs[x].base .. Limit(x) - 1
        /\ OwnSlots(y) \subseteq vecs[y].base .. Limit(y) - 1
        /\ Lends(y) => OwnSlots(y) \subseteq vecs[y].base .. End(y) - 1
    BY <1>2, OwnSlotsWithin
  <2>2. /\ vecs[x].base \in Nat /\ Limit(x) \in Nat
        /\ vecs[y].base \in Nat /\ Limit(y) \in Nat /\ End(y) \in Nat
    BY <1>2, VecFields
  <2>3. CASE Apart(x, y)
    BY <2>1, <2>2, <2>3 DEF Apart
  <2>4. CASE Inside(x, y)
    <3>1. Lends(y) /\ End(y) <= vecs[x].base
      BY <1>2, <2>4, Alone DEF Inside
    <3> QED
      BY <2>1, <2>2, <3>1
  <2> QED
    BY <1>2, <2>3, <2>4
<1>3. CASE vecs[v] # Nil /\ vecs[w] # Nil
  <2>1. Apart(v, w) \/ Inside(v, w) \/ Inside(w, v)
    BY <1>3 DEF Shape, Memory, Nested
  <2>2. CASE Apart(v, w) \/ Inside(v, w)
    BY <1>2, <1>3, <2>2
  <2>3. CASE Inside(w, v)
    BY <1>2, <1>3, <2>3
  <2> QED
    BY <2>1, <2>2, <2>3
<1> QED
  BY <1>1, <1>3

------------------------------------------------------------------------------
(* Memory through the steps *)

\* Borrowing depends on who there is and whom each borrows from.
LEMMA SameBorrowers ==
  ASSUME \A w \in Vecs : /\ vecs'[w] # Nil <=> vecs[w] # Nil
                         /\ vecs[w] # Nil => vecs'[w].lender = vecs[w].lender
  PROVE  \A w \in Vecs : Borrowers(w)' = Borrowers(w) /\ (Lends(w)' <=> Lends(w))
<1>1. \A S \in SUBSET Vecs : Closed(S)' <=> Closed(S)
  BY DEF Closed
<1> QED
  BY <1>1 DEF Borrowers, Lends

\* v gets another length, and perhaps a Drain, or loses it.
LEMMA MemoryResizes ==
  ASSUME Memory, Shape, NEW v \in Vecs, vecs[v] # Nil,
         NEW n \in Nat, n <= vecs[v].capacity, n <= vecs[v].length \/ ~ Lends(v),
         vecs' = [vecs EXCEPT ![v].length = n],
         drains' \in [Vecs -> Drains \cup {Nil}],
         \A w \in Vecs : w # v => drains'[w] = drains[w],
         drains'[v] # Nil =>
           /\ ~ Lends(v)
           /\ drains'[v].elements = vecs[v].base + n
           /\ vecs[v].base + n + drains'[v].tail + drains'[v].tail_len <= Limit(v)
  PROVE  Memory' /\ \A w \in Vecs : Lends(w)' <=> Lends(w)
<1> DEFINE new == [vecs[v] EXCEPT !.length = n]
<1>1. /\ vecs[v] \in FixedVecs
      /\ vecs[v].base \in Nat /\ vecs[v].length \in Nat /\ vecs[v].capacity \in Nat
      /\ vecs[v].base <= End(v) /\ End(v) <= Limit(v) /\ Limit(v) <= Capacity
  BY VecFields
<1>2. /\ new \in FixedVecs /\ new # Nil
      /\ new.base = vecs[v].base /\ new.length = n
      /\ new.capacity = vecs[v].capacity /\ new.lender = vecs[v].lender
  <2>1. new \in FixedVecs
    BY <1>1, FixedVecAssumption DEF FixedVecs, Upto, Limit
  <2> QED
    BY <1>1, <2>1, NilAssumption DEF FixedVecs
<1>3. vecs'[v] = new /\ \A w \in Vecs : w # v => vecs'[w] = vecs[w]
  BY DEF Memory
<1>4. vecs' \in [Vecs -> FixedVecs \cup {Nil}]
  BY <1>2 DEF Memory
<1>5. \A w \in Vecs : Borrowers(w)' = Borrowers(w) /\ (Lends(w)' <=> Lends(w))
  BY <1>2, <1>3, SameBorrowers
<1>6. /\ \A w \in Vecs : Limit(w)' = Limit(w) /\ vecs'[w].base = vecs[w].base
      /\ \A w \in Vecs : w # v => End(w)' = End(w)
      /\ End(v)' = vecs[v].base + n
  BY <1>2, <1>3 DEF Limit, End
<1>7. \A x, y \in Vecs : Apart(x, y)' <=> Apart(x, y)
  BY <1>6 DEF Apart
<1>8. \A x, y \in Vecs : vecs[x] # Nil /\ x # y /\ Inside(x, y) => Inside(x, y)'
  <2> TAKE x, y \in Vecs
  <2> HAVE vecs[x] # Nil /\ x # y /\ Inside(x, y)
  <2>1. CASE y # v
    BY <1>5, <1>6, <2>1 DEF Inside
  <2>2. CASE y = v
    <3>1. Lends(v)
      BY <2>2, Alone DEF Inside
    <3>2. End(v)' <= vecs[x].base
      BY <1>1, <1>6, <3>1, <2>2, VecFields DEF Inside, End
    <3> QED
      BY <1>5, <1>6, <2>2, <3>2 DEF Inside
  <2> QED
    BY <2>1, <2>2
<1>9. Nested'
  BY <1>2, <1>3, <1>7, <1>8 DEF Memory, Nested
<1>10. VecsSound'
  BY <1>2, <1>3, <1>6, <1>1 DEF Memory, VecsSound
<1>11. DrainsSound'
  BY <1>2, <1>3, <1>5, <1>6 DEF Memory, DrainsSound
<1> QED
  BY <1>4, <1>5, <1>9, <1>10, <1>11 DEF Memory

\* v is gone, from which nothing borrows.
LEMMA MemoryRemoves ==
  ASSUME Shape, NEW v \in Vecs, ~ Lends(v), drains[v] = Nil,
         vecs' = [vecs EXCEPT ![v] = Nil], drains' = drains
  PROVE  Memory'
<1>1. vecs'[v] = Nil /\ \A w \in Vecs : w # v => vecs'[w] = vecs[w]
  BY DEF Shape, Memory
<1>2. vecs' \in [Vecs -> FixedVecs \cup {Nil}]
  BY DEF Shape, Memory
<1>3. \A w \in Vecs : w # v => Limit(w)' = Limit(w) /\ End(w)' = End(w)
  BY <1>1 DEF Limit, End
<1>4. \A w \in Vecs : Lends(w)' => Lends(w)
  BY <1>1 DEF Lends
<1>5. ASSUME NEW x \in Vecs, NEW y \in Vecs, x # v, x \in Borrowers(y)
      PROVE  x \in Borrowers(y)'
  <2> SUFFICES ASSUME NEW S \in SUBSET Vecs, y \in S, Closed(S)'
               PROVE  x \in S
    BY DEF Borrowers
  <2>1. Closed(S \cup {v})
    BY <1>1 DEF Closed, Lends
  <2> QED
    BY <1>5, <2>1 DEF Borrowers
<1>6. Nested'
  <2> SUFFICES ASSUME NEW x \in Vecs, NEW y \in Vecs, vecs'[x] # Nil, vecs'[y] # Nil, x # y
               PROVE  Apart(x, y)' \/ Inside(x, y)' \/ Inside(y, x)'
    BY DEF Nested
  <2>1. x # v /\ y # v /\ vecs[x] # Nil /\ vecs[y] # Nil
    BY <1>1
  <2>2. Apart(x, y) \/ Inside(x, y) \/ Inside(y, x)
    BY <2>1 DEF Shape, Memory, Nested
  <2>3. Apart(x, y) => Apart(x, y)'
    BY <1>1, <1>3, <2>1 DEF Apart
  <2>4. Inside(x, y) => Inside(x, y)'
    BY <1>1, <1>3, <1>5, <2>1 DEF Inside
  <2>5. Inside(y, x) => Inside(y, x)'
    BY <1>1, <1>3, <1>5, <2>1 DEF Inside
  <2> QED
    BY <2>2, <2>3, <2>4, <2>5
<1>7. VecsSound'
  BY <1>1, <1>3 DEF Shape, Memory, VecsSound
<1>8. DrainsSound'
  BY <1>1, <1>3, <1>4 DEF Shape, Memory, DrainsSound
<1> QED
  BY <1>2, <1>6, <1>7, <1>8 DEF Shape, Memory

LEMMA ResizedType ==
  ASSUME NEW vec \in FixedVecs, NEW length \in Upto, NEW capacity \in Upto
  PROVE  [vec EXCEPT !.length = length, !.capacity = capacity] \in FixedVecs
  BY DEF FixedVecs

\* Both parts of a split, whichever way it was done.
LEMMA SplitParts ==
  ASSUME Shape, NEW v \in Vecs, NEW w \in Vecs, v # w, NEW at \in Upto,
         NEW lender \in {v, vecs[v].lender}, Split(v, at, w, lender)
  PROVE  /\ ~ Lends(v) /\ vecs[v] # Nil /\ vecs[w] = Nil
         /\ Kept(v, at) \in Nat /\ Kept(v, at) <= vecs[v].length /\ Kept(v, at) <= at
         /\ vecs' \in [Vecs -> FixedVecs \cup {Nil}]
         /\ vecs'[v] # Nil /\ vecs'[w] # Nil
         /\ vecs'[v].base = vecs[v].base /\ vecs'[v].lender = vecs[v].lender
         /\ vecs'[v].length = Kept(v, at)
         /\ vecs'[v].capacity = IF lender = v THEN vecs[v].capacity ELSE at
         /\ vecs'[w].base = vecs[v].base + at /\ vecs'[w].lender = lender
         /\ vecs'[w].length = vecs[v].length - Kept(v, at)
         /\ vecs'[w].capacity = vecs[v].capacity - at
         /\ at <= vecs[v].capacity
         /\ \A x \in Vecs : x # v /\ x # w => vecs'[x] = vecs[x]
<1> DEFINE k == Kept(v, at)
           one == [vecs[v] EXCEPT !.length = k,
                                  !.capacity = IF lender = v THEN @ ELSE at]
           two == [base |-> vecs[v].base + at, capacity |-> vecs[v].capacity - at,
                   length |-> vecs[v].length - k, lender |-> lender]
<1>1. ~ Lends(v) /\ vecs[v] # Nil /\ vecs[w] = Nil /\ at <= vecs[v].capacity
  BY FreeDoesNotLend DEF Split, Usable
<1>2. /\ vecs[v] \in FixedVecs
      /\ vecs[v].base \in Nat /\ vecs[v].length \in Nat /\ vecs[v].capacity \in Nat
      /\ vecs[v].length <= vecs[v].capacity /\ vecs[v].base + vecs[v].capacity <= Capacity
      /\ vecs[v].lender \in Vecs \cup {Nil}
      /\ at \in Nat /\ Capacity \in Nat
  BY <1>1, VecFields, FixedVecAssumption DEF Shape, Memory, VecsSound, Limit, Upto
<1>3. k \in Nat /\ k <= vecs[v].length /\ k <= at
  BY <1>2 DEF Kept
<1> HIDE DEF k
<1>4. one \in FixedVecs /\ one # Nil
  <2>1. (IF lender = v THEN vecs[v].capacity ELSE at) \in Upto /\ k \in Upto
    BY <1>1, <1>2, <1>3 DEF Upto
  <2>2. one \in FixedVecs
    BY <1>2, <2>1, ResizedType
  <2> QED
    BY <2>2, NilAssumption
<1>5. two \in FixedVecs /\ two # Nil
  <2>1. two \in FixedVecs
    BY <1>1, <1>2, <1>3 DEF FixedVecs, Upto
  <2> QED
    BY <2>1, NilAssumption
<1>6. vecs' = [vecs EXCEPT ![v] = one, ![w] = two]
  BY DEF Split, k, Shape, Memory
<1>7. vecs'[v] = one /\ vecs'[w] = two /\ \A x \in Vecs : x # v /\ x # w => vecs'[x] = vecs[x]
  BY <1>6 DEF Shape, Memory
<1>8. vecs' \in [Vecs -> FixedVecs \cup {Nil}]
  BY <1>4, <1>5, <1>6 DEF Shape, Memory
<1>9. /\ one.base = vecs[v].base /\ one.lender = vecs[v].lender /\ one.length = k
      /\ one.capacity = IF lender = v THEN vecs[v].capacity ELSE at
  BY <1>2 DEF FixedVecs
<1>10. /\ two.base = vecs[v].base + at /\ two.lender = lender
       /\ two.length = vecs[v].length - k
       /\ two.capacity = vecs[v].capacity - at
  OBVIOUS
<1> HIDE DEF one, two
<1> QED
  BY <1>1, <1>3, <1>4, <1>5, <1>7, <1>8, <1>9, <1>10 DEF k

LEMMA MemorySplits ==
  ASSUME Shape, NEW v \in Vecs, NEW w \in Vecs, v # w, NEW at \in Upto,
         NEW lender \in {v, vecs[v].lender}, Split(v, at, w, lender)
  PROVE  Memory'
<1> DEFINE k == Kept(v, at)
<1>1. /\ ~ Lends(v) /\ vecs[v] # Nil /\ vecs[w] = Nil
      /\ k \in Nat /\ k <= vecs[v].length /\ k <= at
      /\ vecs' \in [Vecs -> FixedVecs \cup {Nil}]
      /\ vecs'[v] # Nil /\ vecs'[w] # Nil
      /\ vecs'[v].base = vecs[v].base /\ vecs'[v].lender = vecs[v].lender
      /\ vecs'[v].length = k
      /\ vecs'[v].capacity = IF lender = v THEN vecs[v].capacity ELSE at
      /\ vecs'[w].base = vecs[v].base + at /\ vecs'[w].lender = lender
      /\ vecs'[w].length = vecs[v].length - k
      /\ vecs'[w].capacity = vecs[v].capacity - at
      /\ at <= vecs[v].capacity
      /\ \A x \in Vecs : x # v /\ x # w => vecs'[x] = vecs[x]
  BY SplitParts
<1>2. /\ vecs[v].base \in Nat /\ vecs[v].length \in Nat /\ vecs[v].capacity \in Nat
      /\ vecs[v].length <= vecs[v].capacity
      /\ Limit(v) = vecs[v].base + vecs[v].capacity /\ Limit(v) <= Capacity
      /\ at \in Nat /\ Capacity \in Nat
  BY <1>1, VecFields, FixedVecAssumption DEF Shape, Memory, VecsSound, Limit, Upto
<1> HIDE DEF k
<1>3. /\ Limit(v)' <= Limit(v) /\ Limit(w)' = Limit(v)
      /\ End(v)' <= vecs'[w].base /\ Limit(v)' \in Nat
      /\ lender # v => Limit(v)' = vecs'[w].base
  BY <1>1, <1>2 DEF Limit, End
<1>4. \A x \in Vecs : x # v /\ x # w => Limit(x)' = Limit(x) /\ End(x)' = End(x)
  BY <1>1 DEF Limit, End
<1>5. ASSUME NEW S \in SUBSET Vecs, Closed(S)'
      PROVE  Closed(S)
  BY <1>1, <1>5 DEF Closed
<1>6. \A x, y \in Vecs : x \in Borrowers(y) => x \in Borrowers(y)'
  BY <1>5 DEF Borrowers
<1>7. ASSUME NEW y \in Vecs, v \in Borrowers(y), lender = v \/ y # v
      PROVE  w \in Borrowers(y)'
  <2> SUFFICES ASSUME NEW S \in SUBSET Vecs, y \in S, Closed(S)', w \notin S
               PROVE  FALSE
    BY DEF Borrowers
  <2>1. v \in S
    BY <1>5, <1>7 DEF Borrowers
  <2>2. lender \notin S
    BY <1>1 DEF Closed
  <2>3. lender = vecs[v].lender /\ y # v
    BY <1>7, <2>1, <2>2
  <2>4. Closed(S \ {v})
    BY <1>5, <2>2, <2>3 DEF Closed
  <2> QED
    BY <1>7, <2>3, <2>4 DEF Borrowers
<1>8. Nested'
  <2> DEFINE Good(x, y) == Apart(x, y) \/ Inside(x, y) \/ Inside(y, x)
  <2>1. Good(v, w)'
    <3>1. CASE lender # v
      BY <1>3, <3>1 DEF Apart
    <3>2. CASE lender = v
      <4>1. v \in Borrowers(v)
        BY DEF Borrowers
      <4>2. w \in Borrowers(v)'
        BY <1>7, <3>2, <4>1
      <4>3. Limit(w)' <= Limit(v)'
        BY <1>1, <1>2, <1>3, <3>2 DEF Limit
      <4> QED
        BY <1>3, <4>2, <4>3 DEF Inside
    <3> QED
      BY <3>1, <3>2
  <2>2. ASSUME NEW x \in Vecs, x # v, x # w, vecs[x] # Nil
        PROVE  Good(v, x)' /\ Good(w, x)'
    <3>1. vecs'[x] = vecs[x] /\ Limit(x)' = Limit(x) /\ End(x)' = End(x)
      BY <1>1, <1>4, <2>2
    <3>2. /\ vecs[x].base \in Nat /\ Limit(x) \in Nat /\ End(x) \in Nat
      BY <2>2, VecFields
    <3>3. CASE Apart(v, x)
      BY <1>1, <1>2, <1>3, <3>1, <3>2, <3>3 DEF Apart
    <3>4. CASE Inside(v, x)
      <4>1. v \in Borrowers(x) /\ End(x) <= vecs[v].base /\ Limit(v) <= Limit(x)
        BY <3>4 DEF Inside
      <4>2. v \in Borrowers(x)' /\ w \in Borrowers(x)'
        BY <1>6, <1>7, <2>2, <4>1
      <4>3. Inside(v, x)'
        BY <1>1, <1>2, <1>3, <3>1, <3>2, <4>1, <4>2 DEF Inside
      <4>4. Inside(w, x)'
        BY <1>1, <1>2, <1>3, <3>1, <3>2, <4>1, <4>2 DEF Inside
      <4> QED
        BY <4>3, <4>4
    <3>5. ~ Inside(x, v)
      BY <1>1, <2>2, Alone DEF Inside
    <3> QED
      BY <1>1, <2>2, <3>3, <3>4, <3>5 DEF Shape, Memory, Nested
  <2>3. ASSUME NEW x \in Vecs, NEW y \in Vecs, x # v, x # w, y # v, y # w, x # y,
               vecs[x] # Nil, vecs[y] # Nil
        PROVE  Good(x, y)'
    <3>1. Good(x, y)
      BY <2>3 DEF Shape, Memory, Nested
    <3>2. /\ vecs'[x] = vecs[x] /\ Limit(x)' = Limit(x) /\ End(x)' = End(x)
          /\ vecs'[y] = vecs[y] /\ Limit(y)' = Limit(y) /\ End(y)' = End(y)
      BY <1>1, <1>4, <2>3
    <3> QED
      BY <1>6, <3>1, <3>2 DEF Apart, Inside
  <2>4. \A x, y \in Vecs : Good(x, y)' <=> Good(y, x)'
    BY DEF Apart
  <2> HIDE DEF Good
  <2>5. \A x, y \in Vecs : vecs'[x] # Nil /\ vecs'[y] # Nil /\ x # y => Good(x, y)'
    BY <1>1, <2>1, <2>2, <2>3, <2>4
  <2> QED
    BY <2>5 DEF Nested, Good
<1>9. VecsSound'
  <2> SUFFICES ASSUME NEW x \in Vecs, vecs'[x] # Nil
               PROVE  vecs'[x].length <= vecs'[x].capacity /\ Limit(x)' <= Capacity
    BY DEF VecsSound
  <2>1. CASE x = v
    BY <1>1, <1>2, <1>3, <2>1
  <2>2. CASE x = w
    BY <1>1, <1>2, <1>3, <2>2 DEF Kept, k
  <2>3. CASE x # v /\ x # w
    BY <1>1, <1>4, <2>3 DEF Shape, Memory, VecsSound
  <2> QED
    BY <2>1, <2>2, <2>3
<1>10. DrainsSound'
  <2> SUFFICES ASSUME NEW x \in Vecs, drains[x] # Nil
               PROVE  /\ vecs'[x] # Nil
                      /\ ~ Lends(x)'
                      /\ drains[x].elements = End(x)'
                      /\ End(x)' + drains[x].tail + drains[x].tail_len <= Limit(x)'
    BY DEF DrainsSound, Split
  <2>1. /\ vecs[x] # Nil /\ ~ Lends(x)
        /\ drains[x].elements = End(x)
        /\ End(x) + drains[x].tail + drains[x].tail_len <= Limit(x)
    BY DEF Shape, Memory, DrainsSound
  <2>2. x # v /\ x # w
    BY <1>1, <2>1, FreeDoesNotLend DEF Split, Usable
  <2>3. ~ Lends(x)'
    BY <1>1, <2>1, <2>2 DEF Lends
  <2> QED
    BY <1>1, <1>4, <2>1, <2>2, <2>3
<1> QED
  BY <1>1, <1>8, <1>9, <1>10 DEF Shape, Memory, Split

LEMMA MemoryStays ==
  ASSUME Memory, vecs' = vecs, drains' = drains
  PROVE  Memory' /\ \A w \in Vecs : (Lends(w)' <=> Lends(w)) /\ End(w)' = End(w)
<1>1. \A w \in Vecs : Borrowers(w)' = Borrowers(w) /\ (Lends(w)' <=> Lends(w))
  BY SameBorrowers
<1>2. \A w \in Vecs : Limit(w)' = Limit(w) /\ End(w)' = End(w)
  BY DEF Limit, End
<1>3. Nested'
  BY <1>1, <1>2 DEF Memory, Nested, Apart, Inside
<1>4. VecsSound' /\ DrainsSound'
  BY <1>1, <1>2 DEF Memory, VecsSound, DrainsSound
<1> QED
  BY <1>1, <1>2, <1>3, <1>4 DEF Memory

\* A Drain gets shorter, or is gone.
LEMMA MemoryDrains ==
  ASSUME Memory, NEW v \in Vecs, NEW d \in Drains \cup {Nil},
         vecs' = vecs, drains' = [drains EXCEPT ![v] = d], drains[v] # Nil,
         d # Nil => /\ d.elements = drains[v].elements
                    /\ d.tail = drains[v].tail /\ d.tail_len = drains[v].tail_len
  PROVE  Memory' /\ \A w \in Vecs : (Lends(w)' <=> Lends(w)) /\ End(w)' = End(w)
<1>1. \A w \in Vecs : Borrowers(w)' = Borrowers(w) /\ (Lends(w)' <=> Lends(w))
  BY SameBorrowers
<1>2. \A w \in Vecs : Limit(w)' = Limit(w) /\ End(w)' = End(w)
  BY DEF Limit, End
<1>3. Nested'
  BY <1>1, <1>2 DEF Memory, Nested, Apart, Inside
<1>4. VecsSound'
  BY <1>1, <1>2 DEF Memory, VecsSound
<1>5. drains'[v] = d /\ \A w \in Vecs : w # v => drains'[w] = drains[w]
  BY DEF Memory
<1>6. DrainsSound'
  BY <1>1, <1>2, <1>5 DEF Memory, DrainsSound
<1> QED
  BY <1>1, <1>2, <1>3, <1>4, <1>6 DEF Memory

------------------------------------------------------------------------------
(* Elements through the steps *)

First(v) == vecs[v].base + IF call.op = "drop" /\ call.vec = v THEN call.at ELSE 0

Past(v) ==
  IF call.op = "truncate" /\ call.vec = v THEN vecs[v].base + call.at ELSE End(v)

LEMMA OwnSlotsParts ==
  ASSUME NEW v \in Vecs, vecs[v] # Nil
  PROVE  OwnSlots(v) = First(v) .. Past(v) - 1
                         \cup IF drains[v] = Nil THEN {} ELSE Remaining(drains[v])
  BY DEF OwnSlots, First, Past

LEMMA OwnedInSlots ==
  ASSUME Shape
  PROVE  Owned \subseteq Slots
<1> SUFFICES ASSUME NEW v \in Vecs, NEW p \in OwnSlots(v)
             PROVE  p \in Slots
  BY DEF Owned
<1>1. vecs[v] # Nil
  BY DEF OwnSlots
<1>2. /\ vecs[v].base \in Nat /\ Limit(v) \in Nat /\ Limit(v) <= Capacity
      /\ OwnSlots(v) \subseteq vecs[v].base .. Limit(v) - 1
  BY <1>1, VecFields, OwnSlotsWithin
<1> QED
  BY <1>2, FixedVecAssumption DEF Slots

\* A step that is about v leaves what others own alone.
LEMMA OthersKeep ==
  ASSUME NEW v \in Vecs, NEW w \in Vecs, w # v,
         vecs'[w] = vecs[w], drains'[w] = drains[w],
         call.op \in {"drop", "truncate"} => call.vec = v,
         call'.op \in {"drop", "truncate"} => call'.vec = v
  PROVE  OwnSlots(w)' = OwnSlots(w)
  BY DEF OwnSlots, End, Remaining

LEMMA OwnedChanges ==
  ASSUME Shape, NEW v \in Vecs,
         \A w \in Vecs : w # v => OwnSlots(w)' = OwnSlots(w)
  PROVE  /\ Owned' = (Owned \ OwnSlots(v)) \cup OwnSlots(v)'
         /\ OwnSlots(v) \subseteq Owned
<1>1. \A w \in Vecs : w # v => OwnSlots(v) \cap OwnSlots(w) = {}
  BY OwnSlotsApart
<1> QED
  BY <1>1 DEF Owned

\* Some elements are dropped or handed out, others are lost.
LEMMA ElementsLeave ==
  ASSUME Shape, Contents, NEW out \in SUBSET Owned, NEW left \in SUBSET Owned,
         out \cap left = {},
         mem' = mem, Owned' = Owned \ (out \cup left),
         inside' = inside \ Held(out), lost' = lost \cup Held(left)
  PROVE  Contents'
<1>1. Held(Owned') = Held(Owned) \ (Held(out) \cup Held(left))
  BY DEF Held, Contents
<1>2. Held(out) \cap Held(left) = {} /\ Held(out) \cap lost = {}
  BY DEF Held, Contents
<1>3. Held(left) \subseteq inside
  BY DEF Held, Contents
<1>4. Held(Owned)' = Held(Owned')
  BY DEF Held
<1>5. Held(Owned)' = inside' \ lost'
  BY <1>1, <1>2, <1>3, <1>4 DEF Contents
<1>6. inside' \subseteq Elems /\ lost' \subseteq inside'
  BY <1>2, <1>3 DEF Contents
<1>7. \A p, q \in Owned' : mem'[p] = mem'[q] => p = q
  BY DEF Contents
<1> QED
  BY <1>5, <1>6, <1>7 DEF Contents

\* The same, of one vector.
LEMMA SlotsLeave ==
  ASSUME Shape, Contents, NEW v \in Vecs,
         NEW out \in SUBSET OwnSlots(v), NEW left \in SUBSET OwnSlots(v),
         out \cap left = {}, OwnSlots(v)' = OwnSlots(v) \ (out \cup left),
         \A w \in Vecs : w # v => OwnSlots(w)' = OwnSlots(w),
         mem' = mem, inside' = inside \ Held(out), lost' = lost \cup Held(left)
  PROVE  Contents'
<1>1. Owned' = (Owned \ OwnSlots(v)) \cup OwnSlots(v)' /\ OwnSlots(v) \subseteq Owned
  BY OwnedChanges
<1>2. Owned' = Owned \ (out \cup left)
  BY <1>1
<1>3. out \in SUBSET Owned /\ left \in SUBSET Owned
  BY <1>1
<1> QED
  BY <1>2, <1>3, ElementsLeave

LEMMA SlotLeaves ==
  ASSUME Shape, Contents, NEW v \in Vecs, NEW p \in OwnSlots(v),
         OwnSlots(v)' = OwnSlots(v) \ {p},
         \A w \in Vecs : w # v => OwnSlots(w)' = OwnSlots(w),
         mem' = mem, inside' = inside \ {mem[p]}, lost' = lost
  PROVE  Contents'
<1>1. /\ {p} \in SUBSET OwnSlots(v) /\ {} \in SUBSET OwnSlots(v)
      /\ OwnSlots(v)' = OwnSlots(v) \ ({p} \cup {})
      /\ Held({p}) = {mem[p]} /\ Held({}) = {}
  BY DEF Held
<1> QED
  BY <1>1, SlotsLeave

LEMMA ElementsStay ==
  ASSUME Shape, Contents, Owned' = Owned, mem' = mem, inside' = inside, lost' = lost
  PROVE  Contents'
  BY DEF Contents, Held

LEMMA SlotsStay ==
  ASSUME Shape, Contents, NEW v \in Vecs, OwnSlots(v)' = OwnSlots(v),
         \A w \in Vecs : w # v => OwnSlots(w)' = OwnSlots(w),
         mem' = mem, inside' = inside, lost' = lost
  PROVE  Contents'
  BY OwnedChanges, ElementsStay

LEMMA ElementArrives ==
  ASSUME Shape, Contents, NEW e \in Elems, NEW p \in Slots, p \notin Owned, e \notin inside,
         mem' = [mem EXCEPT ![p] = e], Owned' = Owned \cup {p},
         inside' = inside \cup {e}, lost' = lost
  PROVE  Contents'
<1>1. mem'[p] = e /\ \A q \in Owned : mem'[q] = mem[q]
  BY OwnedInSlots DEF Contents
<1>2. Held(Owned)' = Held(Owned) \cup {e}
  BY <1>1 DEF Held
<1>3. \A q \in Owned : mem[q] # e
  BY DEF Held, Contents
<1>4. \A q, r \in Owned' : mem'[q] = mem'[r] => q = r
  BY <1>1, <1>3 DEF Contents
<1>5. mem' \in [Slots -> Elems \cup {Nil}]
  BY DEF Contents
<1>6. /\ inside' \subseteq Elems /\ lost' \subseteq inside'
      /\ Held(Owned)' = inside' \ lost'
  BY <1>2 DEF Contents
<1> QED
  BY <1>4, <1>5, <1>6 DEF Contents

\* Elements are moved to where nothing else is.
LEMMA ElementsMove ==
  ASSUME Shape, Contents, NEW from \in SUBSET Owned, NEW to \in SUBSET Slots,
         NEW source \in [to -> from],
         \A p \in from : \E q \in to : source[q] = p,
         \A p, q \in to : source[p] = source[q] => p = q,
         to \cap (Owned \ from) = {},
         mem' = [p \in Slots |-> IF p \in to THEN mem[source[p]] ELSE mem[p]],
         Owned' = (Owned \ from) \cup to, inside' = inside, lost' = lost
  PROVE  Contents'
<1>1. \A p \in to : mem'[p] = mem[source[p]] /\ source[p] \in from
  OBVIOUS
<1>2. \A p \in Owned \ from : mem'[p] = mem[p]
  BY OwnedInSlots
<1>3. mem' \in [Slots -> Elems \cup {Nil}]
  BY OwnedInSlots DEF Contents
<1>4. Held(Owned)' = Held(Owned)
  <2>1. Held(Owned)' \subseteq Held(Owned)
    BY <1>1, <1>2 DEF Held
  <2>2. Held(Owned) \subseteq Held(Owned)'
    <3>1. ASSUME NEW p \in Owned
          PROVE  \E q \in Owned' : mem'[q] = mem[p]
      <4>1. CASE p \in from
        <5>1. PICK q \in to : source[q] = p
          BY <4>1
        <5> QED
          BY <1>1, <5>1
      <4>2. CASE p \notin from
        BY <1>2, <4>2
      <4> QED
        BY <4>1, <4>2
    <3>2. ASSUME NEW x \in Held(Owned)
          PROVE  x \in Held(Owned)'
      <4>1. PICK p \in Owned : x = mem[p]
        BY <3>2 DEF Held
      <4>2. PICK q \in Owned' : mem'[q] = mem[p]
        BY <3>1
      <4> QED
        BY <4>1, <4>2 DEF Held
    <3> QED
      BY <3>2
  <2> QED
    BY <2>1, <2>2
<1>5. \A p, q \in Owned' : mem'[p] = mem'[q] => p = q
  <2> SUFFICES ASSUME NEW p \in Owned', NEW q \in Owned', mem'[p] = mem'[q]
               PROVE  p = q
    OBVIOUS
  <2>1. CASE p \in to /\ q \in to
    BY <1>1, <2>1 DEF Contents
  <2>2. CASE p \notin to /\ q \notin to
    BY <1>2, <2>2 DEF Contents
  <2>3. CASE p \in to /\ q \notin to
    BY <1>1, <1>2, <2>3 DEF Contents
  <2>4. CASE p \notin to /\ q \in to
    BY <1>1, <1>2, <2>4 DEF Contents
  <2> QED
    BY <2>1, <2>2, <2>3, <2>4
<1> QED
  BY <1>3, <1>4, <1>5 DEF Contents

------------------------------------------------------------------------------
(* The steps *)

\* A loop starts, or the thread stops unwinding.
LEMMA LoopsStart ==
  ASSUME FixedVecInv, NEW v \in Vecs,
         \/ StartFill(v) \/ StartDrop(v) \/ StartDrainDrop(v)
         \/ \E n \in Upto : StartTruncate(v, n)
  PROVE  FixedVecInv'
<1> USE DEF FixedVecInv
<1>1. Idle /\ vecs' = vecs /\ drains' = drains /\ mem' = mem /\ inside' = inside
      /\ lost' = lost /\ mode' = mode /\ call'.vec = v
  BY FreeDoesNotLend DEF StartFill, StartDrop, StartDrainDrop, StartTruncate, Usable
<1>2. Memory' /\ \A w \in Vecs : (Lends(w)' <=> Lends(w)) /\ End(w)' = End(w)
  BY <1>1, MemoryStays DEF Shape
<1>3. vecs[v] # Nil /\ ~ Lends(v)
  BY FreeDoesNotLend
     DEF StartFill, StartDrop, StartDrainDrop, StartTruncate, Usable, Shape, Memory, DrainsSound
<1>4. /\ vecs[v].base \in Nat /\ vecs[v].length \in Upto /\ vecs[v].capacity \in Upto
      /\ vecs[v].length \in Nat /\ vecs[v].capacity \in Nat
      /\ vecs[v].length <= vecs[v].capacity
  BY <1>3, VecFields DEF FixedVecs, Shape, Memory, VecsSound
<1>5. call.op = "none"
  BY <1>1 DEF Idle, NoCall
<1>6. ASSUME StartFill(v)
      PROVE  call' \in Calls /\ CallSound' /\ OwnSlots(v)' = OwnSlots(v)
  <2>1. call' = [op |-> "fill", vec |-> v, at |-> vecs[v].capacity - vecs[v].length, to |-> 0]
        /\ drains[v] = Nil
    BY <1>6, FreeDoesNotLend DEF StartFill, Usable
  <2>2. call' \in Calls
    BY <1>4, <2>1, FixedVecAssumption DEF Calls, Upto
  <2>3. CallSound'
    BY <1>1, <1>2, <1>3, <1>4, <2>1 DEF CallSound
  <2>4. OwnSlots(v)' = OwnSlots(v)
    BY <1>1, <1>2, <1>5, <2>1 DEF OwnSlots
  <2> QED
    BY <2>2, <2>3, <2>4
<1>7. ASSUME StartDrop(v)
      PROVE  call' \in Calls /\ CallSound' /\ OwnSlots(v)' = OwnSlots(v)
  <2>1. call' = [op |-> "drop", vec |-> v, at |-> 0, to |-> 0] /\ drains[v] = Nil
    BY <1>7, FreeDoesNotLend DEF StartDrop
  <2>2. call' \in Calls
    BY <1>4, <2>1, FixedVecAssumption DEF Calls, Upto
  <2>3. CallSound'
    BY <1>1, <1>2, <1>3, <1>4, <2>1 DEF CallSound
  <2>4. OwnSlots(v)' = OwnSlots(v)
    BY <1>1, <1>2, <1>5, <2>1 DEF OwnSlots
  <2> QED
    BY <2>2, <2>3, <2>4
<1>8. ASSUME StartDrainDrop(v)
      PROVE  call' \in Calls /\ CallSound' /\ OwnSlots(v)' = OwnSlots(v)
  <2>1. call' = [op |-> "drain", vec |-> v, at |-> 0, to |-> 0] /\ drains[v] # Nil
    BY <1>8 DEF StartDrainDrop
  <2>2. call' \in Calls
    BY <1>4, <2>1, FixedVecAssumption DEF Calls, Upto
  <2>3. CallSound'
    BY <1>1, <1>2, <1>3, <1>4, <2>1 DEF CallSound
  <2>4. OwnSlots(v)' = OwnSlots(v)
    <3>1. Remaining(drains[v])' = Remaining(drains[v])
      BY <1>1 DEF Remaining
    <3>2. OwnSlots(v) = (vecs[v].base + 0 .. End(v) - 1) \cup Remaining(drains[v])
      BY <1>3, <1>5, <2>1 DEF OwnSlots
    <3>3. OwnSlots(v)' = (vecs[v].base + 0 .. End(v) - 1) \cup Remaining(drains[v])
      BY <1>1, <1>2, <1>3, <2>1, <3>1 DEF OwnSlots
    <3> QED
      BY <3>2, <3>3
  <2> QED
    BY <2>2, <2>3, <2>4
<1>9. ASSUME NEW n \in Upto, StartTruncate(v, n)
      PROVE  call' \in Calls /\ CallSound' /\ OwnSlots(v)' = OwnSlots(v)
  <2>1. call' = [op |-> "truncate", vec |-> v, at |-> vecs[v].length, to |-> n]
        /\ drains[v] = Nil /\ n < vecs[v].length
    BY <1>9, FreeDoesNotLend DEF StartTruncate, Usable
  <2>2. call' \in Calls
    BY <1>4, <2>1, FixedVecAssumption DEF Calls, Upto
  <2>3. CallSound'
    BY <1>1, <1>2, <1>3, <1>4, <2>1, FixedVecAssumption DEF CallSound, Upto
  <2>4. OwnSlots(v)' = OwnSlots(v)
    BY <1>1, <1>2, <1>5, <2>1 DEF OwnSlots, End
  <2> QED
    BY <2>2, <2>3, <2>4
<1>10. call' \in Calls /\ CallSound' /\ OwnSlots(v)' = OwnSlots(v)
  BY <1>6, <1>7, <1>8, <1>9
<1>11. \A w \in Vecs : w # v => OwnSlots(w)' = OwnSlots(w)
  BY <1>1, <1>5, OthersKeep
<1>12. Owned' = Owned
  BY <1>10, <1>11, OwnedChanges
<1>13. Contents'
  BY <1>1, <1>12, ElementsStay
<1> QED
  BY <1>1, <1>2, <1>10, <1>13 DEF Shape

LEMMA Catches ==
  ASSUME FixedVecInv, Catch
  PROVE  FixedVecInv'
<1> USE DEF FixedVecInv
<1>1. /\ vecs' = vecs /\ drains' = drains /\ call' = call
      /\ mem' = mem /\ inside' = inside /\ lost' = lost /\ mode' = "running"
  BY DEF Catch
<1>2. Memory' /\ CallSound'
  BY <1>1, MemoryStays DEF Shape, CallSound, Catch, Idle
<1>3. Owned' = Owned
  BY <1>1 DEF Owned, OwnSlots, End, Remaining
<1> QED
  BY <1>1, <1>2, <1>3, ElementsStay DEF Shape

LEMMA NewStarts ==
  ASSUME FixedVecInv, NEW v \in Vecs, New(v)
  PROVE  FixedVecInv'
<1> USE DEF FixedVecInv
<1> DEFINE vec == [base |-> 0, capacity |-> Capacity, length |-> 0, lender |-> Nil]
<1>1. /\ \A w \in Vecs : vecs[w] = Nil
      /\ Idle /\ call' = call /\ mode' = mode /\ drains' = drains
      /\ vecs' = [vecs EXCEPT ![v] = vec]
      /\ mem' = [p \in Slots |-> Nil] /\ inside' = {} /\ lost' = {}
  BY DEF New
<1>2. \A w \in Vecs : drains[w] = Nil
  BY <1>1 DEF Shape, Memory, DrainsSound
<1>3. vec \in FixedVecs
  BY FixedVecAssumption DEF FixedVecs, Upto
<1>4. vecs'[v] = vec /\ \A w \in Vecs : w # v => vecs'[w] = Nil
  BY <1>1 DEF Shape, Memory
<1>5. vecs' \in [Vecs -> FixedVecs \cup {Nil}]
  BY <1>1, <1>3 DEF Shape, Memory
<1>6. Nested'
  BY <1>4 DEF Nested
<1>7. VecsSound'
  BY <1>4, FixedVecAssumption DEF VecsSound, Limit
<1>8. DrainsSound'
  BY <1>1, <1>2 DEF DrainsSound
<1>9. CallSound'
  BY <1>1 DEF CallSound, Idle
<1>10. OwnSlots(v)' = {} /\ \A w \in Vecs : w # v => OwnSlots(w)' = {}
  <2>1. call'.op = "none"
    BY <1>1 DEF Idle, NoCall
  <2>2. End(v)' = 0
    BY <1>4 DEF End
  <2> QED
    BY <1>1, <1>2, <1>4, <2>1, <2>2 DEF OwnSlots
<1>11. Contents'
  <2>1. Owned' = {}
    BY <1>10 DEF Owned
  <2> QED
    BY <1>1, <2>1 DEF Contents, Held
<1> QED
  BY <1>1, <1>5, <1>6, <1>7, <1>8, <1>9, <1>11 DEF Shape, Memory

\* The memory of a vector that lends none is nobody else's.
LEMMA MemoryIsFree ==
  ASSUME Shape, NEW v \in Vecs, vecs[v] # Nil, ~ Lends(v), NEW w \in Vecs, w # v
  PROVE  OwnSlots(w) \cap (vecs[v].base .. Limit(v) - 1) = {}
<1>1. CASE vecs[w] = Nil
  BY <1>1 DEF OwnSlots
<1>2. CASE vecs[w] # Nil
  <2>1. /\ vecs[w].base \in Nat /\ Limit(w) \in Nat /\ End(w) \in Nat
        /\ OwnSlots(w) \subseteq vecs[w].base .. Limit(w) - 1
        /\ Lends(w) => OwnSlots(w) \subseteq vecs[w].base .. End(w) - 1
        /\ vecs[v].base \in Nat /\ Limit(v) \in Nat
    BY <1>2, VecFields, OwnSlotsWithin
  <2>2. Apart(v, w) \/ Inside(v, w) \/ Inside(w, v)
    BY <1>2 DEF Shape, Memory, Nested
  <2>3. ~ Inside(w, v)
    BY Alone DEF Inside
  <2>4. CASE Apart(v, w)
    BY <2>1, <2>4 DEF Apart
  <2>5. CASE Inside(v, w)
    <3>1. Lends(w) /\ End(w) <= vecs[v].base
      BY <2>5, Alone DEF Inside
    <3> QED
      BY <2>1, <3>1
  <2> QED
    BY <2>2, <2>3, <2>4, <2>5
<1> QED
  BY <1>1, <1>2

\* The slot behind the last element is nobody's, and v's if written to.
LEMMA WriteArrives ==
  ASSUME FixedVecInv, NEW v \in Vecs, NEW e \in Elems, Write(v, e),
         vecs[v] # Nil, ~ Lends(v), drains[v] = Nil, drains' = drains,
         vecs[v].length < vecs[v].capacity, lost' = lost,
         call.op \notin {"drop", "truncate"}, call'.op \notin {"drop", "truncate"}
  PROVE  /\ Memory' /\ Contents'
         /\ vecs'[v] # Nil /\ ~ Lends(v)'
         /\ vecs'[v].length = vecs[v].length + 1 /\ vecs'[v].capacity = vecs[v].capacity
<1> USE DEF FixedVecInv
<1> DEFINE n == vecs[v].length + 1
<1>1. /\ vecs[v] \in FixedVecs
      /\ vecs[v].base \in Nat /\ vecs[v].length \in Nat /\ vecs[v].capacity \in Nat
      /\ Limit(v) \in Nat /\ Limit(v) <= Capacity
  BY VecFields
<1>2. vecs' = [vecs EXCEPT ![v].length = n]
  BY DEF Write
<1>3. Memory' /\ \A w \in Vecs : Lends(w)' <=> Lends(w)
  <2>1. n \in Nat /\ n <= vecs[v].capacity
    BY <1>1
  <2>2. Memory /\ drains' \in [Vecs -> Drains \cup {Nil}]
    BY DEF Shape, Memory
  <2> HIDE DEF n
  <2> QED
    BY <1>2, <2>1, <2>2, MemoryResizes
<1>4. vecs'[v] = [vecs[v] EXCEPT !.length = n] /\ \A w \in Vecs : w # v => vecs'[w] = vecs[w]
  BY <1>2 DEF Shape, Memory
<1>5. /\ vecs'[v].length = n /\ vecs'[v].base = vecs[v].base
      /\ vecs'[v].capacity = vecs[v].capacity
  BY <1>1, <1>4 DEF FixedVecs
<1>6. vecs'[v] # Nil
  <2>1. n \in Upto
    BY <1>1, FixedVecAssumption DEF FixedVecs, Upto
  <2>2. vecs'[v] \in FixedVecs
    BY <1>1, <1>4, <2>1 DEF FixedVecs
  <2> QED
    BY <2>2, NilAssumption
<1>7. OwnSlots(v) = vecs[v].base .. End(v) - 1
  BY <1>1 DEF OwnSlots
<1>8. OwnSlots(v)' = vecs[v].base .. End(v)
  BY <1>1, <1>5, <1>6 DEF OwnSlots, End
<1>9. Owned' = Owned \cup {End(v)}
  <2>1. \A w \in Vecs : w # v => OwnSlots(w)' = OwnSlots(w)
    BY <1>4, OthersKeep
  <2>2. OwnSlots(v)' = OwnSlots(v) \cup {End(v)}
    BY <1>1, <1>7, <1>8 DEF End
  <2> QED
    BY <2>1, <2>2, OwnedChanges
<1>10. End(v) \in Slots /\ End(v) \notin Owned
  <2>1. End(v) \in Slots
    BY <1>1, FixedVecAssumption DEF Slots, End, Limit
  <2>2. End(v) \notin OwnSlots(v)
    BY <1>1, <1>7 DEF End
  <2>3. \A w \in Vecs : w # v => End(v) \notin OwnSlots(w)
    <3>1. End(v) \in vecs[v].base .. Limit(v) - 1
      BY <1>1 DEF End, Limit
    <3> QED
      BY <3>1, MemoryIsFree
  <2> QED
    BY <2>1, <2>2, <2>3 DEF Owned
<1>11. Contents'
  BY <1>9, <1>10, ElementArrives DEF Write
<1> QED
  BY <1>3, <1>5, <1>6, <1>11

LEMMA Pushes ==
  ASSUME FixedVecInv, NEW v \in Vecs, NEW e \in Elems, Push(v, e)
  PROVE  FixedVecInv'
<1> USE DEF FixedVecInv
<1>1. /\ vecs[v] # Nil /\ ~ Lends(v) /\ drains[v] = Nil /\ Idle
      /\ Write(v, e) /\ vecs[v].length < vecs[v].capacity
      /\ drains' = drains /\ call' = call /\ mode' = mode /\ lost' = lost
  BY FreeDoesNotLend DEF Push, Usable
<1>2. call.op = "none"
  BY <1>1 DEF Idle, NoCall
<1>3. Memory' /\ Contents'
  BY <1>1, <1>2, WriteArrives
<1>4. CallSound'
  BY <1>1 DEF CallSound, Idle
<1> QED
  BY <1>1, <1>3, <1>4 DEF Shape

LEMMA Fills ==
  ASSUME FixedVecInv, NEW e \in Elems, FillNext(e)
  PROVE  FixedVecInv'
<1> USE DEF FixedVecInv
<1>0. PICK v \in Vecs : v = call.vec
  BY Running, CallFields DEF FillNext
<1>1. /\ call.op = "fill" /\ call.at > 0 /\ Write(v, e)
      /\ call' = [call EXCEPT !.at = @ - 1]
      /\ drains' = drains /\ mode' = mode /\ lost' = lost
  BY <1>0 DEF FillNext
<1>2. ~ Idle /\ call.at \in Nat /\ call.at \in Upto
  BY <1>1, Running, CallFields
<1>3. /\ vecs[v] # Nil /\ ~ Lends(v) /\ drains[v] = Nil
      /\ call.at + vecs[v].length = vecs[v].capacity
  BY <1>0, <1>1, <1>2 DEF Shape, CallSound
<1>4. vecs[v].length \in Nat /\ vecs[v].capacity \in Nat
  BY <1>3, VecFields
<1>5. call \in [op : {"truncate", "drop", "fill", "drain"}, vec : Vecs, at : Upto, to : Upto]
  BY <1>2 DEF Shape, Calls, Idle
<1>6. /\ call'.op = "fill" /\ call'.vec = v /\ call'.at = call.at - 1
      /\ call' \in Calls
  <2>1. call.at - 1 \in Upto
    BY <1>1, <1>2, FixedVecAssumption DEF Upto
  <2> QED
    BY <1>0, <1>1, <1>5, <2>1 DEF Calls
<1>7. /\ Memory' /\ Contents'
      /\ vecs'[v] # Nil /\ ~ Lends(v)'
      /\ vecs'[v].length = vecs[v].length + 1 /\ vecs'[v].capacity = vecs[v].capacity
  <2>1. vecs[v].length < vecs[v].capacity
    BY <1>1, <1>2, <1>3, <1>4
  <2> QED
    BY <1>1, <1>2, <1>3, <1>6, <2>1, WriteArrives
<1>8. CallSound'
  BY <1>1, <1>2, <1>3, <1>4, <1>6, <1>7 DEF CallSound
<1> QED
  BY <1>1, <1>6, <1>7, <1>8 DEF Shape

LEMMA FillsEnd ==
  ASSUME FixedVecInv, FillEnds
  PROVE  FixedVecInv'
<1> USE DEF FixedVecInv
<1>1. /\ vecs' = vecs /\ drains' = drains /\ call' = NoCall /\ call.op = "fill"
      /\ mem' = mem /\ inside' = inside /\ lost' = lost /\ mode' \in {"running", "panicking"}
  BY DEF FillEnds
<1>2. Memory' /\ CallSound' /\ call' \in Calls
  BY <1>1, MemoryStays DEF Shape, CallSound, Idle, Calls
<1>3. Owned' = Owned
  <2>1. \A v \in Vecs : OwnSlots(v)' = OwnSlots(v)
    BY <1>1 DEF OwnSlots, NoCall, End, Remaining
  <2> QED
    BY <2>1 DEF Owned
<1> QED
  BY <1>1, <1>2, <1>3, ElementsStay DEF Shape

\* The length of a vector without a Drain is set, by a step that is about it.
LEMMA Resized ==
  ASSUME Shape, NEW v \in Vecs, vecs[v] # Nil, drains[v] = Nil, drains' = drains,
         NEW n \in Nat, n <= vecs[v].length, vecs' = [vecs EXCEPT ![v].length = n]
  PROVE  /\ Memory'
         /\ vecs'[v] # Nil /\ vecs'[v].base = vecs[v].base /\ vecs'[v].length = n
         /\ \A w \in Vecs : w # v => vecs'[w] = vecs[w]
<1>1. /\ vecs[v] \in FixedVecs /\ vecs[v].length \in Nat /\ vecs[v].capacity \in Nat
      /\ vecs[v].length <= vecs[v].capacity
  BY VecFields DEF Shape, Memory, VecsSound
<1>2. Memory'
  <2>1. Memory /\ drains' \in [Vecs -> Drains \cup {Nil}] /\ n <= vecs[v].capacity
    BY <1>1 DEF Shape, Memory
  <2> QED
    BY <2>1, MemoryResizes
<1>3. vecs'[v] = [vecs[v] EXCEPT !.length = n] /\ \A w \in Vecs : w # v => vecs'[w] = vecs[w]
  BY DEF Shape, Memory
<1>4. vecs'[v].length = n /\ vecs'[v].base = vecs[v].base
  BY <1>1, <1>3 DEF FixedVecs
<1>5. vecs'[v] \in FixedVecs
  <2>1. n \in Upto
    BY <1>1, FixedVecAssumption DEF FixedVecs, Upto
  <2> QED
    BY <1>1, <1>3, <2>1 DEF FixedVecs
<1> QED
  BY <1>2, <1>3, <1>4, <1>5, NilAssumption

LEMMA Pops ==
  ASSUME FixedVecInv, NEW v \in Vecs, Pop(v)
  PROVE  FixedVecInv'
<1> USE DEF FixedVecInv
<1> DEFINE n == vecs[v].length - 1
<1>1. /\ vecs[v] # Nil /\ drains[v] = Nil /\ Idle /\ vecs[v].length > 0
      /\ drains' = drains /\ call' = call /\ mode' = mode /\ lost' = lost /\ mem' = mem
      /\ vecs' = [vecs EXCEPT ![v].length = n] /\ inside' = inside \ {mem[End(v) - 1]}
  BY FreeDoesNotLend DEF Pop, Usable
<1>2. vecs[v].base \in Nat /\ vecs[v].length \in Nat
  BY <1>1, VecFields
<1>3. n \in Nat /\ n <= vecs[v].length
  BY <1>1, <1>2
<1> HIDE DEF n
<1>4. /\ Memory'
      /\ vecs'[v] # Nil /\ vecs'[v].base = vecs[v].base /\ vecs'[v].length = n
      /\ \A w \in Vecs : w # v => vecs'[w] = vecs[w]
  BY <1>1, <1>3, Resized
<1>5. call.op = "none" /\ CallSound'
  BY <1>1 DEF Idle, NoCall, CallSound
<1>6. OwnSlots(v) = vecs[v].base .. End(v) - 1
  BY <1>1, <1>2, <1>5 DEF OwnSlots
<1>7. OwnSlots(v)' = vecs[v].base .. End(v) - 2
  BY <1>1, <1>2, <1>4, <1>5 DEF OwnSlots, End, n
<1>8. /\ OwnSlots(v)' = OwnSlots(v) \ {End(v) - 1} /\ End(v) - 1 \in OwnSlots(v)
  BY <1>1, <1>2, <1>6, <1>7 DEF End
<1>9. \A w \in Vecs : w # v => OwnSlots(w)' = OwnSlots(w)
  BY <1>1, <1>4, <1>5, OthersKeep
<1>10. Contents'
  BY <1>1, <1>8, <1>9, SlotLeaves
<1> QED
  BY <1>1, <1>4, <1>5, <1>10 DEF Shape

LEMMA Truncates ==
  ASSUME FixedVecInv, TruncateNext \/ TruncatePanics \/ TruncateEnds
  PROVE  FixedVecInv'
<1> USE DEF FixedVecInv
<1>0. PICK v \in Vecs : v = call.vec
  BY Running, CallFields DEF TruncateNext, TruncatePanics, TruncateEnds
<1>1. call.op = "truncate" /\ mem' = mem /\ drains' = drains
  BY DEF TruncateNext, TruncatePanics, TruncateEnds
<1>2. ~ Idle /\ call.at \in Nat /\ call.to \in Nat /\ call.at \in Upto
  BY <1>1, Running, CallFields
<1>3. /\ vecs[v] # Nil /\ ~ Lends(v) /\ drains[v] = Nil
      /\ call.to <= call.at /\ call.at <= vecs[v].length
  BY <1>0, <1>1, <1>2 DEF Shape, CallSound
<1>4. vecs[v].base \in Nat /\ vecs[v].length \in Nat
  BY <1>3, VecFields
<1>5. OwnSlots(v) = vecs[v].base .. vecs[v].base + call.at - 1
  BY <1>0, <1>1, <1>2, <1>3, <1>4 DEF OwnSlots
<1> DEFINE p == vecs[v].base + call.at - 1
<1>6. ASSUME TruncateNext
      PROVE  FixedVecInv'
  <2>1. /\ call.at > call.to /\ inside' = inside \ {mem[p]} /\ mode' = mode
        /\ call' = [call EXCEPT !.at = @ - 1] /\ vecs' = vecs /\ lost' = lost
    BY <1>0, <1>6 DEF TruncateNext, Drop
  <2>2. call \in [op : {"truncate", "drop", "fill", "drain"}, vec : Vecs, at : Upto, to : Upto]
    BY <1>2 DEF Shape, Calls, Idle
  <2>3. /\ call'.op = "truncate" /\ call'.vec = v /\ call'.at = call.at - 1
        /\ call'.to = call.to /\ call' \in Calls
    <3>1. call.at - 1 \in Upto
      BY <1>2, <2>1, FixedVecAssumption DEF Upto
    <3> QED
      BY <1>0, <1>1, <2>1, <2>2, <3>1 DEF Calls
  <2>4. Memory' /\ \A w \in Vecs : (Lends(w)' <=> Lends(w)) /\ End(w)' = End(w)
    BY <1>1, <2>1, MemoryStays DEF Shape
  <2>5. CallSound'
    <3>1. vecs'[v] # Nil /\ ~ Lends(v)' /\ drains'[v] = Nil
      BY <1>1, <1>3, <2>1, <2>4
    <3>2. call.to <= call.at - 1 /\ call.at - 1 <= vecs'[v].length
      BY <1>2, <1>3, <1>4, <2>1
    <3> QED
      BY <2>3, <3>1, <3>2 DEF CallSound
  <2>6. OwnSlots(v)' = vecs[v].base .. vecs[v].base + call.at - 2
    <3>0. /\ vecs'[v] # Nil /\ drains'[v] = Nil
          /\ ~ (call'.op = "drop" /\ call'.vec = v)
          /\ call'.op = "truncate" /\ call'.vec = v
      BY <1>1, <1>3, <2>1, <2>3
    <3>1. OwnSlots(v)' = vecs[v].base + 0 .. vecs[v].base + (call.at - 1) - 1
      <4>1. PICK b \in Nat, k \in Nat : b = vecs'[v].base /\ k = call'.at
        BY <1>2, <1>4, <2>1, <2>3
      <4>2. OwnSlots(v)' = b + 0 .. b + k - 1
        BY <3>0, <4>1 DEF OwnSlots
      <4>3. k = call.at - 1 /\ b = vecs[v].base
        BY <2>1, <2>3, <4>1
      <4> QED
        BY <4>2, <4>3
    <3>2. /\ vecs[v].base + 0 = vecs[v].base
          /\ vecs[v].base + (call.at - 1) - 1 = vecs[v].base + call.at - 2
      BY <1>2, <1>4
    <3> QED
      BY <3>1, <3>2
  <2>7. p \in OwnSlots(v) /\ OwnSlots(v)' = OwnSlots(v) \ {p}
    <3>1. PICK b \in Nat : b = vecs[v].base
      BY <1>4
    <3>2. p \in Int /\ b <= p /\ p = b + call.at - 1 /\ p - 1 = b + call.at - 2
      BY <1>2, <2>1, <3>1
    <3> HIDE DEF p
    <3>3. p \in b .. p /\ b .. p - 1 = (b .. p) \ {p}
      BY <3>2
    <3> QED
      BY <1>5, <2>6, <3>1, <3>2, <3>3
  <2>8. \A w \in Vecs : w # v => OwnSlots(w)' = OwnSlots(w)
    BY <1>0, <1>1, <2>1, <2>3, OthersKeep
  <2>9. Contents'
    BY <1>1, <2>1, <2>7, <2>8, SlotLeaves
  <2> QED
    BY <2>1, <2>3, <2>4, <2>5, <2>9 DEF Shape
<1>7. ASSUME NEW n \in Nat, n <= vecs[v].length,
             vecs' = [vecs EXCEPT ![v].length = n], call' = NoCall
      PROVE  /\ Memory' /\ call' \in Calls /\ CallSound'
             /\ OwnSlots(v)' = vecs[v].base .. vecs[v].base + n - 1
             /\ \A w \in Vecs : w # v => OwnSlots(w)' = OwnSlots(w)
  <2>1. /\ Memory'
        /\ vecs'[v] # Nil /\ vecs'[v].base = vecs[v].base /\ vecs'[v].length = n
        /\ \A w \in Vecs : w # v => vecs'[w] = vecs[w]
    BY <1>1, <1>3, <1>7, Resized
  <2>2. call' \in Calls /\ CallSound' /\ call'.op = "none"
    BY <1>7 DEF CallSound, Idle, Calls, NoCall
  <2>3. OwnSlots(v)' = vecs[v].base .. vecs[v].base + n - 1
    BY <1>1, <1>3, <1>4, <2>1, <2>2 DEF OwnSlots, End
  <2>4. \A w \in Vecs : w # v => OwnSlots(w)' = OwnSlots(w)
    BY <1>0, <1>1, <2>1, <2>2, OthersKeep
  <2> QED
    BY <2>1, <2>2, <2>3, <2>4
<1>8. ASSUME TruncatePanics
      PROVE  FixedVecInv'
  <2> DEFINE n == call.at - 1
  <2>1. /\ call.at > call.to /\ inside' = inside \ {mem[p]}
        /\ mode' = IF mode = "running" THEN "panicking" ELSE "aborted"
        /\ call' = NoCall /\ vecs' = [vecs EXCEPT ![v].length = n] /\ lost' = lost
    BY <1>0, <1>8 DEF TruncatePanics, DropPanics
  <2>2. n \in Nat /\ n <= vecs[v].length
    BY <1>2, <1>3, <1>4, <2>1
  <2> HIDE DEF n
  <2>3. /\ Memory' /\ call' \in Calls /\ CallSound'
        /\ OwnSlots(v)' = vecs[v].base .. vecs[v].base + n - 1
        /\ \A w \in Vecs : w # v => OwnSlots(w)' = OwnSlots(w)
    BY <1>7, <2>1, <2>2
  <2>4. p \in OwnSlots(v) /\ OwnSlots(v)' = OwnSlots(v) \ {p}
    <3>1. PICK b \in Nat : b = vecs[v].base
      BY <1>4
    <3>2. PICK last \in Int : last = b + n
      BY <2>2
    <3>3. p = last /\ b <= last
      BY <1>2, <1>4, <2>1, <2>2, <3>1, <3>2 DEF n
    <3>4. OwnSlots(v) = b .. last
      BY <1>5, <2>1, <3>1, <3>3
    <3>5. OwnSlots(v)' = b .. last - 1
      <4>1. PICK k \in Nat : k = n
        BY <2>2
      <4>2. OwnSlots(v)' = b .. b + k - 1
        BY <2>3, <3>1, <4>1, Zenon
      <4>3. last = b + k
        BY <3>2, <4>1
      <4> QED
        BY <4>2, <4>3
    <3> HIDE DEF p
    <3> QED
      BY <3>3, <3>4, <3>5
  <2>5. Contents'
    BY <1>1, <2>1, <2>3, <2>4, SlotLeaves
  <2> QED
    BY <2>1, <2>3, <2>5 DEF Shape
<1>9. ASSUME TruncateEnds
      PROVE  FixedVecInv'
  <2>1. /\ call' = NoCall /\ vecs' = [vecs EXCEPT ![v].length = call.at]
        /\ mode' = mode /\ inside' = inside /\ lost' = lost
    BY <1>0, <1>9 DEF TruncateEnds
  <2>2. /\ Memory' /\ call' \in Calls /\ CallSound'
        /\ OwnSlots(v)' = vecs[v].base .. vecs[v].base + call.at - 1
        /\ \A w \in Vecs : w # v => OwnSlots(w)' = OwnSlots(w)
    BY <1>2, <1>3, <1>7, <2>1
  <2>3. Contents'
    BY <1>1, <1>5, <2>1, <2>2, SlotsStay
  <2> QED
    BY <2>1, <2>2, <2>3 DEF Shape
<1> QED
  BY <1>6, <1>8, <1>9

LEMMA Drops ==
  ASSUME FixedVecInv, DropNext
  PROVE  FixedVecInv'
<1> USE DEF FixedVecInv
<1>0. PICK v \in Vecs : v = call.vec
  BY Running, CallFields DEF DropNext
<1> DEFINE p == vecs[v].base + call.at
<1>1. /\ call.op = "drop" /\ call.at < vecs[v].length
      /\ mem' = mem /\ vecs' = vecs /\ drains' = drains /\ lost' = lost
      /\ inside' = inside \ {mem[p]}
      /\ mode' = mode \/ mode' \in {"panicking", "aborted"}
      /\ call' = [call EXCEPT !.at = @ + 1]
  BY <1>0 DEF DropNext, Drop, DropPanics
<1>2. ~ Idle /\ call.at \in Nat /\ call.at \in Upto
  BY <1>1, Running, CallFields
<1>3. vecs[v] # Nil /\ ~ Lends(v) /\ drains[v] = Nil
  BY <1>0, <1>1, <1>2 DEF Shape, CallSound
<1>4. /\ vecs[v].base \in Nat /\ vecs[v].length \in Nat /\ vecs[v].length <= Capacity
      /\ Capacity \in Nat
  BY <1>3, VecFields, FixedVecAssumption DEF FixedVecs, Upto
<1>5. call \in [op : {"truncate", "drop", "fill", "drain"}, vec : Vecs, at : Upto, to : Upto]
  BY <1>2 DEF Shape, Calls, Idle
<1>6. /\ call'.op = "drop" /\ call'.vec = v /\ call'.at = call.at + 1
      /\ call' \in Calls
  <2>1. call.at + 1 \in Upto
    BY <1>1, <1>2, <1>4 DEF Upto
  <2> QED
    BY <1>0, <1>1, <1>5, <2>1 DEF Calls
<1>7. Memory' /\ \A w \in Vecs : (Lends(w)' <=> Lends(w)) /\ End(w)' = End(w)
  BY <1>1, MemoryStays DEF Shape
<1>8. CallSound'
  BY <1>1, <1>2, <1>3, <1>4, <1>6, <1>7 DEF CallSound
<1>9. OwnSlots(v) = p .. End(v) - 1
  BY <1>0, <1>1, <1>2, <1>3, <1>4 DEF OwnSlots
<1>10. OwnSlots(v)' = p + 1 .. End(v) - 1
  BY <1>1, <1>2, <1>3, <1>4, <1>6, <1>7 DEF OwnSlots
<1>11. p \in OwnSlots(v) /\ OwnSlots(v)' = OwnSlots(v) \ {p}
  <2>1. p \in Nat /\ End(v) \in Nat /\ p < End(v)
    BY <1>1, <1>2, <1>4 DEF End
  <2> HIDE DEF p
  <2> QED
    BY <1>9, <1>10, <2>1, WithoutFirst
<1>12. \A w \in Vecs : w # v => OwnSlots(w)' = OwnSlots(w)
  BY <1>0, <1>1, <1>6, OthersKeep
<1>13. Contents'
  BY <1>1, <1>11, <1>12, SlotLeaves
<1> QED
  BY <1>1, <1>6, <1>7, <1>8, <1>13 DEF Shape

\* A vector goes out of scope, empty, or forgotten with all that is in it.
LEMMA VecGoes ==
  ASSUME FixedVecInv, NEW v \in Vecs, ~ Lends(v), drains[v] = Nil,
         vecs' = [vecs EXCEPT ![v] = Nil], drains' = drains, call' = NoCall,
         call.op \in {"drop", "truncate"} => call.vec = v,
         mem' = mem, inside' = inside, lost' = lost \cup Held(OwnSlots(v)), mode' = mode
  PROVE  FixedVecInv'
<1> USE DEF FixedVecInv
<1>1. Memory'
  BY MemoryRemoves
<1>2. vecs'[v] = Nil /\ \A w \in Vecs : w # v => vecs'[w] = vecs[w]
  BY DEF Shape, Memory
<1>3. call' \in Calls /\ CallSound' /\ call'.op = "none"
  BY DEF CallSound, Idle, Calls, NoCall
<1>4. OwnSlots(v)' = {}
  BY <1>2 DEF OwnSlots
<1>5. \A w \in Vecs : w # v => OwnSlots(w)' = OwnSlots(w)
  BY <1>2, <1>3, OthersKeep
<1>6. Held({}) = {} /\ {} \in SUBSET OwnSlots(v) /\ OwnSlots(v) \in SUBSET OwnSlots(v)
  BY DEF Held
<1>7. Contents'
  BY <1>4, <1>5, <1>6, SlotsLeave
<1> QED
  BY <1>1, <1>3, <1>7 DEF Shape

LEMMA DropsEnd ==
  ASSUME FixedVecInv, DropEnds
  PROVE  FixedVecInv'
<1> USE DEF FixedVecInv
<1>0. PICK v \in Vecs : v = call.vec
  BY Running, CallFields DEF DropEnds
<1>1. /\ call.op = "drop" /\ call.at = vecs[v].length
      /\ mem' = mem /\ vecs' = [vecs EXCEPT ![v] = Nil] /\ drains' = drains /\ lost' = lost
      /\ inside' = inside /\ mode' = mode /\ call' = NoCall
  BY <1>0 DEF DropEnds
<1>2. ~ Idle
  BY <1>1, Running
<1>3. vecs[v] # Nil /\ ~ Lends(v) /\ drains[v] = Nil
  BY <1>0, <1>1, <1>2 DEF Shape, CallSound
<1>4. vecs[v].base \in Nat /\ vecs[v].length \in Nat
  BY <1>3, VecFields
<1>5. OwnSlots(v) = {}
  BY <1>0, <1>1, <1>3, <1>4 DEF OwnSlots, End
<1>6. lost' = lost \cup Held(OwnSlots(v))
  BY <1>1, <1>5 DEF Held
<1> QED
  BY <1>0, <1>1, <1>3, <1>6, VecGoes

LEMMA Forgets ==
  ASSUME FixedVecInv, NEW v \in Vecs, Forget(v)
  PROVE  FixedVecInv'
<1> USE DEF FixedVecInv
<1>1. /\ ~ Lends(v) /\ vecs[v] # Nil /\ drains[v] = Nil /\ Idle
      /\ lost' = lost \cup Held(vecs[v].base .. End(v) - 1)
      /\ vecs' = [vecs EXCEPT ![v] = Nil]
      /\ mem' = mem /\ drains' = drains /\ call' = call /\ mode' = mode /\ inside' = inside
  BY FreeDoesNotLend DEF Forget, Usable
<1>2. call.op = "none" /\ call' = NoCall
  BY <1>1 DEF Idle, NoCall
<1>3. vecs[v].base \in Nat
  BY <1>1, VecFields
<1>4. OwnSlots(v) = vecs[v].base .. End(v) - 1
  BY <1>1, <1>2, <1>3 DEF OwnSlots
<1> QED
  BY <1>1, <1>2, <1>4, VecGoes

LEMMA SplitsInTwo ==
  ASSUME FixedVecInv, NEW v \in Vecs, NEW w \in Vecs, v # w, NEW at \in Upto,
         NEW lender \in {v, vecs[v].lender}, Split(v, at, w, lender)
  PROVE  FixedVecInv'
<1> USE DEF FixedVecInv
<1> DEFINE k == Kept(v, at)
<1>1. /\ ~ Lends(v) /\ vecs[v] # Nil /\ vecs[w] = Nil /\ drains[v] = Nil /\ Idle
      /\ mem' = mem /\ drains' = drains /\ call' = call /\ mode' = mode
      /\ inside' = inside /\ lost' = lost
  BY FreeDoesNotLend DEF Split, Usable
<1>2. /\ k \in Nat /\ k <= vecs[v].length
      /\ vecs'[v] # Nil /\ vecs'[w] # Nil
      /\ vecs'[v].base = vecs[v].base /\ vecs'[v].length = k
      /\ vecs'[w].base = vecs[v].base + at
      /\ vecs'[w].length = vecs[v].length - k
      /\ \A x \in Vecs : x # v /\ x # w => vecs'[x] = vecs[x]
  BY SplitParts
<1>3. vecs[v].base \in Nat /\ vecs[v].length \in Nat /\ at \in Nat
  BY <1>1, VecFields, FixedVecAssumption DEF Upto
<1>4. k = at \/ k = vecs[v].length
  BY DEF Kept
<1> HIDE DEF k
<1>5. Memory'
  BY MemorySplits
<1>6. call.op = "none" /\ CallSound'
  BY <1>1 DEF Idle, NoCall, CallSound
<1>7. drains[w] = Nil
  BY <1>1 DEF Shape, Memory, DrainsSound
<1>8. OwnSlots(v) = vecs[v].base .. vecs[v].base + vecs[v].length - 1 /\ OwnSlots(w) = {}
  BY <1>1, <1>3, <1>6 DEF OwnSlots, End
<1>9. OwnSlots(v)' = vecs[v].base .. vecs[v].base + k - 1
  BY <1>1, <1>2, <1>3, <1>6 DEF OwnSlots, End
<1>10. OwnSlots(w)' = vecs[v].base + at .. vecs[v].base + at + (vecs[v].length - k) - 1
  BY <1>1, <1>2, <1>3, <1>6, <1>7 DEF OwnSlots, End
<1>11. OwnSlots(v)' \cup OwnSlots(w)' = OwnSlots(v) \cup OwnSlots(w)
  <2>1. CASE k = at
    <3>1. OwnSlots(w)' = vecs[v].base + k .. vecs[v].base + vecs[v].length - 1
      BY <1>2, <1>3, <1>10, <2>1
    <3>2. (vecs[v].base .. vecs[v].base + k - 1)
            \cup (vecs[v].base + k .. vecs[v].base + vecs[v].length - 1)
          = vecs[v].base .. vecs[v].base + vecs[v].length - 1
      BY <1>2, <1>3
    <3> QED
      BY <1>8, <1>9, <3>1, <3>2
  <2>2. CASE k = vecs[v].length
    <3>1. OwnSlots(w)' = {}
      BY <1>2, <1>3, <1>10, <2>2
    <3> QED
      BY <1>8, <1>9, <2>2, <3>1
  <2> QED
    BY <1>4, <2>1, <2>2
<1>12. \A x \in Vecs : x # v /\ x # w => OwnSlots(x)' = OwnSlots(x)
  BY <1>1, <1>2, <1>6, OthersKeep
<1>13. Owned' = Owned
  BY <1>11, <1>12 DEF Owned
<1> QED
  BY <1>1, <1>5, <1>6, <1>13, ElementsStay DEF Shape

LEMMA Splitting ==
  ASSUME FixedVecInv, NEW v \in Vecs, NEW w \in Vecs \ {v}, NEW at \in Upto,
         SplitBorrowed(v, at, w) \/ SplitAndShrinkTo(v, at, w)
  PROVE  FixedVecInv'
<1>1. CASE SplitBorrowed(v, at, w)
  BY <1>1, SplitsInTwo DEF SplitBorrowed
<1>2. CASE SplitAndShrinkTo(v, at, w)
  BY <1>2, SplitsInTwo DEF SplitAndShrinkTo
<1> QED
  BY <1>1, <1>2

\* What a Drain has to yield was v's own, and is now set apart.
LEMMA DrainStarts ==
  ASSUME FixedVecInv, NEW v \in Vecs, NEW from \in Upto, NEW to \in Upto, Drain(v, from, to)
  PROVE  FixedVecInv'
<1> USE DEF FixedVecInv
<1> DEFINE d == DrainOf(v, from, to)
<1>1. /\ ~ Lends(v) /\ vecs[v] # Nil /\ drains[v] = Nil /\ Idle
      /\ from <= to /\ to <= vecs[v].length
      /\ drains' = [drains EXCEPT ![v] = d] /\ vecs' = [vecs EXCEPT ![v].length = from]
      /\ mem' = mem /\ call' = call /\ mode' = mode /\ inside' = inside /\ lost' = lost
  BY FreeDoesNotLend DEF Drain, Usable
<1>2. /\ vecs[v].base \in Nat /\ vecs[v].length \in Nat /\ vecs[v].capacity \in Nat
      /\ from \in Nat /\ to \in Nat /\ Capacity \in Nat
      /\ vecs[v].length <= vecs[v].capacity
      /\ Limit(v) = vecs[v].base + vecs[v].capacity /\ Limit(v) <= Capacity
  BY <1>1, VecFields, FixedVecAssumption DEF Upto, Shape, Memory, VecsSound, Limit
<1>3. /\ d.start = 0 /\ d.end = to - from /\ d.tail = to - from
      /\ d.tail_len = vecs[v].length - to /\ d.elements = vecs[v].base + from
      /\ d \in Drains
  BY <1>1, <1>2 DEF DrainOf, Drains, Upto
<1>4. d # Nil
  BY <1>3, NilAssumption
<1> HIDE DEF d
<1>5. drains'[v] = d /\ \A w \in Vecs : w # v => drains'[w] = drains[w]
  BY <1>1 DEF Shape, Memory
<1>6. Memory'
  <2>1. drains' \in [Vecs -> Drains \cup {Nil}] /\ Memory
    BY <1>1, <1>3 DEF Shape, Memory
  <2>2. vecs[v].base + from + d.tail + d.tail_len <= Limit(v)
    BY <1>1, <1>2, <1>3
  <2>3. from <= vecs[v].capacity /\ from <= vecs[v].length
    BY <1>1, <1>2
  <2> QED
    BY <1>1, <1>2, <1>3, <1>5, <2>1, <2>2, <2>3, MemoryResizes
<1>7. /\ vecs'[v] # Nil /\ vecs'[v].base = vecs[v].base /\ vecs'[v].length = from
      /\ \A w \in Vecs : w # v => vecs'[w] = vecs[w]
  <2>1. vecs[v] \in FixedVecs
    BY <1>1, VecFields
  <2>2. vecs'[v] = [vecs[v] EXCEPT !.length = from] /\ \A w \in Vecs : w # v => vecs'[w] = vecs[w]
    BY <1>1 DEF Shape, Memory
  <2>3. vecs'[v] \in FixedVecs
    BY <2>1, <2>2 DEF FixedVecs
  <2> QED
    BY <2>1, <2>2, <2>3, NilAssumption DEF FixedVecs
<1>8. call.op = "none" /\ CallSound'
  BY <1>1 DEF Idle, NoCall, CallSound
<1>9. OwnSlots(v)' = OwnSlots(v)
  <2>1. OwnSlots(v) = vecs[v].base .. vecs[v].base + vecs[v].length - 1
    BY <1>1, <1>2, <1>8 DEF OwnSlots, End
  <2>2. OwnSlots(v)' = (vecs[v].base .. vecs[v].base + from - 1) \cup Remaining(d)
    <3>1. Remaining(drains[v])' = Remaining(d)
      BY <1>5 DEF Remaining
    <3> QED
      BY <1>1, <1>2, <1>4, <1>5, <1>7, <1>8, <3>1 DEF OwnSlots, End
  <2>3. Remaining(d) = vecs[v].base + from .. vecs[v].base + vecs[v].length - 1
    BY <1>1, <1>2, <1>3 DEF Remaining
  <2>4. PICK b \in Nat, l \in Nat, f \in Nat :
          b = vecs[v].base /\ l = vecs[v].length /\ f = from
    BY <1>1, <1>2
  <2>5. f <= l
    BY <1>1, <1>2, <2>4
  <2>6. b .. b + l - 1 = (b .. b + f - 1) \cup (b + f .. b + l - 1)
    BY <2>5
  <2> QED
    BY <2>1, <2>2, <2>3, <2>4, <2>6
<1>10. \A w \in Vecs : w # v => OwnSlots(w)' = OwnSlots(w)
  BY <1>1, <1>5, <1>7, <1>8, OthersKeep
<1>11. Contents'
  BY <1>1, <1>9, <1>10, SlotsStay
<1> QED
  BY <1>1, <1>6, <1>8, <1>11 DEF Shape

\* The slots of a vector that is being drained.
LEMMA DrainedSlots ==
  ASSUME Shape, NEW v \in Vecs, drains[v] # Nil, call.op \in {"none", "drain"}
  PROVE  /\ vecs[v] # Nil /\ ~ Lends(v)
         /\ vecs[v].base \in Nat /\ End(v) \in Nat /\ vecs[v].base <= End(v)
         /\ drains[v].elements = End(v)
         /\ OwnSlots(v) = (vecs[v].base .. End(v) - 1) \cup Remaining(drains[v])
         /\ Remaining(drains[v]) \subseteq OwnSlots(v)
<1>1. /\ vecs[v] # Nil /\ ~ Lends(v) /\ drains[v].elements = End(v)
  BY DEF Shape, Memory, DrainsSound
<1>2. vecs[v].base \in Nat /\ End(v) \in Nat /\ vecs[v].base <= End(v)
  BY <1>1, VecFields
<1>3. OwnSlots(v) = (vecs[v].base .. End(v) - 1) \cup Remaining(drains[v])
  BY <1>1, <1>2 DEF OwnSlots
<1> QED
  BY <1>1, <1>2, <1>3

\* One element less at either end of a Drain.
LEMMA DrainShortens ==
  ASSUME Shape, Contents, NEW v \in Vecs, drains[v] # Nil, drains[v].start # drains[v].end,
         NEW d, NEW p, vecs' = vecs, drains' = [drains EXCEPT ![v] = d], call' = call,
         call.op \in {"none", "drain"},
         \/ /\ d = [drains[v] EXCEPT !.start = @ + 1]
            /\ p = drains[v].elements + drains[v].start
         \/ /\ d = [drains[v] EXCEPT !.end = @ - 1]
            /\ p = drains[v].elements + drains[v].end - 1,
         mem' = mem, inside' = inside \ {mem[p]}, lost' = lost
  PROVE  Memory' /\ CallSound' /\ Contents'
<1> DEFINE c == drains[v]
<1>1. /\ c \in Drains
      /\ c.start \in Nat /\ c.end \in Nat /\ c.tail \in Nat
      /\ c.tail_len \in Nat /\ c.elements \in Nat
      /\ c.start <= c.end /\ c.end <= c.tail /\ c.start < c.end
  BY DrainFields
<1>2. /\ vecs[v] # Nil
      /\ vecs[v].base \in Nat /\ End(v) \in Nat
      /\ c.elements = End(v)
      /\ OwnSlots(v) = (vecs[v].base .. End(v) - 1) \cup Remaining(c)
  BY DrainedSlots
<1> HIDE DEF c
<1>3. d \in Drains
  <2>1. c.start + 1 \in Upto /\ c.end - 1 \in Upto
    BY <1>1, FixedVecAssumption DEF Drains, Upto
  <2>2. CASE d = [c EXCEPT !.start = @ + 1]
    BY <1>1, <2>1, <2>2 DEF Drains
  <2>3. CASE d = [c EXCEPT !.end = @ - 1]
    BY <1>1, <2>1, <2>3 DEF Drains
  <2> QED
    BY <2>2, <2>3 DEF c
<1>4. /\ d.elements = c.elements /\ d.tail = c.tail /\ d.tail_len = c.tail_len
      /\ \/ d.start = c.start + 1 /\ d.end = c.end /\ p = c.elements + c.start
         \/ d.start = c.start /\ d.end = c.end - 1 /\ p = c.elements + c.end - 1
  BY <1>1 DEF Drains, c
<1>5. Memory' /\ \A w \in Vecs : (Lends(w)' <=> Lends(w)) /\ End(w)' = End(w)
  BY <1>3, <1>4, MemoryDrains DEF Shape, c
<1>6. drains'[v] = d /\ d # Nil /\ \A w \in Vecs : w # v => drains'[w] = drains[w]
  BY <1>3, NilAssumption DEF Shape, Memory
<1>7. CallSound'
  <2>1. CASE Idle
    BY <2>1 DEF CallSound, Idle
  <2>2. CASE ~ Idle
    <3>1. call.vec \in Vecs /\ call.op = "drain"
      BY <2>2, CallFields
    <3>2. /\ vecs[call.vec] # Nil /\ ~ Lends(call.vec)
          /\ drains[call.vec] # Nil
      BY <2>2, <3>1 DEF Shape, CallSound
    <3>3. drains'[call.vec] # Nil /\ ~ Lends(call.vec)'
      BY <1>5, <1>6, <3>1, <3>2
    <3> QED
      BY <3>1, <3>2, <3>3 DEF CallSound
  <2> QED
    BY <2>1, <2>2
<1>8. Remaining(d) = Remaining(c) \ {p} /\ p \in Remaining(c) /\ p >= End(v) /\ p \in Nat
  BY <1>1, <1>2, <1>4 DEF Remaining
<1>9. OwnSlots(v)' = (vecs[v].base .. End(v) - 1) \cup Remaining(d)
  <2>1. Remaining(drains[v])' = Remaining(d)
    BY <1>6 DEF Remaining
  <2> QED
    BY <1>2, <1>5, <1>6, <2>1 DEF OwnSlots
<1>10. p \in OwnSlots(v) /\ OwnSlots(v)' = OwnSlots(v) \ {p}
  BY <1>2, <1>8, <1>9
<1>11. \A w \in Vecs : w # v => OwnSlots(w)' = OwnSlots(w)
  BY <1>6, OthersKeep
<1>12. Contents'
  BY <1>10, <1>11, SlotLeaves
<1> QED
  BY <1>5, <1>7, <1>12

LEMMA DrainYields ==
  ASSUME FixedVecInv, NEW v \in Vecs, DrainNext(v) \/ DrainNextBack(v)
  PROVE  FixedVecInv'
<1> USE DEF FixedVecInv
<1>1. /\ Idle /\ drains[v] # Nil /\ drains[v].start # drains[v].end
      /\ vecs' = vecs /\ mem' = mem /\ call' = call /\ mode' = mode /\ lost' = lost
  BY DEF DrainNext, DrainNextBack
<1>2. call.op = "none"
  BY <1>1 DEF Idle, NoCall
<1>3. ASSUME DrainNext(v)
      PROVE  Memory' /\ CallSound' /\ Contents'
  <2> DEFINE d == [drains[v] EXCEPT !.start = @ + 1]
             p == drains[v].elements + drains[v].start
  <2>1. drains' = [drains EXCEPT ![v] = d] /\ inside' = inside \ {mem[p]}
    BY <1>3 DEF DrainNext
  <2> HIDE DEF FixedVecInv
  <2> QED
    BY <1>1, <1>2, <2>1, DrainShortens DEF FixedVecInv
<1>4. ASSUME DrainNextBack(v)
      PROVE  Memory' /\ CallSound' /\ Contents'
  <2> DEFINE d == [drains[v] EXCEPT !.end = @ - 1]
             p == drains[v].elements + drains[v].end - 1
  <2>1. drains' = [drains EXCEPT ![v] = d] /\ inside' = inside \ {mem[p]}
    BY <1>4 DEF DrainNextBack
  <2> QED
    BY <1>1, <1>2, <2>1, DrainShortens
<1> QED
  BY <1>1, <1>3, <1>4 DEF Shape

LEMMA DrainDrops ==
  ASSUME FixedVecInv, DrainDropNext
  PROVE  FixedVecInv'
<1> USE DEF FixedVecInv
<1>0. PICK v \in Vecs : v = call.vec
  BY Running, CallFields DEF DrainDropNext
<1> DEFINE d == [drains[v] EXCEPT !.start = @ + 1]
           p == drains[v].elements + drains[v].start
<1>1. /\ call.op = "drain" /\ drains[v].start # drains[v].end
      /\ inside' = inside \ {mem[p]} /\ mode' = mode
      /\ drains' = [drains EXCEPT ![v] = d]
      /\ vecs' = vecs /\ mem' = mem /\ call' = call /\ lost' = lost
  BY <1>0 DEF DrainDropNext, Drop
<1>2. drains[v] # Nil
  BY <1>0, <1>1, Running DEF Shape, CallSound
<1>3. Memory' /\ CallSound' /\ Contents'
  BY <1>1, <1>2, DrainShortens
<1> QED
  BY <1>1, <1>3 DEF Shape

\* A Drain is gone, and the elements it had left are dropped or lost.
LEMMA DrainGoes ==
  ASSUME FixedVecInv, NEW v \in Vecs, drains[v] # Nil, call.op \in {"none", "drain"},
         NEW out \in SUBSET Remaining(drains[v]),
         vecs' = vecs, drains' = [drains EXCEPT ![v] = Nil], call' = NoCall,
         mode' \in {"running", "panicking", "aborted"},
         mem' = mem, inside' = inside \ Held(out),
         lost' = lost \cup Held(Remaining(drains[v]) \ out)
  PROVE  FixedVecInv'
<1> USE DEF FixedVecInv
<1>1. /\ vecs[v] # Nil
      /\ vecs[v].base \in Nat /\ End(v) \in Nat
      /\ drains[v].elements = End(v)
      /\ OwnSlots(v) = (vecs[v].base .. End(v) - 1) \cup Remaining(drains[v])
  BY DrainedSlots
<1>2. Memory' /\ \A w \in Vecs : (Lends(w)' <=> Lends(w)) /\ End(w)' = End(w)
  BY MemoryDrains DEF Shape
<1>3. drains'[v] = Nil /\ \A w \in Vecs : w # v => drains'[w] = drains[w]
  BY DEF Shape, Memory
<1>4. call' \in Calls /\ CallSound' /\ call'.op = "none"
  BY DEF CallSound, Idle, Calls, NoCall
<1>5. OwnSlots(v)' = vecs[v].base .. End(v) - 1
  BY <1>1, <1>2, <1>3, <1>4 DEF OwnSlots
<1>6. \A p \in Remaining(drains[v]) : p >= End(v)
  BY <1>1, DrainFields DEF Remaining
<1>7. OwnSlots(v)' = OwnSlots(v) \ Remaining(drains[v])
  BY <1>1, <1>5, <1>6
<1>8. \A w \in Vecs : w # v => OwnSlots(w)' = OwnSlots(w)
  BY <1>3, <1>4, OthersKeep
<1>9. Contents'
  <2>1. /\ out \in SUBSET OwnSlots(v) /\ Remaining(drains[v]) \ out \in SUBSET OwnSlots(v)
        /\ out \cap (Remaining(drains[v]) \ out) = {}
        /\ OwnSlots(v)' = OwnSlots(v) \ (out \cup (Remaining(drains[v]) \ out))
    BY <1>1, <1>7
  <2> QED
    BY <1>8, <2>1, SlotsLeave
<1> QED
  BY <1>2, <1>4, <1>9 DEF Shape

LEMMA DrainForgets ==
  ASSUME FixedVecInv, NEW v \in Vecs, DrainForget(v)
  PROVE  FixedVecInv'
<1>1. /\ Idle /\ mode = "running" /\ drains[v] # Nil
      /\ lost' = lost \cup Held(Remaining(drains[v]))
      /\ drains' = [drains EXCEPT ![v] = Nil]
      /\ mem' = mem /\ vecs' = vecs /\ call' = call /\ mode' = mode /\ inside' = inside
  BY DEF DrainForget
<1>2. call.op = "none" /\ call' = NoCall
  BY <1>1 DEF Idle, NoCall
<1>3. Held({}) = {}
  BY DEF Held
<1>4. /\ {} \in SUBSET Remaining(drains[v])
      /\ inside' = inside \ Held({})
      /\ lost' = lost \cup Held(Remaining(drains[v]) \ {})
  BY <1>1, <1>3
<1> QED
  BY <1>1, <1>2, <1>4, DrainGoes

LEMMA DrainPanics ==
  ASSUME FixedVecInv, DrainDropPanics
  PROVE  FixedVecInv'
<1>0. PICK v \in Vecs : v = call.vec
  BY Running, CallFields DEF DrainDropPanics, FixedVecInv
<1> DEFINE d == [drains[v] EXCEPT !.start = @ + 1]
           p == drains[v].elements + drains[v].start
<1>1. /\ call.op = "drain" /\ drains[v].start # drains[v].end
      /\ inside' = inside \ {mem[p]} /\ mode' \in {"panicking", "aborted"}
      /\ lost' = lost \cup Held(Remaining(d))
      /\ drains' = [drains EXCEPT ![v] = Nil]
      /\ vecs' = vecs /\ mem' = mem /\ call' = NoCall
  BY <1>0 DEF DrainDropPanics, DropPanics
<1>2. drains[v] # Nil
  BY <1>0, <1>1, Running DEF FixedVecInv, Shape, CallSound
<1>3. /\ drains[v] \in Drains
      /\ drains[v].start \in Nat /\ drains[v].end \in Nat /\ drains[v].tail \in Nat
      /\ drains[v].tail_len \in Nat /\ drains[v].elements \in Nat
      /\ drains[v].start <= drains[v].end /\ drains[v].end <= drains[v].tail
  BY <1>2, DrainFields DEF FixedVecInv
<1>4. /\ d.start = drains[v].start + 1 /\ d.end = drains[v].end /\ d.tail = drains[v].tail
      /\ d.tail_len = drains[v].tail_len /\ d.elements = drains[v].elements
  BY <1>3 DEF Drains
<1> HIDE DEF d
<1>5. Remaining(d) = Remaining(drains[v]) \ {p} /\ p \in Remaining(drains[v])
  BY <1>1, <1>3, <1>4 DEF Remaining
<1>6. Held({p}) = {mem[p]}
  BY DEF Held
<1>7. /\ {p} \in SUBSET Remaining(drains[v])
      /\ inside' = inside \ Held({p})
      /\ lost' = lost \cup Held(Remaining(drains[v]) \ {p})
  BY <1>1, <1>5, <1>6
<1> QED
  BY <1>1, <1>2, <1>7, DrainGoes

\* The tail moves down to the elements that stayed.
LEMMA DrainsEnd ==
  ASSUME FixedVecInv, DrainDropEnds
  PROVE  FixedVecInv'
<1> USE DEF FixedVecInv
<1>0. PICK v \in Vecs : v = call.vec
  BY Running, CallFields DEF DrainDropEnds
<1> DEFINE d == drains[v]
           n == vecs[v].length + d.tail_len
           target == End(v) .. End(v) + d.tail_len - 1
           source == [q \in target |-> q + d.tail]
<1>1. /\ call.op = "drain" /\ d.start = d.end
      /\ mem' = MoveTail(d, d.elements)
      /\ vecs' = [vecs EXCEPT ![v].length = n]
      /\ drains' = [drains EXCEPT ![v] = Nil]
      /\ call' = NoCall /\ mode' = mode /\ inside' = inside /\ lost' = lost
  BY <1>0 DEF DrainDropEnds
<1>2. d # Nil
  BY <1>0, <1>1, Running DEF Shape, CallSound
<1>3. /\ d.start \in Nat /\ d.end \in Nat /\ d.tail \in Nat
      /\ d.tail_len \in Nat /\ d.elements \in Nat
      /\ d.start <= d.end /\ d.end <= d.tail
  BY <1>2, DrainFields
<1>4. /\ vecs[v] # Nil /\ ~ Lends(v)
      /\ vecs[v].base \in Nat /\ End(v) \in Nat /\ vecs[v].base <= End(v)
      /\ d.elements = End(v)
      /\ OwnSlots(v) = (vecs[v].base .. End(v) - 1) \cup Remaining(d)
      /\ Remaining(d) \subseteq OwnSlots(v)
  BY <1>1, <1>2, DrainedSlots
<1>5. End(v) + d.tail + d.tail_len <= Limit(v)
  BY <1>2 DEF Shape, Memory, DrainsSound
<1> HIDE DEF d
<1>6. /\ vecs[v] \in FixedVecs /\ vecs[v].length \in Nat /\ vecs[v].capacity \in Nat
      /\ Limit(v) \in Nat /\ Limit(v) <= Capacity /\ Capacity \in Nat
      /\ End(v) = vecs[v].base + vecs[v].length /\ Limit(v) = vecs[v].base + vecs[v].capacity
  BY <1>4, VecFields, FixedVecAssumption DEF End, Limit
<1>7. n \in Nat /\ n <= vecs[v].capacity
  BY <1>3, <1>4, <1>5, <1>6
<1>8. drains'[v] = Nil /\ \A w \in Vecs : w # v => drains'[w] = drains[w]
  BY <1>1 DEF Shape, Memory
<1> HIDE DEF n
<1>9. Memory'
  <2>1. Memory /\ drains' \in [Vecs -> Drains \cup {Nil}]
    BY <1>1 DEF Shape, Memory
  <2> QED
    BY <1>1, <1>4, <1>7, <1>8, <2>1, MemoryResizes
<1>10. /\ vecs'[v] # Nil /\ vecs'[v].base = vecs[v].base /\ vecs'[v].length = n
       /\ \A w \in Vecs : w # v => vecs'[w] = vecs[w]
  <2>1. vecs'[v] = [vecs[v] EXCEPT !.length = n] /\ \A w \in Vecs : w # v => vecs'[w] = vecs[w]
    BY <1>1 DEF Shape, Memory
  <2>2. n \in Upto
    BY <1>6, <1>7 DEF FixedVecs, Upto
  <2>3. vecs'[v] \in FixedVecs
    BY <1>6, <2>1, <2>2 DEF FixedVecs
  <2> QED
    BY <1>6, <2>1, <2>3, NilAssumption DEF FixedVecs
<1>11. call' \in Calls /\ CallSound' /\ call'.op = "none"
  BY <1>1 DEF CallSound, Idle, Calls, NoCall
<1>12. \A w \in Vecs : w # v => OwnSlots(w)' = OwnSlots(w)
  BY <1>1, <1>8, <1>10, <1>11, OthersKeep
<1>13. OwnSlots(v)' = (vecs[v].base .. End(v) - 1) \cup target
  <2>1. End(v)' = vecs[v].base + n
    BY <1>10 DEF End
  <2>2. OwnSlots(v)' = vecs[v].base .. vecs[v].base + n - 1
    BY <1>4, <1>7, <1>8, <1>10, <1>11, <2>1 DEF OwnSlots
  <2>3. vecs[v].base + n = End(v) + d.tail_len
    BY <1>3, <1>4, <1>6 DEF n
  <2>4. PICK b \in Nat, e \in Nat, k \in Nat, m \in Nat :
          b = vecs[v].base /\ e = End(v) /\ k = d.tail_len /\ m = n
    BY <1>3, <1>4, <1>7
  <2>5. b <= e /\ b + m = e + k
    BY <1>4, <2>3, <2>4
  <2>6. OwnSlots(v)' = b .. b + m - 1
    BY <2>2, <2>4, Zenon
  <2>7. b .. b + m - 1 = (b .. e - 1) \cup (e .. e + k - 1)
    BY <2>5
  <2> QED
    BY <2>4, <2>6, <2>7, Zenon DEF target
<1>14. Remaining(d) = End(v) + d.tail .. End(v) + d.tail + d.tail_len - 1
  BY <1>1, <1>3, <1>4 DEF Remaining
<1>15. /\ Remaining(d) \in SUBSET Owned
       /\ target \in SUBSET Slots
       /\ source \in [target -> Remaining(d)]
       /\ \A p \in Remaining(d) : \E q \in target : source[q] = p
       /\ \A p, q \in target : source[p] = source[q] => p = q
  <2>1. Remaining(d) \in SUBSET Owned
    BY <1>4 DEF Owned
  <2>2. target \in SUBSET Slots
    BY <1>3, <1>4, <1>5, <1>6 DEF Slots
  <2>3. source \in [target -> Remaining(d)]
    BY <1>3, <1>4, <1>14
  <2>4. ASSUME NEW p \in Remaining(d)
        PROVE  \E q \in target : source[q] = p
    <3>1. End(v) \in Nat /\ d.tail \in Nat /\ d.tail_len \in Nat
      BY <1>3, <1>4
    <3>2. p \in End(v) + d.tail .. End(v) + d.tail + d.tail_len - 1
      BY <1>14
    <3>3. p - d.tail \in target /\ (p - d.tail) + d.tail = p
      BY <3>1, <3>2
    <3> QED
      BY <3>3
  <2>5. \A p, q \in target : source[p] = source[q] => p = q
    BY <1>3, <1>4
  <2> QED
    BY <2>1, <2>2, <2>3, <2>4, <2>5
<1>16. mem' = [p \in Slots |-> IF p \in target THEN mem[source[p]] ELSE mem[p]]
  <2>1. \A p \in target : p - d.elements + d.elements + d.tail = p + d.tail
    BY <1>3, <1>4
  <2> QED
    BY <1>1, <1>4, <2>1 DEF MoveTail
<1>17. Owned' = (Owned \ Remaining(d)) \cup target /\ target \cap (Owned \ Remaining(d)) = {}
  <2>1. target \subseteq vecs[v].base .. Limit(v) - 1
    BY <1>3, <1>4, <1>5, <1>6
  <2>2. \A w \in Vecs : w # v => OwnSlots(w) \cap target = {}
    BY <1>4, <2>1, MemoryIsFree
  <2>3. (vecs[v].base .. End(v) - 1) \cap target = {}
        /\ (vecs[v].base .. End(v) - 1) \cap Remaining(d) = {}
    BY <1>3, <1>4, <1>14
  <2>4. /\ Owned' = (Owned \ OwnSlots(v)) \cup OwnSlots(v)' /\ OwnSlots(v) \subseteq Owned
    BY <1>12, OwnedChanges
  <2>5. target \cap (Owned \ OwnSlots(v)) = {}
    BY <2>2 DEF Owned
  <2> QED
    BY <1>4, <1>13, <2>3, <2>4, <2>5
<1> HIDE DEF target, source
<1>18. Contents'
  BY <1>1, <1>15, <1>16, <1>17, ElementsMove
<1> QED
  BY <1>1, <1>9, <1>11, <1>18 DEF Shape

------------------------------------------------------------------------------
(* Theorems *)

LEMMA StartsEmpty == Init => FixedVecInv
<1> SUFFICES ASSUME Init PROVE FixedVecInv
  OBVIOUS
<1> USE DEF Init
<1>1. \A v \in Vecs : vecs[v] = Nil /\ drains[v] = Nil
  OBVIOUS
<1>2. Memory
  BY <1>1 DEF Memory, Nested, VecsSound, DrainsSound
<1>3. call \in Calls /\ CallSound
  BY DEF Calls, CallSound, Idle
<1>4. Owned = {}
  BY <1>1 DEF Owned, OwnSlots
<1>5. Contents
  BY <1>4 DEF Contents, Held
<1> QED
  BY <1>2, <1>3, <1>5 DEF FixedVecInv, Shape

LEMMA Steps == FixedVecInv /\ [Next]_vars => FixedVecInv'
<1> SUFFICES ASSUME FixedVecInv, [Next]_vars PROVE FixedVecInv'
  OBVIOUS
<1>1. CASE UNCHANGED vars
  <2>1. /\ mem' = mem /\ vecs' = vecs /\ drains' = drains /\ call' = call
        /\ mode' = mode /\ inside' = inside /\ lost' = lost
    BY <1>1 DEF vars
  <2>2. Memory' /\ \A v \in Vecs : (Lends(v)' <=> Lends(v))
    BY <2>1, MemoryStays DEF FixedVecInv, Shape
  <2>3. CallSound'
    <3>1. CASE Idle
      BY <2>1, <3>1 DEF CallSound, Idle
    <3>2. CASE ~ Idle
      <4>1. call.vec \in Vecs
        BY <3>2, CallFields DEF FixedVecInv
      <4>2. CallSound
        BY DEF FixedVecInv, Shape
      <4> QED
        BY <2>1, <2>2, <3>2, <4>1, <4>2 DEF CallSound, Idle
    <3> QED
      BY <3>1, <3>2
  <2>4. Owned' = Owned
    BY <2>1 DEF Owned, OwnSlots, End, Remaining
  <2> QED
    BY <2>1, <2>2, <2>3, <2>4, ElementsStay DEF FixedVecInv, Shape
<1>2. ASSUME NEW v \in Vecs,
             \/ New(v) \/ Pop(v) \/ StartFill(v) \/ StartDrop(v) \/ Forget(v)
             \/ DrainNext(v) \/ DrainNextBack(v) \/ DrainForget(v) \/ StartDrainDrop(v)
      PROVE  FixedVecInv'
  BY <1>2, NewStarts, Pops, LoopsStart, Forgets, DrainYields, DrainForgets
<1>3. ASSUME NEW v \in Vecs,
             \/ \E e \in Elems : Push(v, e)
             \/ \E n \in Upto : StartTruncate(v, n)
             \/ \E from, to \in Upto : Drain(v, from, to)
             \/ \E at \in Upto, w \in Vecs \ {v} :
                  SplitBorrowed(v, at, w) \/ SplitAndShrinkTo(v, at, w)
      PROVE  FixedVecInv'
  BY <1>3, Pushes, LoopsStart, DrainStarts, Splitting
<1>4. CASE LoopStep
  BY <1>4, Fills, FillsEnd, Truncates, Drops, DropsEnd, DrainDrops, DrainPanics, DrainsEnd
     DEF LoopStep
<1>5. CASE Catch
  BY <1>5, Catches
<1> QED
  BY <1>1, <1>2, <1>3, <1>4, <1>5 DEF Next

\* The invariant that carries all that follows: vectors split from one another
\* have memory of their own, or borrow it from behind the elements of another;
\* and the slots that something will drop hold the elements inside, once each.
THEOREM FixedVecInvariant == Spec => []FixedVecInv
<1>1. Init => FixedVecInv
  BY StartsEmpty
<1>2. FixedVecInv /\ [Next]_vars => FixedVecInv'
  BY Steps
<1> QED
  BY <1>1, <1>2, PTL DEF Spec

\* Vectors and Drains keep to their memory, and the offsets of a Drain to their
\* order.
THEOREM FixedVecTypeCorrect == Spec => []TypeOK
<1>1. FixedVecInv => TypeOK
  BY DEF FixedVecInv, Shape, Memory, Contents, TypeOK
<1> QED
  BY <1>1, FixedVecInvariant, PTL

\* No element is dropped twice, or handed out and dropped, for any number of
\* vectors split from one another and whatever panics.
THEOREM FixedVecOwnsOnce == Spec => []OwnedOnce
<1>1. FixedVecInv => OwnedOnce
  <2> SUFFICES ASSUME FixedVecInv PROVE OwnedOnce
    OBVIOUS
  <2>1. \A v, w \in Vecs : v # w => OwnSlots(v) \cap OwnSlots(w) = {}
    BY OwnSlotsApart DEF FixedVecInv
  <2>2. Held(Owned) \subseteq inside \ lost /\ \A p, q \in Owned : mem[p] = mem[q] => p = q
    BY DEF FixedVecInv, Contents
  <2> QED
    BY <2>1, <2>2 DEF OwnedOnce, Owned
<1> QED
  BY <1>1, FixedVecInvariant, PTL

\* No element is forgotten, but by who forgets a vector or a Drain, and by a
\* Drain whose destructor is left by a panic.
THEOREM FixedVecLosesNothing == Spec => []NothingLost
<1>1. FixedVecInv => NothingLost
  BY DEF FixedVecInv, Contents, NothingLost, Owned
<1> QED
  BY <1>1, FixedVecInvariant, PTL

LEMMA LoopsOnly ==
  ASSUME FixedVecInv, Next, ~ Idle
  PROVE  LoopStep
<1>1. \A v \in Vecs : ~ Usable(v) /\ ~ Free(v)
  BY DEF Usable, Free
<1>2. ASSUME NEW v \in Vecs
      PROVE  ~ (New(v) \/ DrainNext(v) \/ DrainNextBack(v) \/ DrainForget(v)
                  \/ StartDrainDrop(v))
  BY DEF New, DrainNext, DrainNextBack, DrainForget, StartDrainDrop
<1>3. ASSUME NEW v \in Vecs
      PROVE  ~ (Pop(v) \/ StartFill(v) \/ StartDrop(v) \/ Forget(v))
  BY <1>1 DEF Pop, StartFill, StartDrop, Forget
<1>4. ASSUME NEW v \in Vecs
      PROVE  /\ \A e \in Elems : ~ Push(v, e)
             /\ \A n \in Upto : ~ StartTruncate(v, n)
             /\ \A from, to \in Upto : ~ Drain(v, from, to)
             /\ \A at \in Upto, w \in Vecs \ {v} :
                  ~ SplitBorrowed(v, at, w) /\ ~ SplitAndShrinkTo(v, at, w)
  BY <1>1 DEF Push, StartTruncate, Drain, SplitBorrowed, SplitAndShrinkTo, Split
<1>5. ~ Catch
  BY DEF Catch
<1> QED
  BY <1>2, <1>3, <1>4, <1>5 DEF Next

\* The loops over elements end: each turn takes one from a bounded number.
THEOREM FixedVecLoopsShrink == Spec => LoopsShrink
<1> DEFINE Shrinks == \/ call' = NoCall
                      \/ /\ call'.op = call.op /\ call'.vec = call.vec
                         /\ 0 <= Left' /\ Left' < Left
<1>1. ASSUME FixedVecInv, Next, ~ Idle
      PROVE  Shrinks
  <2>1. LoopStep
    BY <1>1, LoopsOnly
  <2>2. /\ call \in [op : {"truncate", "drop", "fill", "drain"}, vec : Vecs, at : Upto, to : Upto]
        /\ call.at \in Nat /\ call.to \in Nat /\ call.vec \in Vecs
        /\ vecs[call.vec] # Nil
    BY <1>1, CallFields DEF FixedVecInv, Shape, Calls, Idle, CallSound
  <2>3. CASE \E e \in Elems : FillNext(e)
    <3>1. call.op = "fill" /\ call.at > 0 /\ call' = [call EXCEPT !.at = @ - 1]
      BY <2>3 DEF FillNext
    <3>2. Left = call.at /\ Left' = call.at - 1
      BY <2>2, <3>1 DEF Left
    <3> QED
      BY <2>2, <3>1, <3>2
  <2>4. CASE TruncateNext
    <3>1. /\ call.op = "truncate" /\ call.at > call.to
          /\ call' = [call EXCEPT !.at = @ - 1]
      BY <2>4 DEF TruncateNext
    <3>2. Left = call.at - call.to /\ Left' = call.at - 1 - call.to
      BY <2>2, <3>1 DEF Left
    <3> QED
      BY <2>2, <3>1, <3>2
  <2>5. CASE DropNext
    <3>1. /\ call.op = "drop" /\ call.at < vecs[call.vec].length
          /\ call' = [call EXCEPT !.at = @ + 1] /\ vecs' = vecs
      BY <2>5 DEF DropNext
    <3>2. vecs[call.vec].length \in Nat
      BY <1>1, <2>2, VecFields DEF FixedVecInv
    <3>3. /\ Left = vecs[call.vec].length - call.at
          /\ Left' = vecs[call.vec].length - (call.at + 1)
      BY <2>2, <3>1 DEF Left
    <3> QED
      BY <2>2, <3>1, <3>2, <3>3
  <2>6. CASE DrainDropNext
    <3> DEFINE d == drains[call.vec]
    <3>1. /\ call.op = "drain" /\ d.start # d.end /\ call' = call
          /\ drains' = [drains EXCEPT ![call.vec].start = @ + 1]
      BY <2>6 DEF DrainDropNext
    <3>2. d # Nil
      BY <1>1, <3>1 DEF FixedVecInv, Shape, CallSound
    <3>3. d \in Drains /\ d.start \in Nat /\ d.end \in Nat /\ d.start <= d.end
      BY <1>1, <2>2, <3>2, DrainFields DEF FixedVecInv
    <3>4. drains'[call.vec].start = d.start + 1 /\ drains'[call.vec].end = d.end
      BY <1>1, <2>2, <3>1, <3>3 DEF FixedVecInv, Shape, Memory, Drains
    <3>5. Left = d.end - d.start /\ Left' = d.end - (d.start + 1)
      BY <2>2, <3>1, <3>4 DEF Left
    <3> QED
      BY <2>2, <3>1, <3>3, <3>5
  <2>7. CASE \/ FillEnds \/ TruncatePanics \/ TruncateEnds
             \/ DropEnds \/ DrainDropPanics \/ DrainDropEnds
    BY <2>7 DEF FillEnds, TruncatePanics, TruncateEnds, DropEnds, DrainDropPanics,
                DrainDropEnds
  <2> QED
    BY <2>1, <2>3, <2>4, <2>5, <2>6, <2>7 DEF LoopStep
<1>2. FixedVecInv /\ [Next]_vars => [~ Idle => Shrinks]_vars
  BY <1>1
<1> QED
  BY <1>2, FixedVecInvariant, PTL DEF Spec, LoopsShrink

------------------------------------------------------------------------------
(* Sequences in memory *)

Items == Elems \cup {Nil}

Memories == [Slots -> Items]

\* What Read reads, in any memory.
Cells(m, from, to) == [i \in 1 .. to - from |-> m[from + i - 1]]

LEMMA CellsAreSeq ==
  ASSUME NEW m \in Memories, NEW from \in Nat, NEW to \in Nat,
         from <= to, to <= Capacity
  PROVE  Cells(m, from, to) \in Seq(Items)
<1>1. \A i \in 1 .. to - from : m[from + i - 1] \in Items
  BY FixedVecAssumption DEF Slots, Memories
<1>2. to - from \in Nat /\ Cells(m, from, to) \in [1 .. to - from -> Items]
  BY <1>1 DEF Cells
<1> QED
  BY <1>2, SeqDef

LEMMA CellsLen ==
  ASSUME NEW m \in Memories, NEW from \in Nat, NEW to \in Nat,
         from <= to, to <= Capacity
  PROVE  Len(Cells(m, from, to)) = to - from
<1>1. Cells(m, from, to) \in Seq(Items) /\ to - from \in Nat
  BY CellsAreSeq
<1>2. DOMAIN Cells(m, from, to) = 1 .. to - from
  BY DEF Cells
<1> QED
  BY <1>1, <1>2, LenProperties

LEMMA CellsAt ==
  ASSUME NEW m, NEW from, NEW to, NEW i \in 1 .. to - from
  PROVE  Cells(m, from, to)[i] = m[from + i - 1]
  BY DEF Cells

\* The indices i to j of what is read from from to to are the slots from f to l.
IsPart(from, to, f, l, i, j) ==
  /\ from \in Nat /\ to \in Nat /\ f \in Nat /\ l \in Nat /\ i \in Nat /\ j \in Nat
  /\ from <= f /\ f <= l /\ l <= to /\ to <= Capacity
  /\ i = f - from + 1 /\ j = l - from

\* A name that is not unfolded, where only this matters: a part is a part.
Part(s, i, j) == SubSeq(s, i, j)

LEMMA CellsCut ==
  ASSUME NEW m \in Memories, NEW from, NEW to, NEW f, NEW l, NEW i, NEW j,
         IsPart(from, to, f, l, i, j)
  PROVE  Part(Cells(m, from, to), i, j) = Cells(m, f, l)
<1> from \in Nat /\ to \in Nat /\ f \in Nat /\ l \in Nat /\ i \in Nat /\ j \in Nat
  BY DEF IsPart
<1>0. /\ from <= f /\ f <= l /\ l <= to /\ to <= Capacity
      /\ i = f - from + 1 /\ j = l - from
  BY DEF IsPart
<1> DEFINE s == Cells(m, from, to)
           c == SubSeq(s, i, j)
           t == Cells(m, f, l)
<1>1. ASSUME NEW k \in i .. j
      PROVE  s[k] = m[from + k - 1] /\ s[k] \in Items
  <2>1. k \in 1 .. to - from /\ from + k - 1 \in Slots
    BY <1>0, FixedVecAssumption DEF Slots, Memories
  <2>2. s[k] = m[from + k - 1]
    BY <2>1, CellsAt
  <2> QED
    BY <2>1, <2>2 DEF Memories
<1>2. i \in Int /\ j \in Int /\ j - i + 1 = l - f
  BY <1>0
<1> HIDE DEF s
<1>3. c \in Seq(Items)
  BY <1>1, <1>2, SubSeqProperties
<1>4. Len(c) = l - f
  <2>1. Len(c) = IF i <= j THEN j - i + 1 ELSE 0
    BY <1>1, <1>2, SubSeqProperties
  <2> HIDE DEF c
  <2> QED
    BY <1>0, <2>1
<1>5. ASSUME NEW k \in 1 .. l - f
      PROVE  c[k] = m[f + k - 1]
  <2>1. k \in 1 .. j - i + 1 /\ i + k - 1 \in i .. j
    BY <1>0
  <2>2. c[k] = s[i + k - 1]
    BY <1>1, <1>2, <2>1, SubSeqProperties
  <2>3. s[i + k - 1] = m[from + (i + k - 1) - 1]
    BY <1>1, <2>1
  <2>4. from + (i + k - 1) - 1 = f + k - 1
    BY <1>0
  <2> HIDE DEF c
  <2> QED
    BY <2>2, <2>3, <2>4
<1>6. f <= l /\ l <= Capacity
  BY <1>0, FixedVecAssumption
<1>7. t \in Seq(Items)
  BY <1>6, CellsAreSeq
<1>8. Len(t) = l - f
  BY <1>6, CellsLen
<1>9. \A k \in 1 .. l - f : t[k] = m[f + k - 1]
  BY CellsAt
<1> HIDE DEF c, t
<1>10. c = t
  <2>1. Len(c) = Len(t)
    BY <1>4, <1>8
  <2>2. \A k \in 1 .. Len(c) : c[k] = t[k]
    BY <1>4, <1>5, <1>9
  <2> QED
    BY <1>3, <1>7, <2>1, <2>2, SeqEqual
<1> QED
  BY <1>10 DEF Part, c, t, s

LEMMA CellsSame ==
  ASSUME NEW m, NEW n, NEW from \in Int, NEW to \in Int,
         \A p \in from .. to - 1 : n[p] = m[p]
  PROVE  Cells(n, from, to) = Cells(m, from, to)
<1>1. \A i \in 1 .. to - from : from + i - 1 \in from .. to - 1
  OBVIOUS
<1> QED
  BY <1>1 DEF Cells

LEMMA CellsEmpty ==
  ASSUME NEW m, NEW from \in Nat, NEW to \in Nat, to <= from
  PROVE  Cells(m, from, to) = << >>
<1>1. 1 .. to - from = {}
  OBVIOUS
<1>2. Cells(m, from, to) = [i \in {} |-> m[from + i - 1]]
  BY <1>1 DEF Cells
<1> QED
  BY <1>2

LEMMA CellsThere ==
  ASSUME NEW m, NEW from \in Nat, NEW to \in Nat, from < to
  PROVE  Cells(m, from, to) # << >>
<1>1. 1 \in DOMAIN Cells(m, from, to)
  BY DEF Cells
<1>2. DOMAIN << >> = {}
  OBVIOUS
<1> QED
  BY <1>1, <1>2

LEMMA CellsTail ==
  ASSUME NEW m \in Memories, NEW from \in Nat, NEW to \in Nat,
         from < to, to <= Capacity
  PROVE  Tail(Cells(m, from, to)) = Cells(m, from + 1, to)
<1> DEFINE s == Cells(m, from, to)
<1>1. PICK f \in Nat, k \in Nat, j \in Nat : f = from + 1 /\ k = 2 /\ j = to - from
  OBVIOUS
<1>2. from <= to /\ from <= f /\ f <= to /\ to <= to
  BY <1>1
<1>3. s \in Seq(Items) /\ s # << >>
  BY <1>2, CellsAreSeq, CellsThere
<1>4. Len(s) = j
  BY <1>1, <1>2, CellsLen
<1>5. Tail(s) = SubSeq(s, 2, Len(s))
  BY <1>3, TailIsSubSeq
<1>6. IsPart(from, to, f, to, k, j)
  BY <1>1, <1>2 DEF IsPart
<1>7. Part(s, k, j) = Cells(m, f, to)
  BY <1>6, CellsCut
<1> HIDE DEF s
<1>8. Tail(s) = Cells(m, from + 1, to)
  <2>1. Tail(s) = Part(s, k, j)
    BY <1>1, <1>4, <1>5 DEF Part
  <2> QED
    BY <1>1, <1>7, <2>1
<1> QED
  BY <1>8 DEF s

LEMMA CellsFront ==
  ASSUME NEW m \in Memories, NEW from \in Nat, NEW to \in Nat,
         from < to, to <= Capacity
  PROVE  Abstract!Front(Cells(m, from, to)) = Cells(m, from, to - 1)
<1> DEFINE s == Cells(m, from, to)
<1>1. PICK f \in Nat, l \in Nat, k \in Nat, j \in Nat :
        f = from /\ l = to - 1 /\ k = f - from + 1 /\ j = l - from
  OBVIOUS
<1>2. from <= to /\ IsPart(from, to, f, l, k, j)
  BY <1>1 DEF IsPart
<1>3. Len(s) = to - from
  BY <1>2, CellsLen
<1>4. Part(s, k, j) = Cells(m, f, l)
  BY <1>2, CellsCut
<1>5. Cells(m, f, l) = Cells(m, from, to - 1)
  BY <1>1
<1>6. Abstract!Front(s) = Part(s, k, j)
  <2> HIDE DEF s
  <2>1. k = 1 /\ j = Len(s) - 1
    BY <1>1, <1>3
  <2> QED
    BY <2>1 DEF Abstract!Front, Part
<1> QED
  BY <1>4, <1>5, <1>6

LEMMA CellsAppend ==
  ASSUME NEW m \in Memories, NEW from \in Nat, NEW to \in Nat,
         from <= to, to < Capacity, NEW e \in Items
  PROVE  Append(Cells(m, from, to), e) = Cells([m EXCEPT ![to] = e], from, to + 1)
<1> DEFINE n == [m EXCEPT ![to] = e]
           s == Cells(m, from, to)
           a == Append(s, e)
           l == to + 1
           c == Cells(n, from, l)
<1>1. to <= Capacity /\ l \in Nat /\ from <= l /\ l <= Capacity /\ l - from = to - from + 1
  BY FixedVecAssumption
<1>2. n \in Memories /\ n[to] = e /\ \A p \in Slots : p # to => n[p] = m[p]
  BY FixedVecAssumption DEF Slots, Memories
<1>3. s \in Seq(Items)
  BY <1>1, CellsAreSeq
<1>4. Len(s) = to - from
  BY <1>1, CellsLen
<1>5. \A i \in 1 .. to - from : s[i] = m[from + i - 1]
  BY CellsAt
<1> HIDE DEF n, s, l
<1>6. a \in Seq(Items)
  BY <1>3, AppendProperties
<1>7. Len(a) = Len(s) + 1 /\ a[Len(s) + 1] = e
  BY <1>3, AppendProperties
<1>8. \A i \in 1 .. Len(s) : a[i] = s[i]
  BY <1>3, AppendProperties
<1>9. c \in Seq(Items)
  BY <1>1, <1>2, CellsAreSeq
<1>10. Len(c) = l - from
  BY <1>1, <1>2, CellsLen
<1>11. \A i \in 1 .. l - from : c[i] = n[from + i - 1]
  BY CellsAt
<1> HIDE DEF a, c
<1>12. ASSUME NEW i \in 1 .. Len(a)
       PROVE  a[i] = c[i]
  <2>1. i \in 1 .. to - from + 1 /\ c[i] = n[from + i - 1]
    BY <1>1, <1>4, <1>7, <1>11
  <2>2. CASE i = to - from + 1
    <3>1. from + i - 1 = to
      BY <2>2
    <3> QED
      BY <1>2, <1>4, <1>7, <2>1, <2>2, <3>1
  <2>3. CASE i # to - from + 1
    <3>1. i \in 1 .. to - from /\ from + i - 1 \in Slots /\ from + i - 1 # to
      BY <2>1, <2>3, FixedVecAssumption DEF Slots
    <3>2. a[i] = m[from + i - 1]
      BY <1>4, <1>5, <1>8, <3>1
    <3> QED
      BY <1>2, <2>1, <3>1, <3>2
  <2> QED
    BY <2>2, <2>3
<1>13. Len(a) = Len(c)
  BY <1>1, <1>4, <1>7, <1>10
<1>14. a = c
  BY <1>6, <1>9, <1>12, <1>13, SeqEqual
<1> QED
  BY <1>14 DEF a, c, n, s, l

\* What is from start to end in m comes to follow what is from from to mid.
IsMoved(m, n, from, mid, to, start, end) ==
  /\ m \in Memories /\ n \in Memories
  /\ from \in Nat /\ mid \in Nat /\ to \in Nat /\ start \in Nat /\ end \in Nat
  /\ from <= mid /\ mid <= to /\ to <= Capacity
  /\ start <= end /\ end <= Capacity /\ end - start = to - mid
  /\ \A p \in from .. mid - 1 : n[p] = m[p]
  /\ \A p \in mid .. to - 1 : n[p] = m[p - mid + start]

\* Two stretches of memory, moved together.
LEMMA CellsJoin ==
  ASSUME NEW m, NEW n, NEW from, NEW mid, NEW to, NEW start, NEW end,
         IsMoved(m, n, from, mid, to, start, end)
  PROVE  Cells(m, from, mid) \o Cells(m, start, end) = Cells(n, from, to)
<1> /\ m \in Memories /\ n \in Memories
    /\ from \in Nat /\ mid \in Nat /\ to \in Nat /\ start \in Nat /\ end \in Nat
  BY DEF IsMoved
<1> DEFINE a == Cells(m, from, mid)
           b == Cells(m, start, end)
           c == Cells(n, from, to)
<1>0. /\ from <= mid /\ mid <= to /\ to <= Capacity
      /\ start <= end /\ end <= Capacity /\ end - start = to - mid
      /\ \A p \in from .. mid - 1 : n[p] = m[p]
      /\ \A p \in mid .. to - 1 : n[p] = m[p - mid + start]
  BY DEF IsMoved
<1> USE <1>0
<1>1. mid <= Capacity /\ from <= to
  BY FixedVecAssumption
<1>2. a \in Seq(Items) /\ b \in Seq(Items) /\ c \in Seq(Items)
  BY <1>1, CellsAreSeq
<1>3. Len(a) = mid - from /\ Len(b) = end - start /\ Len(c) = to - from
  BY <1>1, CellsLen
<1>4. \A i \in 1 .. mid - from : a[i] = m[from + i - 1]
  BY CellsAt
<1>5. \A i \in 1 .. end - start : b[i] = m[start + i - 1]
  BY CellsAt
<1>6. \A i \in 1 .. to - from : c[i] = n[from + i - 1]
  BY CellsAt
<1> HIDE DEF a, b, c
<1>7. a \o b \in Seq(Items)
  BY <1>2, ConcatProperties
<1>8. Len(a \o b) = Len(a) + Len(b)
  BY <1>2, ConcatProperties
<1>9. \A i \in 1 .. Len(a) + Len(b) :
        (a \o b)[i] = IF i <= Len(a) THEN a[i] ELSE b[i - Len(a)]
  BY <1>2, ConcatProperties
<1>10. Len(a \o b) = Len(c) /\ Len(a) + Len(b) = to - from
  BY <1>3, <1>8
<1>11. ASSUME NEW i \in 1 .. Len(a \o b)
       PROVE  (a \o b)[i] = c[i]
  <2>1. i \in 1 .. to - from /\ c[i] = n[from + i - 1]
    BY <1>3, <1>6, <1>10
  <2>2. CASE i <= mid - from
    <3>1. (a \o b)[i] = a[i]
      BY <1>3, <1>9, <1>10, <2>1, <2>2
    <3>2. i \in 1 .. mid - from /\ from + i - 1 \in from .. mid - 1
      BY <2>1, <2>2
    <3> QED
      BY <1>4, <2>1, <3>1, <3>2
  <2>3. CASE ~ (i <= mid - from)
    <3> DEFINE j == i - (mid - from)
    <3>1. (a \o b)[i] = b[j]
      BY <1>3, <1>9, <1>10, <2>1, <2>3
    <3>2. j \in 1 .. end - start
      BY <2>1, <2>3
    <3>3. b[j] = m[start + j - 1]
      BY <1>5, <3>2
    <3>4. from + i - 1 \in mid .. to - 1 /\ from + i - 1 - mid + start = start + j - 1
      BY <2>1, <2>3
    <3>5. n[from + i - 1] = m[from + i - 1 - mid + start]
      BY <3>4
    <3> QED
      BY <2>1, <3>1, <3>3, <3>4, <3>5
  <2> QED
    BY <2>2, <2>3
<1>12. a \o b = c
  BY <1>2, <1>7, <1>10, <1>11, SeqEqual
<1> QED
  BY <1>12 DEF a, b, c

------------------------------------------------------------------------------
(* The steps of sequences, one vector at a time *)

Room(v) == IF vecs[v] = Nil THEN 0 ELSE vecs[v].capacity

Middle(v) ==
  IF drains[v] = Nil THEN Nil
  ELSE Read(drains[v].elements + drains[v].start, drains[v].elements + drains[v].end)

Rest(v) ==
  IF drains[v] = Nil THEN << >>
  ELSE Read(drains[v].elements + drains[v].tail,
            drains[v].elements + drains[v].tail + drains[v].tail_len)

\* What the sequences of v become.
Becomes(v, contents, room, middle, rest) ==
  ContentsOf(v)' = contents /\ Room(v)' = room /\ Middle(v)' = middle /\ Rest(v)' = rest

Keeps(v) == Becomes(v, ContentsOf(v), Room(v), Middle(v), Rest(v))

OthersKeepTo(v) == \A w \in Vecs : w # v => Keeps(w)

LEMMA AbstractStays ==
  ASSUME \A v \in Vecs : Keeps(v)
  PROVE  UNCHANGED Abstract!vars
  BY DEF Abstract!vars, Keeps, Becomes, Room, Middle, Rest

LEMMA AbstractCreate ==
  ASSUME NEW v \in Vecs, ContentsOf(v) = Nil, OthersKeepTo(v),
         Becomes(v, << >>, Capacity, Middle(v), Rest(v))
  PROVE  Abstract!Create(v)
  BY DEF Abstract!Create, Abstract!Whole, Abstract!Exists, Becomes, OthersKeepTo,
         Keeps, Room, Middle, Rest

LEMMA AbstractPush ==
  ASSUME NEW v \in Vecs, NEW e \in Elems, OthersKeepTo(v),
         ContentsOf(v) # Nil, Middle(v) = Nil, Len(ContentsOf(v)) < Room(v),
         Becomes(v, Append(ContentsOf(v), e), Room(v), Middle(v), Rest(v))
  PROVE  Abstract!Push(v, e)
  BY DEF Abstract!Push, Abstract!Whole, Abstract!Exists, Becomes, OthersKeepTo,
         Keeps, Room, Middle, Rest

LEMMA AbstractTakeLast ==
  ASSUME NEW v \in Vecs, OthersKeepTo(v),
         ContentsOf(v) \notin {Nil, << >>}, Middle(v) = Nil,
         Becomes(v, Abstract!Front(ContentsOf(v)), Room(v), Middle(v), Rest(v))
  PROVE  Abstract!TakeLast(v)
  BY DEF Abstract!TakeLast, Abstract!Whole, Abstract!Exists, Becomes, OthersKeepTo,
         Keeps, Room, Middle, Rest

LEMMA AbstractDropFirst ==
  ASSUME NEW v \in Vecs, OthersKeepTo(v),
         ContentsOf(v) \notin {Nil, << >>}, Middle(v) = Nil,
         Becomes(v, Tail(ContentsOf(v)), Room(v), Middle(v), Rest(v))
  PROVE  Abstract!DropFirst(v)
  BY DEF Abstract!DropFirst, Abstract!Whole, Abstract!Exists, Becomes, OthersKeepTo,
         Keeps, Room, Middle, Rest

LEMMA AbstractDiscard ==
  ASSUME NEW v \in Vecs, OthersKeepTo(v), ContentsOf(v) # Nil, Middle(v) = Nil,
         Becomes(v, Nil, 0, Middle(v), Rest(v))
  PROVE  Abstract!Discard(v)
  BY DEF Abstract!Discard, Abstract!Whole, Abstract!Exists, Becomes, OthersKeepTo,
         Keeps, Room, Middle, Rest

LEMMA AbstractCutOut ==
  ASSUME NEW v \in Vecs, NEW from, NEW to, OthersKeepTo(v),
         ContentsOf(v) # Nil, Middle(v) = Nil, from <= to, to <= Len(ContentsOf(v)),
         Becomes(v, SubSeq(ContentsOf(v), 1, from), Room(v),
                 SubSeq(ContentsOf(v), from + 1, to),
                 SubSeq(ContentsOf(v), to + 1, Len(ContentsOf(v))))
  PROVE  Abstract!CutOut(v, from, to)
  BY DEF Abstract!CutOut, Abstract!Whole, Abstract!Exists, Becomes, OthersKeepTo,
         Keeps, Room, Middle, Rest

LEMMA AbstractYieldFirst ==
  ASSUME NEW v \in Vecs, OthersKeepTo(v), Middle(v) \notin {Nil, << >>},
         Becomes(v, ContentsOf(v), Room(v), Tail(Middle(v)), Rest(v))
  PROVE  Abstract!YieldFirst(v)
  BY DEF Abstract!YieldFirst, Becomes, OthersKeepTo,
         Keeps, Room, Middle, Rest

LEMMA AbstractYieldLast ==
  ASSUME NEW v \in Vecs, OthersKeepTo(v), Middle(v) \notin {Nil, << >>},
         Becomes(v, ContentsOf(v), Room(v), Abstract!Front(Middle(v)), Rest(v))
  PROVE  Abstract!YieldLast(v)
  BY DEF Abstract!YieldLast, Becomes, OthersKeepTo,
         Keeps, Room, Middle, Rest

LEMMA AbstractJoin ==
  ASSUME NEW v \in Vecs, OthersKeepTo(v), Middle(v) = << >>,
         Becomes(v, ContentsOf(v) \o Rest(v), Room(v), Nil, << >>)
  PROVE  Abstract!Join(v)
  BY DEF Abstract!Join, Becomes, OthersKeepTo,
         Keeps, Room, Middle, Rest

LEMMA AbstractLoseTail ==
  ASSUME NEW v \in Vecs, OthersKeepTo(v), Middle(v) # Nil,
         Becomes(v, ContentsOf(v), Room(v), Nil, << >>)
  PROVE  Abstract!LoseTail(v)
  BY DEF Abstract!LoseTail, Becomes, OthersKeepTo,
         Keeps, Room, Middle, Rest

LEMMA AbstractSplit ==
  ASSUME NEW v \in Vecs, NEW w \in Vecs \ {v}, NEW at, NEW borrowed, NEW kept,
         ContentsOf(v) # Nil, Middle(v) = Nil, ContentsOf(w) = Nil, at <= Room(v),
         kept = IF at < Len(ContentsOf(v)) THEN at ELSE Len(ContentsOf(v)),
         Becomes(v, SubSeq(ContentsOf(v), 1, kept), IF borrowed THEN Room(v) ELSE at,
                 Middle(v), Rest(v)),
         Becomes(w, SubSeq(ContentsOf(v), kept + 1, Len(ContentsOf(v))), Room(v) - at,
                 Middle(w), Rest(w)),
         \A x \in Vecs \ {v, w} : Keeps(x)
  PROVE  Abstract!Split(v, at, w, borrowed)
<1>1. \A x \in Vecs : Middle(x)' = Middle(x) /\ Rest(x)' = Rest(x)
  BY DEF Becomes, Keeps
<1>2. /\ ContentsOf(v)' = SubSeq(ContentsOf(v), 1, kept)
      /\ ContentsOf(w)' = SubSeq(ContentsOf(v), kept + 1, Len(ContentsOf(v)))
      /\ \A x \in Vecs \ {v, w} : ContentsOf(x)' = ContentsOf(x)
  BY DEF Becomes, Keeps
<1>3. /\ Room(v)' = IF borrowed THEN Room(v) ELSE at
      /\ Room(w)' = Room(v) - at
      /\ \A x \in Vecs \ {v, w} : Room(x)' = Room(x)
  BY DEF Becomes, Keeps
<1>4. [x \in Vecs |-> ContentsOf(x)'] =
        [[x \in Vecs |-> ContentsOf(x)] EXCEPT
           ![v] = SubSeq(@, 1, kept),
           ![w] = SubSeq(ContentsOf(v), kept + 1, Len(ContentsOf(v)))]
  BY <1>2
<1>5. [x \in Vecs |-> Room(x)'] =
        [[x \in Vecs |-> Room(x)] EXCEPT
           ![v] = IF borrowed THEN @ ELSE at, ![w] = Room(v) - at]
  BY <1>3
<1>6. /\ [x \in Vecs |-> Middle(x)'] = [x \in Vecs |-> Middle(x)]
      /\ [x \in Vecs |-> Rest(x)'] = [x \in Vecs |-> Rest(x)]
  BY <1>1
<1> QED
  BY <1>4, <1>5, <1>6 DEF Abstract!Split, Abstract!Whole, Abstract!Exists, Room, Middle, Rest

------------------------------------------------------------------------------
(* What is read where *)

LEMMA CellsAreNotNil ==
  ASSUME NEW m \in Memories, NEW from \in Nat, NEW to \in Nat,
         from <= to, to <= Capacity
  PROVE  Cells(m, from, to) # Nil
<1>1. PICK n \in Upto : n = to - from
  BY FixedVecAssumption DEF Upto
<1>2. \A i \in 1 .. n : m[from + i - 1] \in Items
  BY <1>1, FixedVecAssumption DEF Memories, Slots
<1>3. Cells(m, from, to) \in [1 .. n -> Elems \cup {Nil}]
  BY <1>1, <1>2 DEF Cells, Items
<1> QED
  BY <1>3, NilAssumption

LEMMA ContentsRead ==
  ASSUME NEW v
  PROVE  /\ vecs[v] = Nil => ContentsOf(v) = Nil
         /\ vecs[v] # Nil => ContentsOf(v) = Cells(mem, First(v), Past(v))
         /\ vecs'[v] = Nil => ContentsOf(v)' = Nil
         /\ vecs'[v] # Nil => ContentsOf(v)' = Cells(mem', First(v)', Past(v)')
  BY DEF ContentsOf, Read, Cells, First, Past, End

LEMMA DrainRead ==
  ASSUME NEW v
  PROVE  /\ drains[v] = Nil => Middle(v) = Nil /\ Rest(v) = << >>
         /\ drains[v] # Nil =>
              /\ Middle(v) = Cells(mem, drains[v].elements + drains[v].start,
                                   drains[v].elements + drains[v].end)
              /\ Rest(v) = Cells(mem, drains[v].elements + drains[v].tail,
                                 drains[v].elements + drains[v].tail + drains[v].tail_len)
         /\ drains'[v] = Nil => Middle(v)' = Nil /\ Rest(v)' = << >>
         /\ drains'[v] # Nil =>
              /\ Middle(v)' = Cells(mem', drains'[v].elements + drains'[v].start,
                                    drains'[v].elements + drains'[v].end)
              /\ Rest(v)' = Cells(mem', drains'[v].elements + drains'[v].tail,
                                  drains'[v].elements + drains'[v].tail + drains'[v].tail_len)
  BY DEF Middle, Rest, Read, Cells

LEMMA MemIsMemory ==
  ASSUME FixedVecInv
  PROVE  mem \in Memories
  BY DEF FixedVecInv, Contents, Memories, Items

LEMMA ContentsThere ==
  ASSUME FixedVecInv, NEW v \in Vecs, vecs[v] # Nil
  PROVE  /\ First(v) \in Nat /\ Past(v) \in Nat /\ First(v) <= Past(v)
         /\ Past(v) <= End(v) /\ End(v) <= Limit(v) /\ Limit(v) <= Capacity
         /\ End(v) \in Nat /\ Limit(v) \in Nat /\ vecs[v].base \in Nat
         /\ vecs[v].base <= First(v)
         /\ ContentsOf(v) # Nil
<1>1. /\ vecs[v].base \in Nat /\ vecs[v].length \in Nat
      /\ End(v) \in Nat /\ Limit(v) \in Nat /\ End(v) <= Limit(v) /\ Limit(v) <= Capacity
      /\ End(v) = vecs[v].base + vecs[v].length
  BY VecFields DEF FixedVecInv, End
<1>2. /\ First(v) \in Nat /\ Past(v) \in Nat /\ First(v) <= Past(v)
      /\ vecs[v].base <= First(v) /\ Past(v) <= End(v)
  <2>1. CASE Idle
    BY <1>1, <2>1 DEF Idle, NoCall, First, Past
  <2>2. CASE ~ Idle
    <3>1. call.at \in Nat /\ call.to \in Nat /\ CallSound
      BY <2>2, CallFields DEF FixedVecInv, Shape
    <3> QED
      BY <1>1, <2>2, <3>1 DEF CallSound, First, Past
  <2> QED
    BY <2>1, <2>2
<1>3. Past(v) <= Capacity
  BY <1>1, <1>2, FixedVecAssumption
<1> QED
  BY <1>1, <1>2, <1>3, MemIsMemory, CellsAreNotNil, ContentsRead

LEMMA DrainThere ==
  ASSUME FixedVecInv, NEW v \in Vecs, drains[v] # Nil
  PROVE  /\ vecs[v] # Nil
         /\ drains[v].elements = End(v)
         /\ End(v) + drains[v].tail + drains[v].tail_len <= Limit(v)
         /\ drains[v].start \in Nat /\ drains[v].end \in Nat /\ drains[v].tail \in Nat
         /\ drains[v].tail_len \in Nat /\ drains[v].elements \in Nat
         /\ drains[v].start <= drains[v].end /\ drains[v].end <= drains[v].tail
  BY DrainFields DEF FixedVecInv, Shape, Memory, DrainsSound

LEMMA KeepsAside ==
  ASSUME FixedVecInv, NEW w \in Vecs,
         vecs'[w] = vecs[w], drains'[w] = drains[w],
         call.op \in {"drop", "truncate"} => call.vec # w,
         call'.op \in {"drop", "truncate"} => call'.vec # w,
         \A p \in OwnSlots(w) : mem'[p] = mem[p]
  PROVE  Keeps(w)
<1>1. Room(w)' = Room(w)
  BY DEF Room
<1>2. CASE vecs[w] = Nil
  <2>1. drains[w] = Nil
    BY <1>2 DEF FixedVecInv, Shape, Memory, DrainsSound
  <2> QED
    BY <1>1, <1>2, <2>1, ContentsRead, DrainRead DEF Keeps, Becomes
<1>3. CASE vecs[w] # Nil
  <2>1. First(w)' = First(w) /\ Past(w)' = Past(w)
    BY DEF First, Past, End
  <2>2. First(w) \in Nat /\ Past(w) \in Nat
    BY <1>3, ContentsThere
  <2>3. OwnSlots(w) = First(w) .. Past(w) - 1
                        \cup IF drains[w] = Nil THEN {} ELSE Remaining(drains[w])
    BY <1>3, OwnSlotsParts
  <2>4. ContentsOf(w)' = ContentsOf(w)
    <3>1. \A p \in First(w) .. Past(w) - 1 : mem'[p] = mem[p]
      BY <2>3
    <3>2. Cells(mem', First(w), Past(w)) = Cells(mem, First(w), Past(w))
      BY <2>2, <3>1, CellsSame
    <3> QED
      BY <1>3, <2>1, <3>2, ContentsRead
  <2>5. CASE drains[w] = Nil
    BY <1>1, <2>4, <2>5, DrainRead DEF Keeps, Becomes
  <2>6. CASE drains[w] # Nil
    <3> DEFINE d == drains[w]
               a == d.elements + d.start
               b == d.elements + d.end
               f == d.elements + d.tail
               g == d.elements + d.tail + d.tail_len
    <3>1. a \in Nat /\ b \in Nat /\ f \in Nat /\ g \in Nat
      BY <2>6, DrainThere
    <3>2. OwnSlots(w) = (First(w) .. Past(w) - 1) \cup ((a .. b - 1) \cup (f .. g - 1))
      <4>1. Remaining(d) = (a .. b - 1) \cup (f .. g - 1)
        BY <2>6, DrainThere DEF Remaining
      <4>2. OwnSlots(w) = (First(w) .. Past(w) - 1) \cup Remaining(d)
        BY <2>3, <2>6
      <4> HIDE DEF a, b, d, f, g
      <4> QED
        BY <4>1, <4>2
    <3>3. Middle(w) = Cells(mem, a, b) /\ Rest(w) = Cells(mem, f, g)
      BY <2>6, DrainRead
    <3>4. Middle(w)' = Cells(mem', a, b) /\ Rest(w)' = Cells(mem', f, g)
      BY <2>6, DrainRead
    <3> HIDE DEF a, b, f, g
    <3>5. Cells(mem', a, b) = Cells(mem, a, b) /\ Cells(mem', f, g) = Cells(mem, f, g)
      <4>1. /\ \A p \in a .. b - 1 : mem'[p] = mem[p]
            /\ \A p \in f .. g - 1 : mem'[p] = mem[p]
        BY <3>2
      <4> QED
        BY <3>1, <4>1, CellsSame
    <3> QED
      BY <1>1, <2>4, <3>3, <3>4, <3>5 DEF Keeps, Becomes
  <2> QED
    BY <2>5, <2>6
<1> QED
  BY <1>2, <1>3

------------------------------------------------------------------------------
(* The steps of the code as steps of sequences *)

LEMMA LengthSet ==
  ASSUME Shape, NEW v \in Vecs, vecs[v] # Nil, NEW n \in Upto,
         vecs' = [vecs EXCEPT ![v].length = n]
  PROVE  /\ vecs'[v] # Nil /\ vecs'[v].length = n
         /\ vecs'[v].base = vecs[v].base /\ vecs'[v].capacity = vecs[v].capacity
         /\ \A w \in Vecs : w # v => vecs'[w] = vecs[w]
<1>1. vecs[v] \in FixedVecs
  BY VecFields
<1>2. vecs'[v] = [vecs[v] EXCEPT !.length = n] /\ \A w \in Vecs : w # v => vecs'[w] = vecs[w]
  BY DEF Shape, Memory
<1>3. vecs'[v] \in FixedVecs
  BY <1>1, <1>2 DEF FixedVecs
<1> QED
  BY <1>1, <1>2, <1>3, NilAssumption DEF FixedVecs

LEMMA NothingSeen ==
  ASSUME mem' = mem, drains' = drains,
         \A v \in Vecs :
           /\ vecs'[v] = Nil <=> vecs[v] = Nil
           /\ vecs[v] # Nil => /\ vecs'[v].capacity = vecs[v].capacity
                               /\ First(v)' = First(v) /\ Past(v)' = Past(v)
  PROVE  UNCHANGED Abstract!vars
<1>1. ASSUME NEW v \in Vecs
      PROVE  Keeps(v)
  <2>1. ContentsOf(v)' = ContentsOf(v)
    BY ContentsRead
  <2>2. Room(v)' = Room(v) /\ Middle(v)' = Middle(v) /\ Rest(v)' = Rest(v)
    BY DEF Room, Middle, Rest, Read
  <2> QED
    BY <2>1, <2>2 DEF Keeps, Becomes
<1> QED
  BY <1>1, AbstractStays

\* Only v changes, and is not drained.
LEMMA OnlyOne ==
  ASSUME FixedVecInv, NEW v \in Vecs, drains[v] = Nil, drains' = drains, mem' = mem,
         \A w \in Vecs : w # v => vecs'[w] = vecs[w],
         call.op \in {"drop", "truncate"} => call.vec = v,
         call'.op \in {"drop", "truncate"} => call'.vec = v
  PROVE  /\ OthersKeepTo(v)
         /\ Middle(v) = Nil /\ Middle(v)' = Nil /\ Rest(v)' = Rest(v)
<1>1. OthersKeepTo(v)
  BY KeepsAside DEF OthersKeepTo
<1> QED
  BY <1>1, DrainRead

LEMMA LastLeaves ==
  ASSUME FixedVecInv, NEW v \in Vecs, drains[v] = Nil, drains' = drains, mem' = mem,
         vecs[v] # Nil, vecs'[v] # Nil, vecs'[v].capacity = vecs[v].capacity,
         \A w \in Vecs : w # v => vecs'[w] = vecs[w],
         call.op \in {"drop", "truncate"} => call.vec = v,
         call'.op \in {"drop", "truncate"} => call'.vec = v,
         First(v) < Past(v), First(v)' = First(v), Past(v)' = Past(v) - 1
  PROVE  Abstract!TakeLast(v)
<1>1. /\ OthersKeepTo(v)
      /\ Middle(v) = Nil /\ Middle(v)' = Nil /\ Rest(v)' = Rest(v)
  BY OnlyOne
<1>2. /\ First(v) \in Nat /\ Past(v) \in Nat /\ Past(v) <= Capacity
      /\ ContentsOf(v) # Nil
  BY ContentsThere, FixedVecAssumption
<1>3. mem \in Memories
  BY MemIsMemory
<1>4. /\ ContentsOf(v) = Cells(mem, First(v), Past(v))
      /\ ContentsOf(v)' = Cells(mem, First(v), Past(v) - 1)
  BY ContentsRead
<1>5. ContentsOf(v) # << >>
  BY <1>2, <1>4, CellsThere
<1>6. ContentsOf(v)' = Abstract!Front(ContentsOf(v))
  BY <1>2, <1>3, <1>4, CellsFront
<1>7. Room(v)' = Room(v)
  BY DEF Room
<1>8. Becomes(v, Abstract!Front(ContentsOf(v)), Room(v), Middle(v), Rest(v))
  BY <1>1, <1>6, <1>7 DEF Becomes
<1> QED
  BY <1>1, <1>2, <1>5, <1>8, AbstractTakeLast

LEMMA PopIsTakeLast ==
  ASSUME FixedVecInv, NEW v \in Vecs, Pop(v)
  PROVE  Abstract!TakeLast(v)
<1>1. /\ vecs[v] # Nil /\ drains[v] = Nil /\ Idle /\ vecs[v].length > 0
      /\ drains' = drains /\ call' = call /\ mem' = mem
      /\ vecs' = [vecs EXCEPT ![v].length = vecs[v].length - 1]
  BY FreeDoesNotLend DEF Pop, Usable
<1>2. /\ vecs[v].base \in Nat /\ vecs[v].length \in Nat
      /\ vecs[v].length - 1 \in Upto
  BY <1>1, VecFields, FixedVecAssumption DEF FixedVecInv, FixedVecs, Upto
<1>3. /\ vecs'[v] # Nil /\ vecs'[v].length = vecs[v].length - 1
      /\ vecs'[v].base = vecs[v].base /\ vecs'[v].capacity = vecs[v].capacity
      /\ \A w \in Vecs : w # v => vecs'[w] = vecs[w]
  BY <1>1, <1>2, LengthSet DEF FixedVecInv
<1>4. call.op = "none"
  BY <1>1 DEF Idle, NoCall
<1>5. First(v) < Past(v) /\ First(v)' = First(v) /\ Past(v)' = Past(v) - 1
  BY <1>1, <1>2, <1>3, <1>4 DEF First, Past, End
<1> QED
  BY <1>1, <1>3, <1>4, <1>5, LastLeaves

LEMMA TruncateIsTakeLast ==
  ASSUME FixedVecInv, TruncateNext \/ TruncatePanics
  PROVE  \E v \in Vecs : Abstract!TakeLast(v)
<1>0. PICK v \in Vecs : v = call.vec
  BY Running, CallFields DEF TruncateNext, TruncatePanics, FixedVecInv
<1>1. /\ call.op = "truncate" /\ mem' = mem /\ drains' = drains /\ call.at > call.to
  BY DEF TruncateNext, TruncatePanics
<1>2. ~ Idle /\ call.at \in Nat /\ call.to \in Nat /\ call.at \in Upto
  BY <1>1, Running, CallFields DEF FixedVecInv
<1>3. /\ vecs[v] # Nil /\ drains[v] = Nil
      /\ call.to <= call.at /\ call.at <= vecs[v].length
  BY <1>0, <1>1, <1>2 DEF FixedVecInv, Shape, CallSound
<1>4. vecs[v].base \in Nat /\ vecs[v].length \in Nat /\ call.at - 1 \in Upto
  BY <1>1, <1>2, <1>3, VecFields, FixedVecAssumption DEF FixedVecInv, Upto
<1>5. First(v) = vecs[v].base + 0 /\ Past(v) = vecs[v].base + call.at
  BY <1>0, <1>1 DEF First, Past
<1>6. CASE TruncateNext
  <2>1. vecs' = vecs /\ call' = [call EXCEPT !.at = @ - 1]
    BY <1>6 DEF TruncateNext
  <2>2. call \in [op : {"truncate", "drop", "fill", "drain"}, vec : Vecs, at : Upto, to : Upto]
    BY <1>2 DEF FixedVecInv, Shape, Calls, Idle
  <2>3. call'.op = "truncate" /\ call'.vec = v /\ call'.at = call.at - 1
    BY <1>0, <1>1, <2>1, <2>2
  <2>4. First(v)' = vecs[v].base + 0 /\ Past(v)' = vecs[v].base + (call.at - 1)
    BY <2>1, <2>3 DEF First, Past
  <2>5. First(v) < Past(v) /\ First(v)' = First(v) /\ Past(v)' = Past(v) - 1
    BY <1>1, <1>2, <1>4, <1>5, <2>4
  <2> QED
    BY <1>0, <1>1, <1>3, <2>1, <2>3, <2>5, LastLeaves
<1>7. CASE TruncatePanics
  <2>1. call' = NoCall /\ vecs' = [vecs EXCEPT ![v].length = call.at - 1]
    BY <1>0, <1>7 DEF TruncatePanics
  <2>2. /\ vecs'[v] # Nil /\ vecs'[v].length = call.at - 1
        /\ vecs'[v].base = vecs[v].base /\ vecs'[v].capacity = vecs[v].capacity
        /\ \A w \in Vecs : w # v => vecs'[w] = vecs[w]
    BY <1>3, <1>4, <2>1, LengthSet DEF FixedVecInv
  <2>3. call'.op = "none"
    BY <2>1 DEF NoCall
  <2>4. First(v)' = vecs[v].base + 0 /\ Past(v)' = vecs[v].base + (call.at - 1)
    BY <2>2, <2>3 DEF First, Past, End
  <2>5. First(v) < Past(v) /\ First(v)' = First(v) /\ Past(v)' = Past(v) - 1
    BY <1>1, <1>2, <1>4, <1>5, <2>4
  <2> QED
    BY <1>0, <1>1, <1>3, <2>2, <2>3, <2>5, LastLeaves
<1> QED
  BY <1>6, <1>7

LEMMA DropIsDropFirst ==
  ASSUME FixedVecInv, DropNext
  PROVE  \E v \in Vecs : Abstract!DropFirst(v)
<1>0. PICK v \in Vecs : v = call.vec
  BY Running, CallFields DEF DropNext, FixedVecInv
<1>1. /\ call.op = "drop" /\ call.at < vecs[v].length
      /\ mem' = mem /\ vecs' = vecs /\ drains' = drains
      /\ call' = [call EXCEPT !.at = @ + 1]
  BY <1>0 DEF DropNext
<1>2. ~ Idle /\ call.at \in Nat
  BY <1>1, Running, CallFields DEF FixedVecInv
<1>3. vecs[v] # Nil /\ drains[v] = Nil
  BY <1>0, <1>1, <1>2 DEF FixedVecInv, Shape, CallSound
<1>4. vecs[v].base \in Nat /\ vecs[v].length \in Nat
  BY <1>3, VecFields DEF FixedVecInv
<1>5. call \in [op : {"truncate", "drop", "fill", "drain"}, vec : Vecs, at : Upto, to : Upto]
  BY <1>2 DEF FixedVecInv, Shape, Calls, Idle
<1>6. call'.op = "drop" /\ call'.vec = v /\ call'.at = call.at + 1
  BY <1>0, <1>1, <1>5
<1>7. /\ First(v) = vecs[v].base + call.at /\ Past(v) = End(v)
      /\ First(v)' = vecs[v].base + (call.at + 1) /\ Past(v)' = End(v)
  BY <1>0, <1>1, <1>6 DEF First, Past, End
<1>8. /\ OthersKeepTo(v)
      /\ Middle(v) = Nil /\ Middle(v)' = Nil /\ Rest(v)' = Rest(v)
  BY <1>0, <1>1, <1>3, <1>6, OnlyOne
<1>9. /\ First(v) \in Nat /\ Past(v) \in Nat /\ Past(v) <= Capacity
      /\ ContentsOf(v) # Nil
  BY <1>3, ContentsThere, FixedVecAssumption
<1>10. First(v) < Past(v) /\ First(v)' = First(v) + 1 /\ Past(v)' = Past(v)
  BY <1>1, <1>2, <1>4, <1>7 DEF End
<1>11. /\ ContentsOf(v) = Cells(mem, First(v), Past(v))
       /\ ContentsOf(v)' = Cells(mem, First(v) + 1, Past(v))
  BY <1>1, <1>3, <1>10, ContentsRead
<1>12. mem \in Memories
  BY MemIsMemory
<1>13. ContentsOf(v) # << >> /\ ContentsOf(v)' = Tail(ContentsOf(v))
  BY <1>9, <1>10, <1>11, <1>12, CellsThere, CellsTail
<1>14. Room(v)' = Room(v)
  BY <1>1 DEF Room
<1>15. Becomes(v, Tail(ContentsOf(v)), Room(v), Middle(v), Rest(v))
  BY <1>8, <1>13, <1>14 DEF Becomes
<1> QED
  BY <1>8, <1>9, <1>13, <1>15, AbstractDropFirst

LEMMA VecGoesIsDiscard ==
  ASSUME FixedVecInv, NEW v \in Vecs, vecs[v] # Nil, drains[v] = Nil, drains' = drains,
         mem' = mem, vecs' = [vecs EXCEPT ![v] = Nil], call' = NoCall,
         call.op \in {"drop", "truncate"} => call.vec = v
  PROVE  Abstract!Discard(v)
<1>1. vecs'[v] = Nil /\ \A w \in Vecs : w # v => vecs'[w] = vecs[w]
  BY DEF FixedVecInv, Shape, Memory
<1>2. call'.op = "none"
  BY DEF NoCall
<1>3. /\ OthersKeepTo(v)
      /\ Middle(v) = Nil /\ Middle(v)' = Nil /\ Rest(v)' = Rest(v)
  BY <1>1, <1>2, OnlyOne
<1>4. ContentsOf(v)' = Nil /\ ContentsOf(v) # Nil
  BY <1>1, ContentsRead, ContentsThere
<1>5. Room(v)' = 0
  BY <1>1 DEF Room
<1>6. Becomes(v, Nil, 0, Middle(v), Rest(v))
  BY <1>3, <1>4, <1>5 DEF Becomes
<1> QED
  BY <1>3, <1>4, <1>6, AbstractDiscard

LEMMA EndsAreDiscard ==
  ASSUME FixedVecInv, NEW v \in Vecs, Forget(v) \/ (DropEnds /\ call.vec = v)
  PROVE  Abstract!Discard(v)
<1>1. CASE Forget(v)
  <2>1. /\ vecs[v] # Nil /\ drains[v] = Nil /\ Idle
        /\ vecs' = [vecs EXCEPT ![v] = Nil]
        /\ mem' = mem /\ drains' = drains /\ call' = call
    BY <1>1, FreeDoesNotLend DEF Forget, Usable
  <2>2. call.op = "none" /\ call' = NoCall
    BY <2>1 DEF Idle, NoCall
  <2> QED
    BY <2>1, <2>2, VecGoesIsDiscard
<1>2. CASE DropEnds /\ call.vec = v
  <2>1. /\ call.op = "drop"
        /\ mem' = mem /\ vecs' = [vecs EXCEPT ![v] = Nil] /\ drains' = drains
        /\ call' = NoCall
    BY <1>2 DEF DropEnds
  <2>2. vecs[v] # Nil /\ drains[v] = Nil
    BY <1>2, <2>1, Running DEF FixedVecInv, Shape, CallSound
  <2> QED
    BY <1>2, <2>1, <2>2, VecGoesIsDiscard
<1> QED
  BY <1>1, <1>2

LEMMA NewIsCreate ==
  ASSUME FixedVecInv, NEW v \in Vecs, New(v)
  PROVE  Abstract!Create(v)
<1> DEFINE r == [base |-> 0, capacity |-> Capacity, length |-> 0, lender |-> Nil]
<1>1. /\ Idle /\ call' = call /\ drains' = drains
      /\ vecs' = [vecs EXCEPT ![v] = r]
      /\ \A w \in Vecs : vecs[w] = Nil
  BY DEF New
<1>2. call.op = "none"
  BY <1>1 DEF Idle, NoCall
<1>3. \A w \in Vecs : drains[w] = Nil /\ OwnSlots(w) = {}
  BY <1>1 DEF FixedVecInv, Shape, Memory, DrainsSound, OwnSlots
<1>4. vecs'[v] = r /\ \A w \in Vecs : w # v => vecs'[w] = vecs[w]
  BY <1>1 DEF FixedVecInv, Shape, Memory
<1>5. r # Nil
  <2>1. r \in FixedVecs
    BY FixedVecAssumption DEF FixedVecs, Upto
  <2> HIDE DEF r
  <2> QED
    BY <2>1, NilAssumption
<1>6. OthersKeepTo(v)
  BY <1>1, <1>2, <1>3, <1>4, KeepsAside DEF OthersKeepTo
<1>7. First(v)' = 0 /\ Past(v)' = 0
  BY <1>1, <1>2, <1>4 DEF First, Past, End
<1>8. ContentsOf(v)' = << >>
  <2>1. ContentsOf(v)' = Cells(mem', 0, 0)
    BY <1>4, <1>5, <1>7, ContentsRead
  <2> QED
    BY <2>1, CellsEmpty
<1>9. Room(v)' = Capacity
  BY <1>4, <1>5 DEF Room
<1>10. ContentsOf(v) = Nil /\ Middle(v) = Nil /\ Rest(v) = << >>
       /\ Middle(v)' = Nil /\ Rest(v)' = << >>
  BY <1>1, <1>3, ContentsRead, DrainRead
<1>11. Becomes(v, << >>, Capacity, Middle(v), Rest(v))
  BY <1>8, <1>9, <1>10 DEF Becomes
<1> QED
  BY <1>6, <1>10, <1>11, AbstractCreate

LEMMA WriteIsPush ==
  ASSUME FixedVecInv, NEW v \in Vecs, NEW e \in Elems, Write(v, e),
         vecs[v] # Nil, ~ Lends(v), drains[v] = Nil, drains' = drains,
         vecs[v].length < vecs[v].capacity,
         call.op \notin {"drop", "truncate"}, call'.op \notin {"drop", "truncate"}
  PROVE  Abstract!Push(v, e)
<1>1. /\ vecs[v].base \in Nat /\ vecs[v].length \in Nat /\ vecs[v].capacity \in Nat
      /\ End(v) \in Nat /\ Limit(v) \in Nat /\ Limit(v) <= Capacity
      /\ End(v) = vecs[v].base + vecs[v].length
      /\ Limit(v) = vecs[v].base + vecs[v].capacity
  BY VecFields DEF FixedVecInv, End, Limit
<1>2. vecs[v].length + 1 \in Upto /\ End(v) < Capacity /\ End(v) \in vecs[v].base .. Limit(v) - 1
  BY <1>1, FixedVecAssumption DEF Upto
<1>3. mem' = [mem EXCEPT ![End(v)] = e] /\ vecs' = [vecs EXCEPT ![v].length = vecs[v].length + 1]
  BY DEF Write
<1>4. /\ vecs'[v] # Nil /\ vecs'[v].length = vecs[v].length + 1
      /\ vecs'[v].base = vecs[v].base /\ vecs'[v].capacity = vecs[v].capacity
      /\ \A w \in Vecs : w # v => vecs'[w] = vecs[w]
  BY <1>2, <1>3, LengthSet DEF FixedVecInv
<1>5. OthersKeepTo(v)
  <2> SUFFICES ASSUME NEW w \in Vecs, w # v PROVE Keeps(w)
    BY DEF OthersKeepTo
  <2>1. End(v) \notin OwnSlots(w)
    BY <1>2, MemoryIsFree DEF FixedVecInv
  <2>2. \A p \in OwnSlots(w) : mem'[p] = mem[p]
    <3>1. OwnSlots(w) \subseteq Slots
      BY OwnedInSlots DEF Owned, FixedVecInv
    <3> QED
      BY <1>3, <2>1, <3>1 DEF FixedVecInv, Contents
  <2> QED
    BY <1>4, <2>2, KeepsAside
<1>6. /\ First(v) = vecs[v].base + 0 /\ Past(v) = End(v)
      /\ First(v)' = vecs[v].base + 0 /\ Past(v)' = vecs[v].base + (vecs[v].length + 1)
  BY <1>4 DEF First, Past, End
<1>7. First(v) \in Nat /\ First(v) <= End(v) /\ First(v)' = First(v) /\ Past(v)' = End(v) + 1
  BY <1>1, <1>6
<1>8. /\ ContentsOf(v) = Cells(mem, First(v), End(v)) /\ ContentsOf(v) # Nil
      /\ ContentsOf(v)' = Cells(mem', First(v), End(v) + 1)
  <2>1. ContentsOf(v) = Cells(mem, First(v), Past(v)) /\ ContentsOf(v) # Nil
    BY <1>1, ContentsRead, ContentsThere
  <2>2. ContentsOf(v)' = Cells(mem', First(v)', Past(v)')
    BY <1>4, ContentsRead
  <2>3. Past(v) = End(v)
    BY <1>6
  <2> QED
    BY <1>7, <2>1, <2>2, <2>3
<1>9. mem \in Memories /\ e \in Items /\ End(v) <= Capacity
  BY <1>1, <1>2, MemIsMemory, FixedVecAssumption DEF Items
<1>10. ContentsOf(v)' = Append(ContentsOf(v), e)
  <2>1. PICK f \in Nat, l \in Nat : f = First(v) /\ l = End(v)
    BY <1>1, <1>7
  <2>2. f <= l /\ l < Capacity
    BY <1>2, <1>7, <2>1
  <2>3. Append(Cells(mem, f, l), e) = Cells([mem EXCEPT ![l] = e], f, l + 1)
    BY <1>9, <2>2, CellsAppend
  <2> QED
    BY <1>3, <1>8, <2>1, <2>3
<1>11. Len(ContentsOf(v)) = End(v) - First(v)
  BY <1>1, <1>7, <1>8, <1>9, CellsLen
<1>12. Room(v) = vecs[v].capacity /\ Room(v)' = Room(v)
  BY <1>4 DEF Room
<1>13. Len(ContentsOf(v)) < Room(v)
  <2>1. End(v) - First(v) < vecs[v].capacity
    BY <1>1, <1>6
  <2> QED
    BY <1>11, <1>12, <2>1
<1>14. Middle(v) = Nil /\ Middle(v)' = Middle(v) /\ Rest(v)' = Rest(v)
  BY DrainRead
<1>15. Becomes(v, Append(ContentsOf(v), e), Room(v), Middle(v), Rest(v))
  BY <1>10, <1>12, <1>14 DEF Becomes
<1> QED
  BY <1>5, <1>8, <1>13, <1>14, <1>15, AbstractPush

LEMMA WritesArePushes ==
  ASSUME FixedVecInv, NEW e \in Elems, FillNext(e) \/ \E v \in Vecs : Push(v, e)
  PROVE  \E v \in Vecs : Abstract!Push(v, e)
<1>1. CASE FillNext(e)
  <2>0. PICK v \in Vecs : v = call.vec
    BY <1>1, Running, CallFields DEF FillNext, FixedVecInv
  <2>1. /\ call.op = "fill" /\ call.at > 0 /\ Write(v, e)
        /\ call' = [call EXCEPT !.at = @ - 1] /\ drains' = drains
    BY <1>1, <2>0 DEF FillNext
  <2>2. ~ Idle /\ call.at \in Nat
    BY <2>1, Running, CallFields DEF FixedVecInv
  <2>3. /\ vecs[v] # Nil /\ ~ Lends(v) /\ drains[v] = Nil
        /\ call.at + vecs[v].length = vecs[v].capacity
    BY <2>0, <2>1, <2>2 DEF FixedVecInv, Shape, CallSound
  <2>4. vecs[v].length < vecs[v].capacity
    BY <2>1, <2>2, <2>3, VecFields DEF FixedVecInv
  <2>5. call \in [op : {"truncate", "drop", "fill", "drain"}, vec : Vecs, at : Upto, to : Upto]
    BY <2>2 DEF FixedVecInv, Shape, Calls, Idle
  <2>6. call'.op = "fill"
    BY <2>1, <2>5
  <2> QED
    BY <2>1, <2>3, <2>4, <2>6, WriteIsPush
<1>2. ASSUME NEW v \in Vecs, Push(v, e)
      PROVE  Abstract!Push(v, e)
  <2>1. /\ vecs[v] # Nil /\ ~ Lends(v) /\ drains[v] = Nil /\ Idle
        /\ Write(v, e) /\ vecs[v].length < vecs[v].capacity
        /\ drains' = drains /\ call' = call
    BY <1>2, FreeDoesNotLend DEF Push, Usable
  <2>2. call.op = "none"
    BY <2>1 DEF Idle, NoCall
  <2> QED
    BY <2>1, <2>2, WriteIsPush
<1> QED
  BY <1>1, <1>2

LEMMA LoopsAreNotSeen ==
  ASSUME FixedVecInv,
         \/ \E v \in Vecs : StartFill(v) \/ StartDrop(v) \/ StartDrainDrop(v)
         \/ \E v \in Vecs, n \in Upto : StartTruncate(v, n)
         \/ FillEnds \/ TruncateEnds \/ Catch \/ UNCHANGED vars
  PROVE  UNCHANGED Abstract!vars
<1>1. ASSUME NEW v \in Vecs, StartFill(v) \/ StartDrop(v) \/ StartDrainDrop(v)
                              \/ \E n \in Upto : StartTruncate(v, n)
      PROVE  UNCHANGED Abstract!vars
  <2>1. mem' = mem /\ vecs' = vecs /\ drains' = drains /\ Idle
    BY <1>1 DEF StartFill, StartDrop, StartDrainDrop, StartTruncate, Usable, Free
  <2>2. call.op = "none"
    BY <2>1 DEF Idle, NoCall
  <2>3. /\ call'.op = "drop" => call'.at = 0
        /\ call'.op = "truncate" => call'.at = vecs[call'.vec].length
    BY <1>1 DEF StartFill, StartDrop, StartDrainDrop, StartTruncate
  <2>4. \A w \in Vecs : First(w)' = First(w) /\ Past(w)' = Past(w)
    BY <2>1, <2>2, <2>3 DEF First, Past, End
  <2> QED
    BY <2>1, <2>4, NothingSeen
<1>2. CASE FillEnds \/ Catch \/ UNCHANGED vars
  <2>1. /\ mem' = mem /\ vecs' = vecs /\ drains' = drains
        /\ call' = call \/ (call.op = "fill" /\ call'.op = "none")
    BY <1>2 DEF FillEnds, Catch, vars, NoCall
  <2>2. \A w \in Vecs : First(w)' = First(w) /\ Past(w)' = Past(w)
    BY <2>1 DEF First, Past, End
  <2> QED
    BY <2>1, <2>2, NothingSeen
<1>3. CASE TruncateEnds
  <2>0. PICK v \in Vecs : v = call.vec
    BY <1>3, Running, CallFields DEF TruncateEnds, FixedVecInv
  <2>1. /\ call.op = "truncate" /\ call' = NoCall
        /\ vecs' = [vecs EXCEPT ![v].length = call.at] /\ mem' = mem /\ drains' = drains
    BY <1>3, <2>0 DEF TruncateEnds
  <2>2. ~ Idle /\ call.at \in Upto
    BY <2>1, Running, CallFields DEF FixedVecInv
  <2>3. vecs[v] # Nil
    BY <2>0, <2>1, <2>2 DEF FixedVecInv, Shape, CallSound
  <2>4. /\ vecs'[v] # Nil /\ vecs'[v].length = call.at
        /\ vecs'[v].base = vecs[v].base /\ vecs'[v].capacity = vecs[v].capacity
        /\ \A w \in Vecs : w # v => vecs'[w] = vecs[w]
    BY <2>1, <2>2, <2>3, LengthSet DEF FixedVecInv
  <2>5. call'.op = "none"
    BY <2>1 DEF NoCall
  <2>6. \A w \in Vecs : First(w)' = First(w) /\ Past(w)' = Past(w)
    BY <2>0, <2>1, <2>4, <2>5 DEF First, Past, End
  <2>7. \A w \in Vecs :
          /\ vecs'[w] = Nil <=> vecs[w] = Nil
          /\ vecs[w] # Nil => vecs'[w].capacity = vecs[w].capacity
    BY <2>3, <2>4
  <2>8. mem' = mem /\ drains' = drains
    BY <2>1
  <2> QED
    BY <2>6, <2>7, <2>8, NothingSeen
<1> QED
  BY <1>1, <1>2, <1>3

\* A part of what is in v.
LEMMA ContentsCut ==
  ASSUME FixedVecInv, NEW v, NEW f, NEW l, NEW x, NEW y, NEW i, NEW j,
         ContentsOf(v) = Cells(mem, f, l), IsPart(f, l, x, y, i, j)
  PROVE  Part(ContentsOf(v), i, j) = Cells(mem, x, y)
<1>1. PICK m \in Memories : m = mem
  BY MemIsMemory
<1>2. Part(Cells(m, f, l), i, j) = Cells(m, x, y)
  BY CellsCut
<1> QED
  BY <1>1, <1>2

LEMMA DrainIsCutOut ==
  ASSUME FixedVecInv, NEW v \in Vecs, NEW from \in Upto, NEW to \in Upto, Drain(v, from, to)
  PROVE  Abstract!CutOut(v, from, to)
<1> DEFINE d == DrainOf(v, from, to)
<1>1. /\ vecs[v] # Nil /\ drains[v] = Nil /\ Idle
      /\ from <= to /\ to <= vecs[v].length
      /\ drains' = [drains EXCEPT ![v] = d] /\ vecs' = [vecs EXCEPT ![v].length = from]
      /\ mem' = mem /\ call' = call
  BY FreeDoesNotLend DEF Drain, Usable
<1>2. /\ vecs[v].base \in Nat /\ vecs[v].length \in Nat
      /\ from \in Nat /\ to \in Nat /\ End(v) \in Nat
      /\ End(v) = vecs[v].base + vecs[v].length /\ End(v) <= Capacity
      /\ vecs[v].length <= Capacity /\ Capacity \in Nat
  BY <1>1, VecFields, FixedVecAssumption DEF Upto, End, Limit, FixedVecInv, FixedVecs
<1>3. /\ d.start = 0 /\ d.end = to - from /\ d.tail = to - from
      /\ d.tail_len = vecs[v].length - to /\ d.elements = vecs[v].base + from
      /\ d \in Drains
  BY <1>1, <1>2 DEF DrainOf, Drains, Upto
<1>4. d # Nil
  BY <1>3, NilAssumption
<1> HIDE DEF d
<1>5. drains'[v] = d /\ \A w \in Vecs : w # v => drains'[w] = drains[w]
  BY <1>1 DEF FixedVecInv, Shape, Memory
<1>6. /\ vecs'[v] # Nil /\ vecs'[v].length = from
      /\ vecs'[v].base = vecs[v].base /\ vecs'[v].capacity = vecs[v].capacity
      /\ \A w \in Vecs : w # v => vecs'[w] = vecs[w]
  BY <1>1, LengthSet DEF FixedVecInv
<1>7. call.op = "none"
  BY <1>1 DEF Idle, NoCall
<1>8. OthersKeepTo(v)
  BY <1>1, <1>5, <1>6, <1>7, KeepsAside DEF OthersKeepTo
<1> DEFINE f == vecs[v].base
           l == End(v)
           a == f + from
           b == f + to
<1>9. /\ f = vecs[v].base /\ l = End(v) /\ a = f + from /\ b = f + to
      /\ f \in Nat /\ l \in Nat /\ a \in Nat /\ b \in Nat
      /\ f <= a /\ a <= b /\ b <= l /\ l <= Capacity
  BY <1>1, <1>2
<1> HIDE DEF f, l, a, b
<1>10. /\ First(v) = f /\ Past(v) = l /\ First(v)' = f /\ Past(v)' = a
  <2>1. /\ First(v) = vecs[v].base + 0 /\ Past(v) = End(v)
        /\ First(v)' = vecs[v].base + 0 /\ Past(v)' = vecs[v].base + from
    BY <1>1, <1>6, <1>7 DEF First, Past, End
  <2> QED
    BY <1>2, <1>9, <2>1
<1>11. /\ ContentsOf(v) = Cells(mem, f, l) /\ ContentsOf(v) # Nil
       /\ ContentsOf(v)' = Cells(mem, f, a)
  BY <1>1, <1>6, <1>10, ContentsRead, ContentsThere
<1>12. Middle(v)' = Cells(mem, a, b) /\ Rest(v)' = Cells(mem, b, l)
  <2>1. /\ d.elements + d.start = a /\ d.elements + d.end = b /\ d.elements + d.tail = b
        /\ d.elements + d.tail + d.tail_len = l
    BY <1>2, <1>3, <1>9
  <2> QED
    BY <1>1, <1>4, <1>5, <2>1, DrainRead
<1>13. mem \in Memories
  BY MemIsMemory
<1>14. /\ f \in Nat /\ l \in Nat /\ a \in Nat /\ b \in Nat
       /\ f <= l /\ l <= Capacity
  BY <1>9
<1>15. Len(ContentsOf(v)) = l - f
  BY <1>11, <1>13, <1>14, CellsLen
<1>16. to <= Len(ContentsOf(v))
  <2>1. to <= l - f
    BY <1>2, <1>9
  <2> QED
    BY <1>15, <2>1
<1>17. ContentsOf(v) = Cells(mem, f, l)
  BY <1>11
<1>18. SubSeq(ContentsOf(v), 1, from) = Cells(mem, f, a)
  <2>1. PICK x \in Nat, i \in Nat : x = f /\ i = 1
    BY <1>9
  <2>2. IsPart(f, l, x, a, i, from) /\ from \in Nat
    BY <1>2, <1>9, <2>1 DEF IsPart
  <2>3. Part(ContentsOf(v), i, from) = Cells(mem, x, a)
    BY <1>17, <2>2, ContentsCut
  <2> QED
    BY <2>1, <2>3 DEF Part
<1>19. SubSeq(ContentsOf(v), from + 1, to) = Cells(mem, a, b)
  <2>1. PICK i \in Nat : i = from + 1
    BY <1>2
  <2>2. IsPart(f, l, a, b, i, to) /\ to \in Nat
    BY <1>2, <1>9, <2>1 DEF IsPart
  <2>3. Part(ContentsOf(v), i, to) = Cells(mem, a, b)
    BY <1>17, <2>2, ContentsCut
  <2> QED
    BY <2>1, <2>3 DEF Part
<1>20. SubSeq(ContentsOf(v), to + 1, Len(ContentsOf(v))) = Cells(mem, b, l)
  <2>1. PICK i \in Nat, j \in Nat, y \in Nat : i = to + 1 /\ y = l /\ j = y - f
    <3>1. to + 1 \in Nat /\ l - f \in Nat
      BY <1>2, <1>9
    <3> QED
      BY <1>9, <3>1
  <2>2. IsPart(f, l, b, y, i, j)
    BY <1>2, <1>9, <2>1 DEF IsPart
  <2>3. Part(ContentsOf(v), i, j) = Cells(mem, b, y)
    BY <1>17, <2>2, ContentsCut
  <2>4. j = Len(ContentsOf(v))
    BY <1>15, <2>1
  <2> QED
    BY <2>1, <2>3, <2>4 DEF Part
<1>21. Room(v)' = Room(v)
  BY <1>1, <1>6 DEF Room
<1>22. Becomes(v, SubSeq(ContentsOf(v), 1, from), Room(v),
               SubSeq(ContentsOf(v), from + 1, to),
               SubSeq(ContentsOf(v), to + 1, Len(ContentsOf(v))))
  BY <1>11, <1>12, <1>18, <1>19, <1>20, <1>21 DEF Becomes
<1>23. Middle(v) = Nil
  BY <1>1, DrainRead
<1> QED
  BY <1>1, <1>8, <1>11, <1>16, <1>22, <1>23, AbstractCutOut

LEMMA SplitIsSplit ==
  ASSUME FixedVecInv, NEW v \in Vecs, NEW w \in Vecs \ {v}, NEW at \in Upto,
         NEW lender \in {v, vecs[v].lender}, Split(v, at, w, lender)
  PROVE  \E borrowed \in BOOLEAN : Abstract!Split(v, at, w, borrowed)
<1> DEFINE k == Kept(v, at)
           borrowed == lender = v
<1>1. /\ vecs[v] # Nil /\ vecs[w] = Nil /\ drains[v] = Nil /\ Idle
      /\ mem' = mem /\ drains' = drains /\ call' = call
  BY FreeDoesNotLend DEF Split, Usable
<1>2. /\ k \in Nat /\ k <= vecs[v].length /\ k <= at
      /\ vecs'[v] # Nil /\ vecs'[w] # Nil
      /\ vecs'[v].base = vecs[v].base /\ vecs'[v].length = k
      /\ vecs'[v].capacity = IF lender = v THEN vecs[v].capacity ELSE at
      /\ vecs'[w].base = vecs[v].base + at
      /\ vecs'[w].length = vecs[v].length - k
      /\ vecs'[w].capacity = vecs[v].capacity - at
      /\ at <= vecs[v].capacity
      /\ \A x \in Vecs : x # v /\ x # w => vecs'[x] = vecs[x]
  BY SplitParts DEF FixedVecInv
<1>3. k = IF at < vecs[v].length THEN at ELSE vecs[v].length
  BY DEF Kept
<1> HIDE DEF k
<1>4. call.op = "none" /\ drains[w] = Nil
  BY <1>1 DEF Idle, NoCall, FixedVecInv, Shape, Memory, DrainsSound
<1>5. \A x \in Vecs \ {v, w} : Keeps(x)
  BY <1>1, <1>2, <1>4, KeepsAside
<1>6. /\ vecs[v].base \in Nat /\ vecs[v].length \in Nat /\ vecs[v].capacity \in Nat
      /\ End(v) \in Nat /\ End(v) = vecs[v].base + vecs[v].length /\ End(v) <= Capacity
      /\ at \in Nat /\ Capacity \in Nat
      /\ vecs[v].base + vecs[v].capacity <= Capacity
  BY <1>1, VecFields, FixedVecAssumption DEF FixedVecInv, Upto, End, Limit
<1> DEFINE f == vecs[v].base
           l == End(v)
           a == f + k
<1>7. /\ f = vecs[v].base /\ l = End(v) /\ a = f + k
      /\ f \in Nat /\ l \in Nat /\ a \in Nat
      /\ f <= a /\ a <= l /\ f <= l /\ l <= Capacity
  BY <1>2, <1>6
<1> HIDE DEF f, l, a
<1>8. First(v) = f /\ Past(v) = l /\ First(v)' = f /\ Past(v)' = a
  <2>1. /\ First(v) = vecs[v].base + 0 /\ Past(v) = End(v)
        /\ First(v)' = vecs[v].base + 0 /\ Past(v)' = vecs[v].base + k
    BY <1>1, <1>2, <1>4 DEF First, Past, End
  <2> QED
    BY <1>6, <1>7, <2>1
<1>9. /\ ContentsOf(v) = Cells(mem, f, l) /\ ContentsOf(v) # Nil
      /\ ContentsOf(v)' = Cells(mem, f, a)
  BY <1>1, <1>2, <1>8, ContentsRead, ContentsThere
<1>10. mem \in Memories
  BY MemIsMemory
<1> /\ f \in Nat /\ l \in Nat /\ a \in Nat /\ k \in Nat
    /\ f <= l /\ l <= Capacity
  BY <1>2, <1>7
<1>11. Len(ContentsOf(v)) = l - f
  <2>1. Len(Cells(mem, f, l)) = l - f
    BY <1>7, <1>10, CellsLen
  <2> QED
    BY <1>9, <2>1
<1>12. l - f = vecs[v].length
  BY <1>6, <1>7
<1>13. k = IF at < Len(ContentsOf(v)) THEN at ELSE Len(ContentsOf(v))
  BY <1>3, <1>11, <1>12
<1>14. ContentsOf(v) = Cells(mem, f, l)
  BY <1>9
<1>15. SubSeq(ContentsOf(v), 1, k) = ContentsOf(v)'
  <2>1. PICK x \in Nat, i \in Nat : x = f /\ i = 1
    BY <1>7
  <2>2. IsPart(f, l, x, a, i, k)
    BY <1>2, <1>7, <2>1 DEF IsPart
  <2>3. Part(ContentsOf(v), i, k) = Cells(mem, x, a)
    BY <1>14, <2>2, ContentsCut
  <2> QED
    BY <1>9, <2>1, <2>3 DEF Part
<1>16. SubSeq(ContentsOf(v), k + 1, Len(ContentsOf(v))) = Cells(mem, a, l)
  <2>1. PICK i \in Nat, j \in Nat, y \in Nat : i = k + 1 /\ y = l /\ j = y - f
    BY <1>2, <1>7
  <2>2. IsPart(f, l, a, y, i, j)
    BY <1>2, <1>7, <2>1 DEF IsPart
  <2>3. Part(ContentsOf(v), i, j) = Cells(mem, a, y)
    BY <1>14, <2>2, ContentsCut
  <2>4. j = Len(ContentsOf(v))
    BY <1>11, <2>1
  <2> QED
    BY <2>1, <2>3, <2>4 DEF Part
<1>17. ContentsOf(w)' = Cells(mem, a, l)
  <2>1. /\ First(w)' = vecs[v].base + at + 0
        /\ Past(w)' = vecs[v].base + at + (vecs[v].length - k)
    BY <1>1, <1>2, <1>4 DEF First, Past, End
  <2>2. ContentsOf(w)' = Cells(mem, First(w)', Past(w)')
    BY <1>1, <1>2, ContentsRead
  <2>3. CASE at < vecs[v].length
    <3>1. First(w)' = a /\ Past(w)' = l
      BY <1>2, <1>3, <1>6, <1>7, <2>1, <2>3
    <3> QED
      BY <2>2, <3>1
  <2>4. CASE ~ (at < vecs[v].length)
    <3>1. k = vecs[v].length
      BY <1>3, <2>4
    <3>2. First(w)' = vecs[v].base + at /\ Past(w)' = vecs[v].base + at
      BY <1>6, <2>1, <3>1
    <3>3. a = l
      BY <1>6, <1>7, <3>1
    <3>4. Cells(mem, a, l) = << >>
      BY <1>7, <3>3, CellsEmpty
    <3>5. PICK x \in Nat : x = vecs[v].base + at
      BY <1>6
    <3>6. Cells(mem, x, x) = << >>
      BY CellsEmpty
    <3> QED
      BY <2>2, <3>2, <3>4, <3>5, <3>6
  <2> QED
    BY <2>3, <2>4
<1>18. /\ Room(v) = vecs[v].capacity /\ Room(v)' = IF borrowed THEN Room(v) ELSE at
       /\ Room(w)' = Room(v) - at
  BY <1>1, <1>2 DEF Room
<1>19. /\ Middle(v) = Nil /\ Middle(v)' = Middle(v) /\ Rest(v)' = Rest(v)
       /\ Middle(w)' = Middle(w) /\ Rest(w)' = Rest(w)
  BY <1>1, <1>4, DrainRead
<1>20. ContentsOf(w) = Nil /\ at <= Room(v)
  BY <1>1, <1>2, <1>18, ContentsRead
<1> HIDE DEF borrowed
<1>21. Becomes(v, SubSeq(ContentsOf(v), 1, k), IF borrowed THEN Room(v) ELSE at,
               Middle(v), Rest(v))
  BY <1>15, <1>18, <1>19 DEF Becomes
<1>22. Becomes(w, SubSeq(ContentsOf(v), k + 1, Len(ContentsOf(v))), Room(v) - at,
               Middle(w), Rest(w))
  BY <1>16, <1>17, <1>18, <1>19 DEF Becomes
<1>23. Abstract!Split(v, at, w, borrowed)
  BY <1>5, <1>9, <1>13, <1>19, <1>20, <1>21, <1>22, AbstractSplit
<1>24. borrowed \in BOOLEAN
  BY DEF borrowed
<1> QED
  BY <1>23, <1>24

\* A step that is about the Drain of v alone.
LEMMA OnlyDrain ==
  ASSUME FixedVecInv, NEW v \in Vecs, drains[v] # Nil, NEW d,
         vecs' = vecs, mem' = mem, drains' = [drains EXCEPT ![v] = d],
         call.op \notin {"drop", "truncate"}, call'.op \notin {"drop", "truncate"}
  PROVE  /\ OthersKeepTo(v) /\ drains'[v] = d
         /\ ContentsOf(v)' = ContentsOf(v) /\ Room(v)' = Room(v)
<1>1. drains'[v] = d /\ \A w \in Vecs : w # v => drains'[w] = drains[w]
  BY DEF FixedVecInv, Shape, Memory
<1>2. OthersKeepTo(v)
  BY <1>1, KeepsAside DEF OthersKeepTo
<1>3. First(v)' = First(v) /\ Past(v)' = Past(v)
  BY DEF First, Past, End
<1>4. ContentsOf(v)' = ContentsOf(v)
  BY <1>3, ContentsRead
<1> QED
  BY <1>1, <1>2, <1>4 DEF Room

LEMMA DrainYieldsFirst ==
  ASSUME FixedVecInv, NEW v \in Vecs, drains[v] # Nil, drains[v].start # drains[v].end,
         vecs' = vecs, mem' = mem, call' = call, call.op \in {"none", "drain"},
         drains' = [drains EXCEPT ![v] = [drains[v] EXCEPT !.start = @ + 1]]
  PROVE  Abstract!YieldFirst(v)
<1> DEFINE c == drains[v]
           d == [c EXCEPT !.start = @ + 1]
<1>1. /\ OthersKeepTo(v) /\ drains'[v] = d
      /\ ContentsOf(v)' = ContentsOf(v) /\ Room(v)' = Room(v)
  BY OnlyDrain
<1>2. /\ c.start \in Nat /\ c.end \in Nat /\ c.tail \in Nat
      /\ c.tail_len \in Nat /\ c.elements \in Nat
      /\ c.start <= c.end /\ c.end <= c.tail
      /\ vecs[v] # Nil /\ c.elements + c.tail + c.tail_len <= Limit(v)
  BY DrainThere
<1>3. Limit(v) <= Capacity /\ Limit(v) \in Nat
  BY <1>2, ContentsThere
<1>4. /\ d.start = c.start + 1 /\ d.end = c.end /\ d.tail = c.tail
      /\ d.tail_len = c.tail_len /\ d.elements = c.elements
  BY DrainFields DEF Drains, FixedVecInv
<1>5. d # Nil
  <2>1. c.start + 1 \in Upto
    BY <1>2, <1>3, FixedVecAssumption DEF Upto
  <2>2. d \in Drains
    BY <1>2, <2>1, DrainFields DEF Drains, FixedVecInv
  <2> HIDE DEF d
  <2> QED
    BY <2>2, NilAssumption
<1> HIDE DEF d
<1> DEFINE f == c.elements + c.start
           l == c.elements + c.end
<1>6. f \in Nat /\ l \in Nat /\ f < l /\ f <= l /\ l <= Capacity
  BY <1>2, <1>3, FixedVecAssumption
<1>7. Middle(v) = Cells(mem, f, l) /\ Rest(v)' = Rest(v)
  BY <1>1, <1>4, <1>5, DrainRead
<1>8. Middle(v)' = Cells(mem, f + 1, l)
  <2>1. Middle(v)' = Cells(mem, c.elements + (c.start + 1), c.elements + c.end)
    BY <1>1, <1>4, <1>5, DrainRead
  <2>2. c.elements + (c.start + 1) = f + 1
    BY <1>2
  <2> QED
    BY <2>1, <2>2
<1> HIDE DEF f, l, c
<1>9. mem \in Memories
  BY MemIsMemory
<1>10. Middle(v) \notin {Nil, << >>}
  BY <1>6, <1>7, <1>9, CellsThere, CellsAreNotNil
<1>11. Middle(v)' = Tail(Middle(v))
  BY <1>6, <1>7, <1>8, <1>9, CellsTail
<1>12. Becomes(v, ContentsOf(v), Room(v), Tail(Middle(v)), Rest(v))
  BY <1>1, <1>7, <1>11 DEF Becomes
<1> QED
  BY <1>1, <1>10, <1>12, AbstractYieldFirst

LEMMA DrainYieldsLast ==
  ASSUME FixedVecInv, NEW v \in Vecs, DrainNextBack(v)
  PROVE  Abstract!YieldLast(v)
<1> DEFINE c == drains[v]
           d == [c EXCEPT !.end = @ - 1]
<1>0. /\ drains[v] # Nil /\ c.start # c.end /\ Idle
      /\ vecs' = vecs /\ mem' = mem /\ call' = call
      /\ drains' = [drains EXCEPT ![v] = d] /\ call.op = "none"
  BY DEF DrainNextBack, Idle, NoCall
<1>1. /\ OthersKeepTo(v) /\ drains'[v] = d
      /\ ContentsOf(v)' = ContentsOf(v) /\ Room(v)' = Room(v)
  BY <1>0, OnlyDrain
<1>2. /\ c.start \in Nat /\ c.end \in Nat /\ c.tail \in Nat
      /\ c.tail_len \in Nat /\ c.elements \in Nat
      /\ c.start <= c.end /\ c.end <= c.tail
      /\ vecs[v] # Nil /\ c.elements + c.tail + c.tail_len <= Limit(v)
  BY <1>0, DrainThere
<1>3. Limit(v) <= Capacity /\ Limit(v) \in Nat
  BY <1>2, ContentsThere
<1>4. /\ d.start = c.start /\ d.end = c.end - 1 /\ d.tail = c.tail
      /\ d.tail_len = c.tail_len /\ d.elements = c.elements
  BY <1>0, DrainFields DEF Drains, FixedVecInv
<1>5. d # Nil
  <2>1. c.end - 1 \in Upto
    BY <1>0, <1>2, <1>3, FixedVecAssumption DEF Upto
  <2>2. d \in Drains
    BY <1>0, <1>2, <2>1, DrainFields DEF Drains, FixedVecInv
  <2> HIDE DEF d
  <2> QED
    BY <2>2, NilAssumption
<1> HIDE DEF d
<1> DEFINE f == c.elements + c.start
           l == c.elements + c.end
<1>6. f \in Nat /\ l \in Nat /\ f < l /\ f <= l /\ l <= Capacity
  BY <1>0, <1>2, <1>3, FixedVecAssumption
<1>7. Middle(v) = Cells(mem, f, l) /\ Rest(v)' = Rest(v)
  BY <1>0, <1>1, <1>4, <1>5, DrainRead
<1>8. Middle(v)' = Cells(mem, f, l - 1)
  <2>1. Middle(v)' = Cells(mem, c.elements + c.start, c.elements + (c.end - 1))
    BY <1>0, <1>1, <1>4, <1>5, DrainRead
  <2>2. c.elements + (c.end - 1) = l - 1
    BY <1>2
  <2> QED
    BY <2>1, <2>2
<1>9. mem \in Memories
  BY MemIsMemory
<1> HIDE DEF f, l, c
<1>10. Middle(v) \notin {Nil, << >>}
  BY <1>6, <1>7, <1>9, CellsThere, CellsAreNotNil
<1>11. Middle(v)' = Abstract!Front(Middle(v))
  BY <1>6, <1>7, <1>8, <1>9, CellsFront
<1>12. Becomes(v, ContentsOf(v), Room(v), Abstract!Front(Middle(v)), Rest(v))
  BY <1>1, <1>7, <1>11 DEF Becomes
<1> QED
  BY <1>1, <1>10, <1>12, AbstractYieldLast

\* A Drain that is gone without moving the tail.
LEMMA DrainGoneIsLoseTail ==
  ASSUME FixedVecInv, NEW v \in Vecs, drains[v] # Nil, vecs' = vecs, mem' = mem,
         drains' = [drains EXCEPT ![v] = Nil], call.op \in {"none", "drain"}, call' = NoCall
  PROVE  Abstract!LoseTail(v)
<1>1. /\ OthersKeepTo(v) /\ drains'[v] = Nil
      /\ ContentsOf(v)' = ContentsOf(v) /\ Room(v)' = Room(v)
  BY OnlyDrain DEF NoCall
<1> DEFINE c == drains[v]
<1>2. /\ c.start \in Nat /\ c.end \in Nat /\ c.tail \in Nat
      /\ c.tail_len \in Nat /\ c.elements \in Nat
      /\ c.start <= c.end /\ c.end <= c.tail
      /\ vecs[v] # Nil /\ c.elements + c.tail + c.tail_len <= Limit(v)
  BY DrainThere
<1>3. Limit(v) <= Capacity /\ Limit(v) \in Nat /\ Capacity \in Nat
  BY <1>2, ContentsThere, FixedVecAssumption
<1> DEFINE f == c.elements + c.start
           l == c.elements + c.end
<1>4. f \in Nat /\ l \in Nat /\ f <= l /\ l <= Capacity
  BY <1>2, <1>3
<1>5. Middle(v) = Cells(mem, f, l) /\ Middle(v)' = Nil /\ Rest(v)' = << >>
  BY <1>1, DrainRead
<1> HIDE DEF f, l, c
<1>6. Middle(v) # Nil
  BY <1>4, <1>5, MemIsMemory, CellsAreNotNil
<1>7. Becomes(v, ContentsOf(v), Room(v), Nil, << >>)
  BY <1>1, <1>5 DEF Becomes
<1> QED
  BY <1>1, <1>6, <1>7, AbstractLoseTail

\* The elements of v, and its tail moved to behind them.
LEMMA DrainEndIsJoin ==
  ASSUME FixedVecInv, DrainDropEnds
  PROVE  \E v \in Vecs : Abstract!Join(v)
<1>0. PICK v \in Vecs : v = call.vec
  BY Running, CallFields DEF DrainDropEnds, FixedVecInv
<1> DEFINE c == drains[v]
           n == vecs[v].length + c.tail_len
<1>1. /\ call.op = "drain" /\ c.start = c.end
      /\ mem' = MoveTail(c, c.elements)
      /\ vecs' = [vecs EXCEPT ![v].length = n]
      /\ drains' = [drains EXCEPT ![v] = Nil]
      /\ call' = NoCall
  BY <1>0 DEF DrainDropEnds
<1>2. c # Nil
  BY <1>0, <1>1, Running DEF FixedVecInv, Shape, CallSound
<1>3. /\ c.start \in Nat /\ c.end \in Nat /\ c.tail \in Nat
      /\ c.tail_len \in Nat /\ c.elements \in Nat
      /\ vecs[v] # Nil /\ c.elements = End(v)
      /\ End(v) + c.tail + c.tail_len <= Limit(v)
  BY <1>2, DrainThere
<1>4. /\ vecs[v].base \in Nat /\ vecs[v].length \in Nat /\ Capacity \in Nat
      /\ End(v) \in Nat /\ End(v) = vecs[v].base + vecs[v].length
      /\ Limit(v) \in Nat /\ Limit(v) <= Capacity
  BY <1>3, VecFields, FixedVecAssumption DEF FixedVecInv, End
<1>5. ~ Lends(v)
  BY <1>2 DEF FixedVecInv, Shape, Memory, DrainsSound
<1>6. drains'[v] = Nil /\ \A w \in Vecs : w # v => drains'[w] = drains[w]
  BY <1>1 DEF FixedVecInv, Shape, Memory
<1>7. /\ vecs'[v] # Nil /\ vecs'[v].length = n
      /\ vecs'[v].base = vecs[v].base /\ vecs'[v].capacity = vecs[v].capacity
      /\ \A w \in Vecs : w # v => vecs'[w] = vecs[w]
  <2>1. n \in Upto
    BY <1>3, <1>4 DEF Upto
  <2> HIDE DEF n, c
  <2> QED
    BY <1>1, <1>3, <2>1, LengthSet DEF FixedVecInv
<1> DEFINE f == vecs[v].base
           m == End(v)
           s == End(v) + c.tail
           e == End(v) + c.tail + c.tail_len
           l == End(v) + c.tail_len
<1>8. /\ f \in Nat /\ m \in Nat /\ s \in Nat /\ e \in Nat /\ l \in Nat
      /\ f <= m /\ m <= l /\ l <= Capacity /\ s <= e /\ e <= Capacity /\ e - s = l - m
  BY <1>3, <1>4
<1>9. \A p \in Slots : mem'[p] = IF p \in m .. l - 1 THEN mem[p - m + s] ELSE mem[p]
  <2>1. \A p \in Slots :
          mem'[p] = IF p \in c.elements .. c.elements + c.tail_len - 1
                    THEN mem[p - c.elements + c.elements + c.tail] ELSE mem[p]
    BY <1>1 DEF MoveTail
  <2>2. \A p \in Slots : p \in Int
    BY <1>4 DEF Slots
  <2>3. \A p \in Slots : p - c.elements + c.elements + c.tail = p - m + s
    BY <1>3, <2>2
  <2> QED
    BY <1>3, <2>1, <2>3
<1>10. mem \in Memories /\ mem' \in Memories
  BY MemIsMemory, DrainsEnd DEF FixedVecInv, Contents, Memories, Items
<1>11. First(v)' = f /\ Past(v)' = l /\ First(v) = f /\ Past(v) = m
  <2>1. /\ First(v)' = vecs[v].base + 0 /\ Past(v)' = vecs[v].base + n
        /\ First(v) = vecs[v].base + 0 /\ Past(v) = m
    BY <1>1, <1>7 DEF First, Past, End, NoCall
  <2> QED
    BY <1>3, <1>4, <2>1
<1>12. /\ ContentsOf(v) = Cells(mem, f, m)
       /\ ContentsOf(v)' = Cells(mem', f, l)
  BY <1>3, <1>7, <1>11, ContentsRead
<1>13. /\ Rest(v) = Cells(mem, s, e)
       /\ Middle(v) = << >>
       /\ Middle(v)' = Nil /\ Rest(v)' = << >>
  <2>1. PICK a \in Nat : a = c.elements + c.start
    BY <1>3
  <2>2. Middle(v) = Cells(mem, a, a) /\ Rest(v) = Cells(mem, s, e)
    BY <1>1, <1>2, <1>3, <2>1, DrainRead
  <2>3. Cells(mem, a, a) = << >>
    BY CellsEmpty
  <2> QED
    BY <1>6, <2>2, <2>3, DrainRead
<1>14. m .. l - 1 \subseteq vecs[v].base .. Limit(v) - 1
  BY <1>3, <1>4, <1>8
<1> HIDE DEF c, n, f, m, s, e, l
<1>15. ContentsOf(v)' = ContentsOf(v) \o Rest(v)
  <2>1. \A p \in f .. m - 1 : p \in Slots /\ p \notin m .. l - 1
    BY <1>8, <1>4 DEF Slots
  <2>2. \A p \in f .. m - 1 : mem'[p] = mem[p]
    BY <1>9, <2>1
  <2>3. \A p \in m .. l - 1 : p \in Slots
    BY <1>8, <1>4 DEF Slots
  <2>4. \A p \in m .. l - 1 : mem'[p] = mem[p - m + s]
    BY <1>9, <2>3
  <2>5. Cells(mem, f, m) \o Cells(mem, s, e) = Cells(mem', f, l)
    <3>1. PICK x \in Memories, y \in Memories : x = mem /\ y = mem'
      BY <1>10
    <3>2. IsMoved(x, y, f, m, l, s, e)
      BY <1>8, <2>2, <2>4, <3>1 DEF IsMoved
    <3>3. Cells(x, f, m) \o Cells(x, s, e) = Cells(y, f, l)
      BY <3>2, CellsJoin
    <3> QED
      BY <3>1, <3>3
  <2> QED
    BY <1>12, <1>13, <2>5
<1>16. OthersKeepTo(v)
  <2>1. ASSUME NEW w \in Vecs, w # v
        PROVE  Keeps(w)
    <3>1. OwnSlots(w) \cap (m .. l - 1) = {}
      <4>1. OwnSlots(w) \cap (vecs[v].base .. Limit(v) - 1) = {}
        BY <1>3, <1>5, <2>1, MemoryIsFree DEF FixedVecInv
      <4> QED
        BY <1>14, <4>1
    <3>2. OwnSlots(w) \subseteq Slots
      BY OwnedInSlots DEF Owned, FixedVecInv
    <3>3. \A p \in OwnSlots(w) : mem'[p] = mem[p]
      BY <1>9, <3>1, <3>2
    <3> QED
      BY <1>1, <1>6, <1>7, <2>1, <3>3, KeepsAside DEF NoCall
  <2> QED
    BY <2>1 DEF OthersKeepTo
<1>17. Room(v)' = Room(v)
  BY <1>3, <1>7 DEF Room
<1>18. Becomes(v, ContentsOf(v) \o Rest(v), Room(v), Nil, << >>)
  BY <1>13, <1>15, <1>17 DEF Becomes
<1>19. Abstract!Join(v)
  BY <1>13, <1>16, <1>18, AbstractJoin
<1> QED
  BY <1>19

\* Elements that a Drain yields, to the caller or to their destructors.
LEMMA DrainIsYield ==
  ASSUME FixedVecInv, DrainDropNext \/ \E v \in Vecs : DrainNext(v)
  PROVE  \E v \in Vecs : Abstract!YieldFirst(v)
<1>1. ASSUME NEW v \in Vecs, DrainNext(v)
      PROVE  Abstract!YieldFirst(v)
  <2>1. /\ drains[v] # Nil /\ drains[v].start # drains[v].end
        /\ vecs' = vecs /\ mem' = mem /\ call' = call /\ call.op \in {"none", "drain"}
        /\ drains' = [drains EXCEPT ![v].start = @ + 1]
    BY <1>1 DEF DrainNext, Idle, NoCall
  <2>2. drains' = [drains EXCEPT ![v] = [drains[v] EXCEPT !.start = @ + 1]]
    BY <2>1
  <2> QED
    BY <2>1, <2>2, DrainYieldsFirst
<1>2. ASSUME DrainDropNext
      PROVE  \E v \in Vecs : Abstract!YieldFirst(v)
  <2>1. PICK v \in Vecs : v = call.vec
    BY <1>2, Running, CallFields DEF DrainDropNext, FixedVecInv
  <2>2. /\ drains[v].start # drains[v].end
        /\ vecs' = vecs /\ mem' = mem /\ call' = call /\ call.op = "drain"
        /\ drains' = [drains EXCEPT ![v].start = @ + 1]
    BY <1>2, <2>1 DEF DrainDropNext
  <2>3. drains[v] # Nil
    BY <2>1, <2>2, Running DEF FixedVecInv, Shape, CallSound
  <2>4. drains' = [drains EXCEPT ![v] = [drains[v] EXCEPT !.start = @ + 1]]
    BY <2>2
  <2> QED
    BY <2>2, <2>3, <2>4, DrainYieldsFirst
<1> QED
  BY <1>1, <1>2

LEMMA DrainIsLoseTail ==
  ASSUME FixedVecInv, DrainDropPanics \/ \E v \in Vecs : DrainForget(v)
  PROVE  \E v \in Vecs : Abstract!LoseTail(v)
<1>1. ASSUME NEW v \in Vecs, DrainForget(v)
      PROVE  Abstract!LoseTail(v)
  <2>1. /\ drains[v] # Nil /\ vecs' = vecs /\ mem' = mem
        /\ call' = NoCall /\ call.op \in {"none", "drain"}
        /\ drains' = [drains EXCEPT ![v] = Nil]
    BY <1>1 DEF DrainForget, Idle, NoCall
  <2> QED
    BY <2>1, DrainGoneIsLoseTail
<1>2. ASSUME DrainDropPanics
      PROVE  \E v \in Vecs : Abstract!LoseTail(v)
  <2>1. PICK v \in Vecs : v = call.vec
    BY <1>2, Running, CallFields DEF DrainDropPanics, FixedVecInv
  <2>2. /\ vecs' = vecs /\ mem' = mem /\ call' = NoCall /\ call.op = "drain"
        /\ drains' = [drains EXCEPT ![v] = Nil]
    BY <1>2, <2>1 DEF DrainDropPanics
  <2>3. drains[v] # Nil
    BY <2>1, <2>2, Running DEF FixedVecInv, Shape, CallSound
  <2> QED
    BY <2>2, <2>3, DrainGoneIsLoseTail
<1> QED
  BY <1>1, <1>2

\* Every step of the vectors is one of sequences, or none.
LEMMA StepsOfSequences ==
  ASSUME FixedVecInv, [Next]_vars
  PROVE  [Abstract!Next]_(Abstract!vars)
<1> USE DEF Abstract!Next
<1>1. ASSUME NEW v \in Vecs,
             \/ New(v) \/ Pop(v) \/ Forget(v)
             \/ DrainNext(v) \/ DrainNextBack(v) \/ DrainForget(v)
             \/ \E e \in Elems : Push(v, e)
      PROVE  Abstract!Next
  BY <1>1, NewIsCreate, PopIsTakeLast, EndsAreDiscard, DrainIsYield, DrainYieldsLast,
     DrainIsLoseTail, WritesArePushes
<1>2. ASSUME NEW v \in Vecs, NEW from \in Upto, NEW to \in Upto, Drain(v, from, to)
      PROVE  Abstract!Next
  BY <1>2, DrainIsCutOut DEF Upto
<1>3. ASSUME NEW v \in Vecs, NEW at \in Upto, NEW w \in Vecs \ {v},
             SplitBorrowed(v, at, w) \/ SplitAndShrinkTo(v, at, w)
      PROVE  Abstract!Next
  <2>1. \E borrowed \in BOOLEAN : Abstract!Split(v, at, w, borrowed)
    BY <1>3, SplitIsSplit DEF SplitBorrowed, SplitAndShrinkTo
  <2> QED
    BY <2>1 DEF Upto
<1>4. ASSUME \/ \E v \in Vecs : StartFill(v) \/ StartDrop(v) \/ StartDrainDrop(v)
             \/ \E v \in Vecs, n \in Upto : StartTruncate(v, n)
             \/ FillEnds \/ TruncateEnds \/ Catch \/ UNCHANGED vars
      PROVE  UNCHANGED Abstract!vars
  BY <1>4, LoopsAreNotSeen
<1>5. ASSUME \/ \E e \in Elems : FillNext(e)
             \/ TruncateNext \/ TruncatePanics \/ DropNext \/ DropEnds
             \/ DrainDropNext \/ DrainDropPanics \/ DrainDropEnds
      PROVE  Abstract!Next
  <2>1. CASE DropEnds
    <3>1. PICK v \in Vecs : v = call.vec
      BY <2>1, Running, CallFields DEF DropEnds, FixedVecInv
    <3>2. Abstract!Discard(v)
      BY <2>1, <3>1, EndsAreDiscard
    <3> QED
      BY <3>2
  <2> QED
    BY <1>5, <2>1, WritesArePushes, TruncateIsTakeLast, DropIsDropFirst, DrainIsYield,
       DrainIsLoseTail, DrainEndIsJoin
<1> QED
  BY <1>1, <1>2, <1>3, <1>4, <1>5 DEF Next, LoopStep

\* Vectors behave as sequences do, whatever their memory looks like and whatever
\* panics: pushed to and popped from the end, cut in three by a Drain that yields
\* from both ends of the middle and then joins the rest, split in two.
THEOREM FixedVecIsSequences == Spec => SequenceSpec
<1>1. Init => Abstract!Init
  BY DEF Init, Abstract!Init, ContentsOf
<1>2. FixedVecInv /\ [Next]_vars => [Abstract!Next]_(Abstract!vars)
  BY StepsOfSequences
<1> QED
  BY <1>1, <1>2, FixedVecInvariant, PTL DEF Spec, SequenceSpec, Abstract!Spec
==============================================================================

----------------------------- MODULE ArenaProofs -----------------------------
(***************************************************************************)
(* Facts about the placement arithmetic of Arena for every base address,   *)
(* length and layout: the padding is the least that aligns the block, the  *)
(* exhaustion test refuses exactly when no aligned place is left, and it   *)
(* can only become harder to pass as the level rises.                      *)
(***************************************************************************)
EXTENDS Arena, TLAPS

\* Quotient and remainder of a natural number.
LEMMA Division ==
  ASSUME NEW a \in Nat, NEW n \in Nat \ {0}
  PROVE  /\ a \div n \in Nat
         /\ a % n \in 0 .. n - 1
         /\ a = n * (a \div n) + (a % n)
  OBVIOUS

\* The remainder is the only one in range.
LEMMA DivisionUnique ==
  ASSUME NEW n \in Nat \ {0}, NEW q \in Nat, NEW r \in 0 .. n - 1
  PROVE  (n * q + r) % n = r
  OBVIOUS

\* Two multiples of n less than n apart are equal.
LEMMA MultiplesApart ==
  ASSUME NEW n \in Nat \ {0}, NEW p \in Nat, NEW q \in Nat, p < q
  PROVE  n * p + n <= n * q
<1>1. n * (p + 1) <= n * q
  BY p + 1 <= q
<1>2. n * (p + 1) = n * p + n
  OBVIOUS
<1> QED
  BY <1>1, <1>2

\* The padding is below the alignment, leads to a multiple of it, and the
\* place it leads to is not above any later multiple.
LEMMA PaddingAligns ==
  ASSUME NEW addr \in Nat, NEW n \in Nat \ {0}
  PROVE  /\ AlignOffset(addr, n) \in 0 .. n - 1
         /\ (addr + AlignOffset(addr, n)) % n = 0
         /\ \A m \in Nat : m >= addr /\ m % n = 0
              => m >= addr + AlignOffset(addr, n)
<1> DEFINE q == addr \div n
           r == addr % n
           pad == AlignOffset(addr, n)
<1>1. /\ q \in Nat
      /\ r \in 0 .. n - 1
      /\ addr = n * q + r
  BY Division
<1>2. CASE r = 0
  <2>1. pad = n % n
    BY <1>2 DEF AlignOffset
  <2>2. n % n = 0
    <3>1. (n * 1 + 0) % n = 0
      BY DivisionUnique
    <3> QED
      BY <3>1
  <2>3. (addr + pad) % n = 0
    BY <2>1, <2>2, <1>2
  <2> QED
    BY <2>1, <2>2, <2>3
<1>3. CASE r # 0
  <2>1. pad = n - r
    <3>1. n - r \in 0 .. n - 1
      BY <1>1, <1>3
    <3>2. (n * 0 + (n - r)) % n = n - r
      BY <3>1, DivisionUnique
    <3>3. n * 0 + (n - r) = n - r
      BY <1>1
    <3>4. (n - r) % n = n - r
      BY <3>2, <3>3
    <3> QED
      BY <3>4 DEF AlignOffset
  <2>2. addr + pad = n * (q + 1)
    <3>1. n * (q + 1) = n * q + n
      BY <1>1
    <3> HIDE DEF q, r, pad
    <3> QED
      BY <1>1, <2>1, <3>1
  <2>3. (addr + pad) % n = 0
    <3>1. (n * (q + 1) + 0) % n = 0
      <4>1. q + 1 \in Nat
        BY <1>1
      <4> HIDE DEF q
      <4> QED
        BY <4>1, DivisionUnique
    <3>2. n * (q + 1) + 0 = n * (q + 1)
      BY <1>1
    <3> QED
      BY <2>2, <3>1, <3>2
  <2>4. ASSUME NEW m \in Nat, m >= addr, m % n = 0
        PROVE  m >= addr + pad
    <3> DEFINE p == m \div n
    <3>1. p \in Nat /\ m = n * p + (m % n)
      BY Division
    <3>2. m = n * p
      BY <3>1, <2>4
    <3>3. p > q
      <4>1. SUFFICES ASSUME p <= q PROVE FALSE
        BY <3>1, <1>1
      <4>2. n * p <= n * q
        <5> HIDE DEF p, q
        <5> QED
          BY <4>1, <3>1, <1>1
      <4>3. m < addr
        <5>1. n * q \in Nat /\ n * p \in Nat
          <6> HIDE DEF p, q
          <6> QED
            BY <3>1, <1>1
        <5> HIDE DEF p, q, r
        <5> QED
          BY <4>2, <3>2, <1>1, <1>3, <5>1
      <4> QED
        BY <4>3, <2>4
    <3>4. n * q + n <= n * p
      <4> HIDE DEF p, q
      <4> QED
        BY <3>3, <3>1, <1>1, MultiplesApart
    <3>5. n * (q + 1) = n * q + n
      BY <1>1
    <3> HIDE DEF p, q
    <3> QED
      BY <3>2, <3>4, <3>5, <2>2
  <2> QED
    BY <2>1, <2>3, <2>4, <1>1, <1>3
<1> QED
  BY <1>2, <1>3
\* A layout's fields.
LEMMA LayoutFields ==
  ASSUME NEW layout \in Layouts
  PROVE  layout.size \in Nat \ {0} /\ layout.align \in Nat \ {0}
  BY ArenaAssumption

\* Where a block of this layout goes above a level.
LEMMA Placement ==
  ASSUME NEW level \in Nat, NEW layout \in Layouts
  PROVE  /\ Padding(level, layout) \in Nat
         /\ StartOf(level, layout) \in Nat
         /\ StartOf(level, layout) >= level
         /\ EndOf(level, layout) \in Nat
         /\ EndOf(level, layout) > StartOf(level, layout)
         /\ (Base + StartOf(level, layout)) % layout.align = 0
         /\ \A s \in Nat : s >= level /\ (Base + s) % layout.align = 0
              => s >= StartOf(level, layout)
<1>1. layout.size \in Nat \ {0} /\ layout.align \in Nat \ {0}
  BY LayoutFields
<1>2. Base \in Nat /\ Base + level \in Nat
  BY ArenaAssumption
<1> DEFINE pad == AlignOffset(Base + level, layout.align)
<1>3. /\ pad \in 0 .. layout.align - 1
      /\ (Base + level + pad) % layout.align = 0
      /\ \A m \in Nat : m >= Base + level /\ m % layout.align = 0
           => m >= Base + level + pad
  BY <1>1, <1>2, PaddingAligns
<1>4. Padding(level, layout) = pad /\ pad \in Nat
  BY <1>1, <1>3 DEF Padding
<1> HIDE DEF pad
<1>5. StartOf(level, layout) = level + pad
  BY <1>4 DEF StartOf
<1>6. (Base + StartOf(level, layout)) % layout.align = 0
  <2>1. Base + StartOf(level, layout) = Base + level + pad
    BY <1>2, <1>4, <1>5
  <2> QED
    BY <2>1, <1>3
<1>7. ASSUME NEW s \in Nat, s >= level, (Base + s) % layout.align = 0
      PROVE  s >= StartOf(level, layout)
  <2>1. Base + s \in Nat /\ Base + s >= Base + level
    BY <1>2, <1>7
  <2>2. Base + s >= Base + level + pad
    BY <2>1, <1>3, <1>7
  <2> QED
    BY <2>2, <1>2, <1>4, <1>5
<1> QED
  BY <1>1, <1>4, <1>5, <1>6, <1>7 DEF EndOf

\* The exhaustion test compares the end of the block with the storage's.
LEMMA FitsIsEnd ==
  ASSUME NEW level \in 0 .. Length, NEW layout \in Layouts
  PROVE  Fits(level, layout) <=> EndOf(level, layout) <= Length
<1>1. layout.size \in Nat \ {0}
  BY LayoutFields
<1>2. level \in Nat /\ Length \in Nat
  BY ArenaAssumption
<1>3. Padding(level, layout) \in Nat
  BY <1>2, Placement
<1> QED
  BY <1>1, <1>2, <1>3 DEF Fits, SaturatingSub, EndOf, StartOf

\* The exhaustion test of the code refuses a request exactly when no aligned
\* place for it is left above the level.
THEOREM FitsIsRoom ==
  ASSUME NEW level \in 0 .. Length, NEW layout \in Layouts
  PROVE  Fits(level, layout) <=> RoomAbove(level, layout)
<1>1. layout.size \in Nat \ {0} /\ level \in Nat /\ Length \in Nat
  BY LayoutFields, ArenaAssumption
<1> DEFINE first == StartOf(level, layout)
<1>2. /\ first \in Nat /\ first >= level
      /\ (Base + first) % layout.align = 0
      /\ \A s \in Nat : s >= level /\ (Base + s) % layout.align = 0 => s >= first
  BY <1>1, Placement
<1>3. EndOf(level, layout) = first + layout.size
  BY DEF EndOf
<1> HIDE DEF first
<1>4. ASSUME EndOf(level, layout) <= Length
      PROVE  RoomAbove(level, layout)
  <2>1. first \in level .. Length /\ first + layout.size <= Length
    BY <1>1, <1>2, <1>3, <1>4
  <2> QED
    BY <2>1, <1>2 DEF RoomAbove
<1>5. ASSUME RoomAbove(level, layout)
      PROVE  EndOf(level, layout) <= Length
  <2>1. PICK s \in level .. Length : /\ (Base + s) % layout.align = 0
                                     /\ s + layout.size <= Length
    BY <1>5 DEF RoomAbove
  <2>2. s \in Nat /\ s >= first
    BY <1>1, <1>2, <2>1
  <2> QED
    BY <1>1, <1>2, <1>3, <2>1, <2>2
<1> QED
  BY <1>4, <1>5, FitsIsEnd

\* Room found above a level was already there above any level below it, so
\* what did not fit at an old level does not fit at the current one.
LEMMA RoomShrinks ==
  ASSUME NEW old \in 0 .. Length, NEW level \in old .. Length,
         NEW layout \in Layouts, RoomAbove(level, layout)
  PROVE  RoomAbove(old, layout)
<1>1. Length \in Nat
  BY ArenaAssumption
<1>2. level .. Length \subseteq old .. Length
  BY <1>1
<1> QED
  BY <1>2 DEF RoomAbove
==============================================================================

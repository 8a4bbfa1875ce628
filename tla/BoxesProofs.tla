----------------------------- MODULE BoxesProofs -----------------------------
(***************************************************************************)
(* Boxes for every arena, every set of types and layouts and any number of *)
(* pointers and values.                                                    *)
(***************************************************************************)
EXTENDS Boxes, ArenaProofs

------------------------------------------------------------------------------
(* Arithmetic *)

AllLayouts == [size : Nat, align : Nat \ {0}]

LEMMA TypeFields ==
  ASSUME NEW type \in Types
  PROVE  /\ type \in AllLayouts
         /\ type.size \in Nat
         /\ type.align \in Nat \ {0}
         /\ type.size % type.align = 0
  BY ViewAssumption DEF AllLayouts

LEMMA UnitFields == Unit \in Types /\ Unit.size = 0 /\ Unit.align = 1
  BY ViewAssumption DEF Unit

LEMMA ArrayFields ==
  ASSUME NEW type \in Types, NEW n \in Nat
  PROVE  /\ ArrayOf(type, n) \in AllLayouts
         /\ ArrayOf(type, n).size = n * type.size
         /\ ArrayOf(type, n).align = type.align
         /\ n * type.size \in Nat
<1>1. type.size \in Nat
  BY TypeFields
<1>2. n * type.size \in Nat
  BY <1>1
<1> QED
  BY <1>2, TypeFields DEF ArrayOf, WithSize, AllLayouts

\* An address is aligned when nothing has to be skipped.
LEMMA AlignedAddress ==
  ASSUME NEW p \in Nat, NEW n \in Nat \ {0}
  PROVE  AlignOffset(p, n) = 0 <=> p % n = 0
<1>1. AlignOffset(p, n) \in 0 .. n - 1 /\ (p + AlignOffset(p, n)) % n = 0
  BY PaddingAligns
<1>2. p % n = 0 => p >= p + AlignOffset(p, n)
  BY PaddingAligns
<1> QED
  BY <1>1, <1>2

LEMMA AlignedOne ==
  ASSUME NEW p \in Nat
  PROVE  AlignOffset(p, 1) = 0
  BY PaddingAligns

LEMMA AlignedSelf ==
  ASSUME NEW n \in Nat \ {0}
  PROVE  AlignOffset(n, n) = 0
<1>1. (n * 1 + 0) % n = 0
  BY DivisionUnique
<1> QED
  BY <1>1, AlignedAddress

LEMMA MultiplesAdd ==
  ASSUME NEW a \in Nat \ {0}, NEW p \in Nat, NEW s \in Nat, NEW n \in Nat,
         p % a = 0, s % a = 0
  PROVE  (p + n * s) % a = 0
<1> DEFINE q == p \div a
           r == s \div a
<1>1. p = a * q /\ q \in Nat
  BY Division
<1>2. s = a * r /\ r \in Nat
  BY Division
<1> HIDE DEF q, r
<1>3. n * (a * r) = a * (n * r) /\ n * r \in Nat
  BY <1>2
<1>4. a * q + a * (n * r) = a * (q + n * r)
  BY <1>1, <1>3
<1>5. q + n * r \in Nat
  BY <1>1, <1>3
<1>6. (a * (q + n * r) + 0) % a = 0
  BY <1>5, DivisionUnique
<1>7. p + n * s = a * (q + n * r)
  BY <1>1, <1>2, <1>3, <1>4
<1>8. a * (q + n * r) \in Nat
  BY <1>5
<1> QED
  BY <1>6, <1>7, <1>8

\* The elements of an aligned slice are aligned.
LEMMA AlignedElement ==
  ASSUME NEW type \in Types, NEW p \in Nat, NEW n \in Nat,
         AlignOffset(p, type.align) = 0
  PROVE  AlignOffset(p + n * type.size, type.align) = 0
<1>1. type.align \in Nat \ {0} /\ type.size \in Nat /\ type.size % type.align = 0
  BY TypeFields
<1>2. p % type.align = 0
  BY <1>1, AlignedAddress
<1>3. (p + n * type.size) % type.align = 0
  BY <1>1, <1>2, MultiplesAdd
<1>4. p + n * type.size \in Nat
  BY <1>1
<1> QED
  BY <1>1, <1>3, <1>4, AlignedAddress

LEMMA RemainderOfLess ==
  ASSUME NEW n \in Nat \ {0}, NEW a \in 0 .. n - 1
  PROVE  a % n = a
  OBVIOUS

\* A type that has a size is no smaller than its alignment.
LEMMA AlignWithinSize ==
  ASSUME NEW type \in Types, type.size > 0
  PROVE  type.align <= type.size
<1>1. type.align \in Nat \ {0} /\ type.size \in Nat /\ type.size % type.align = 0
  BY TypeFields
<1>2. CASE type.size < type.align
  <2>1. type.size \in 0 .. type.align - 1
    BY <1>1, <1>2
  <2> QED
    BY <1>1, <2>1, RemainderOfLess
<1> QED
  BY <1>1, <1>2

HandleSet == [ptr : Nat, len : Nat, type : Types, kind : Kinds,
              many : BOOLEAN, holds : Values \cup {NoValue}]

LEMMA CapacityFits ==
  ASSUME NEW v \in HandleSet, v.len < MaxUsize
  PROVE  /\ Capacity(v) \in Nat
         /\ Capacity(v) * v.type.size \in Nat
         /\ Capacity(v) * v.type.size <= v.len
         /\ SplitsAt(v, Capacity(v))
<1>1. v.type \in Types /\ v.len \in Nat /\ MaxUsize \in Nat
  BY ViewAssumption DEF HandleSet
<1>2. v.type.size \in Nat
  BY <1>1, TypeFields
<1>3. CASE v.type.size = 0
  <2>1. MaxUsize * v.type.size = 0
    BY <1>1, <1>3
  <2> QED
    BY <1>1, <1>3, <2>1 DEF Capacity, SplitsAt
<1>4. CASE v.type.size # 0
  <2> DEFINE n == v.len \div v.type.size
             r == v.len % v.type.size
  <2>1. n \in Nat /\ r \in 0 .. v.type.size - 1 /\ v.len = v.type.size * n + r
    BY <1>1, <1>2, <1>4, Division
  <2>2. Capacity(v) = n
    BY <1>4 DEF Capacity
  <2> HIDE DEF n, r
  <2>3. n * v.type.size = v.type.size * n /\ n * v.type.size \in Nat
    BY <1>2, <2>1
  <2>4. n * v.type.size <= v.len
    BY <1>1, <1>2, <2>1, <2>3
  <2> QED
    BY <1>1, <2>1, <2>2, <2>3, <2>4 DEF SplitsAt
<1> QED
  BY <1>3, <1>4

------------------------------------------------------------------------------
(* The handles *)

Fitting(x) ==
  /\ x.kind # "none"
  /\ AlignOffset(x.ptr, x.type.align) = 0
  /\ x.many \/ x.type.size <= x.len
  /\ x.many => x.holds = NoValue
  /\ x.kind = "box" => x.holds # NoValue

Inside(x, v) == x.len = 0 \/ (v.ptr <= x.ptr /\ x.ptr + x.len <= v.ptr + v.len)

Apart(x, y) ==
  \/ x.ptr + x.len <= y.ptr
  \/ y.ptr + y.len <= x.ptr
  \/ x.len = 0
  \/ y.len = 0

\* What holds of the pointers wherever they point.
Formed ==
  /\ level \in 0 .. Length
  /\ handles \in [Handles -> HandleSet]
  /\ strayed \in BOOLEAN
  /\ \A h \in Handles : handles[h] = Vacant \/ Fitting(handles[h])
  /\ \A h \in Handles : handles[h].len <= Length

\* What holds of the memory behind them until one strays.
InPlace ==
  /\ \A h \in Handles : handles[h].len > 0 =>
       Base <= handles[h].ptr /\ handles[h].ptr + handles[h].len <= Base + level
  /\ \A g, h \in Handles : g # h => Apart(handles[g], handles[h])

Shape == Formed /\ (strayed \/ InPlace)

LEMMA VacantFields ==
  /\ Vacant \in HandleSet
  /\ Vacant.kind = "none" /\ Vacant.len = 0 /\ Vacant.holds = NoValue
  BY UnitFields DEF Vacant, Handle, FromMemory, ViewAt, HandleSet, Kinds

LEMMA ShapeIsValid ==
  ASSUME Shape
  PROVE  Disjoint /\ \A h \in Handles : IsFree(h) \/ Valid(handles[h])
<1>1. Disjoint
  BY DEF Shape, InPlace, Disjoint, Unaliased, Apart, FirstByte, EndOfView
<1>2. ASSUME NEW h \in Handles
      PROVE  IsFree(h) \/ Valid(handles[h])
  <2>1. \/ handles[h].kind = "none"
        \/ /\ AlignOffset(handles[h].ptr, handles[h].type.align) = 0
           /\ handles[h].many \/ handles[h].type.size <= handles[h].len
    BY VacantFields DEF Shape, Formed, Fitting
  <2>2. strayed \/ (handles[h].len > 0 =>
                      /\ Base <= handles[h].ptr
                      /\ handles[h].ptr + handles[h].len <= Base + level)
    BY DEF Shape, InPlace
  <2> QED
    BY <2>1, <2>2 DEF IsFree, Valid, FirstByte, EndOfView
<1> QED
  BY <1>1, <1>2

\* A pointer is replaced by one to part of its memory.
LEMMA ShapeBecomes ==
  ASSUME Shape, NEW h \in Handles, NEW x \in HandleSet,
         Becomes(h, x),
         x = Vacant \/ Fitting(x),
         x.len <= handles[h].len,
         Inside(x, handles[h])
  PROVE  Shape'
<1>1. level' = level /\ strayed' = strayed /\ handles' = [handles EXCEPT ![h] = x]
  BY DEF Becomes
<1>2. handles \in [Handles -> HandleSet] /\ level \in 0 .. Length /\ strayed \in BOOLEAN
  BY DEF Shape, Formed
<1>3. handles' \in [Handles -> HandleSet]
  BY <1>1, <1>2
<1>4. handles'[h] = x /\ \A g \in Handles : g # h => handles'[g] = handles[g]
  BY <1>1, <1>2
<1>5. \A g \in Handles : handles'[g] = Vacant \/ Fitting(handles'[g])
  BY <1>4 DEF Shape, Formed
<1>6. x.ptr \in Nat /\ x.len \in Nat
      /\ \A g \in Handles : handles[g].ptr \in Nat /\ handles[g].len \in Nat
  BY <1>2 DEF HandleSet
<1>7. Base \in Nat /\ Length \in Nat /\ level \in Nat
  BY <1>2, ArenaAssumption
<1>8. \A g \in Handles : handles'[g].len <= Length
  BY <1>4, <1>6, <1>7 DEF Shape, Formed
<1>9. Formed'
  BY <1>1, <1>2, <1>3, <1>5, <1>8 DEF Formed, Fitting
<1>10. ASSUME InPlace
       PROVE  InPlace'
  <2>1. \A g \in Handles : handles'[g].len > 0 =>
          Base <= handles'[g].ptr /\ handles'[g].ptr + handles'[g].len <= Base + level
    BY <1>4, <1>6, <1>7, <1>10 DEF InPlace, Inside
  <2>2. \A g \in Handles : g # h => Apart(x, handles[g]) /\ Apart(handles[g], x)
    BY <1>6, <1>10 DEF InPlace, Inside, Apart
  <2>3. \A f, g \in Handles : f # g => Apart(handles'[f], handles'[g])
    BY <1>4, <1>10, <2>2 DEF InPlace
  <2> QED
    BY <1>1, <2>1, <2>3 DEF InPlace, Apart
<1> QED
  BY <1>1, <1>9, <1>10 DEF Shape

\* A pointer is replaced by two that are no longer than it.
LEMMA FormedParts ==
  ASSUME Formed, NEW h \in Handles, NEW g \in Handles, g # h,
         NEW x \in HandleSet, NEW y \in HandleSet,
         level' = level, strayed' \in BOOLEAN,
         handles' = [handles EXCEPT ![h] = x, ![g] = y],
         Fitting(x), Fitting(y), x.len <= handles[h].len, y.len <= handles[h].len
  PROVE  /\ Formed'
         /\ handles'[h] = x
         /\ handles'[g] = y
         /\ \A f \in Handles : f \notin {g, h} => handles'[f] = handles[f]
<1>1. handles \in [Handles -> HandleSet] /\ level \in 0 .. Length
  BY DEF Formed
<1>2. handles' \in [Handles -> HandleSet]
  BY <1>1
<1>3. /\ handles'[h] = x
      /\ handles'[g] = y
      /\ \A f \in Handles : f \notin {g, h} => handles'[f] = handles[f]
  BY <1>1
<1>4. \A f \in Handles : handles'[f] = Vacant \/ Fitting(handles'[f])
  BY <1>3 DEF Formed
<1>5. /\ x.len \in Nat /\ y.len \in Nat /\ Length \in Nat
      /\ handles[h].len \in Nat /\ handles[h].len <= Length
  BY <1>1, ArenaAssumption DEF Formed, HandleSet
<1>6. \A f \in Handles : handles'[f].len <= Length
  BY <1>3, <1>5 DEF Formed
<1>7. Formed'
  BY <1>1, <1>2, <1>4, <1>6 DEF Formed, Fitting
<1> QED
  BY <1>3, <1>7

\* A pointer is replaced by two, to parts of its memory that are apart.
LEMMA ShapeSplits ==
  ASSUME Shape, NEW h \in Handles, NEW g \in Handles, g # h,
         NEW x \in HandleSet, NEW y \in HandleSet, NEW ok \in BOOLEAN,
         Splits(h, g, x, y, ok),
         Fitting(x), Fitting(y), x.len <= handles[h].len, y.len <= handles[h].len,
         Inside(x, handles[h]), Inside(y, handles[h]), Apart(x, y)
  PROVE  Shape'
<1>1. level' = level /\ strayed' = strayed /\ handles' = [handles EXCEPT ![h] = x, ![g] = y]
  BY DEF Splits, Parts
<1>2. handles \in [Handles -> HandleSet] /\ level \in 0 .. Length /\ strayed' \in BOOLEAN
  BY <1>1 DEF Shape, Formed
<1>3. /\ Formed'
      /\ handles'[h] = x
      /\ handles'[g] = y
      /\ \A f \in Handles : f \notin {g, h} => handles'[f] = handles[f]
  BY <1>1, <1>2, FormedParts DEF Shape
<1>4. /\ x.ptr \in Nat /\ x.len \in Nat
      /\ y.ptr \in Nat /\ y.len \in Nat
      /\ \A f \in Handles : handles[f].ptr \in Nat /\ handles[f].len \in Nat
      /\ Base \in Nat /\ level \in Nat
  BY <1>2, ArenaAssumption DEF HandleSet
<1>5. ASSUME InPlace
      PROVE  InPlace'
  <2>1. \A f \in Handles : handles'[f].len > 0 =>
          Base <= handles'[f].ptr /\ handles'[f].ptr + handles'[f].len <= Base + level
    BY <1>3, <1>4, <1>5 DEF InPlace, Inside
  <2>2. \A f \in Handles : f # h =>
          /\ Apart(x, handles[f]) /\ Apart(handles[f], x)
          /\ Apart(y, handles[f]) /\ Apart(handles[f], y)
    BY <1>4, <1>5 DEF InPlace, Inside, Apart
  <2>3. Apart(y, x)
    BY DEF Apart
  <2>4. \A e, f \in Handles : e # f => Apart(handles'[e], handles'[f])
    BY <1>3, <1>5, <2>2, <2>3 DEF InPlace
  <2> QED
    BY <1>1, <2>1, <2>4 DEF InPlace, Apart
<1> QED
  BY <1>1, <1>3, <1>5 DEF Shape

LEMMA GrantedMemory ==
  ASSUME level \in 0 .. Length, NEW layout \in AllLayouts, Available(layout)
  PROVE  /\ Granted(layout).ptr \in Nat
         /\ Granted(layout).len = layout.size
         /\ AlignOffset(Granted(layout).ptr, layout.align) = 0
         /\ layout.size # 0 =>
              /\ Granted(layout).type = Unit
              /\ Base + level <= Granted(layout).ptr
              /\ Granted(layout).ptr + layout.size = Base + EndOf(level, layout)
              /\ EndOf(level, layout) \in level .. Length
<1>1. layout.size \in Nat /\ layout.align \in Nat \ {0}
  BY DEF AllLayouts
<1>2. CASE layout.size = 0
  BY <1>1, <1>2, AlignedSelf DEF Granted, Dangling, As, ViewAt, FromMemory
<1>3. CASE layout.size # 0
  <2> DEFINE pad == Padding(level, layout)
             p == Base + StartOf(level, layout)
  <2>1. Base \in Nat /\ Length \in Nat /\ level \in Nat /\ Base + level \in Nat
    BY ArenaAssumption
  <2>2. pad \in Nat /\ (Base + level + pad) % layout.align = 0
    <3>1. pad = AlignOffset(Base + level, layout.align)
      BY DEF Padding
    <3> HIDE DEF pad
    <3>2. pad \in 0 .. layout.align - 1 /\ (Base + level + pad) % layout.align = 0
      BY <1>1, <2>1, <3>1, PaddingAligns
    <3> QED
      BY <1>1, <3>2
  <2>3. StartOf(level, layout) = level + pad /\ EndOf(level, layout) = level + pad + layout.size
    BY DEF StartOf, EndOf
  <2>4. layout.size <= SaturatingSub(Length - level, pad)
    BY <1>3 DEF Available, Fits
  <2> HIDE DEF pad
  <2>5. level + pad + layout.size <= Length
    BY <1>1, <1>3, <2>1, <2>2, <2>4 DEF SaturatingSub
  <2>6. p \in Nat /\ p = Base + level + pad
    BY <2>1, <2>2, <2>3
  <2>7. AlignOffset(p, layout.align) = 0
    BY <1>1, <2>2, <2>6, AlignedAddress
  <2>8. Granted(layout) = ViewAt(p, layout.size, Unit)
    BY <1>3 DEF Granted, FromMemory
  <2>9. Granted(layout).ptr = p /\ Granted(layout).len = layout.size /\ Granted(layout).type = Unit
    BY <2>8 DEF ViewAt
  <2> QED
    BY <1>1, <1>3, <2>1, <2>2, <2>3, <2>5, <2>6, <2>7, <2>9
<1> QED
  BY <1>2, <1>3

\* What the arena hands out is apart from everything handed out before.
LEMMA ShapeAllocates ==
  ASSUME Shape, NEW h \in Handles, NEW layout \in AllLayouts, NEW x \in HandleSet,
         Allocates(h, layout, x),
         x.ptr = Granted(layout).ptr, x.len = layout.size, Fitting(x)
  PROVE  Shape'
<1>1. /\ handles' = [handles EXCEPT ![h] = x]
      /\ level' = IF layout.size = 0 THEN level ELSE EndOf(level, layout)
      /\ strayed' = strayed
  BY DEF Allocates
<1>2. handles \in [Handles -> HandleSet] /\ level \in 0 .. Length /\ strayed \in BOOLEAN
  BY DEF Shape, Formed
<1>3. handles' \in [Handles -> HandleSet]
  BY <1>1, <1>2
<1>4. handles'[h] = x /\ \A g \in Handles : g # h => handles'[g] = handles[g]
  BY <1>1, <1>2
<1>5. \A g \in Handles : handles'[g] = Vacant \/ Fitting(handles'[g])
  BY <1>4 DEF Shape, Formed
<1>6. /\ Base \in Nat /\ Length \in Nat /\ level \in Nat
      /\ x.ptr \in Nat /\ x.len \in Nat
      /\ \A g \in Handles : handles[g].ptr \in Nat /\ handles[g].len \in Nat
  BY <1>2, ArenaAssumption DEF HandleSet
<1>7. /\ level' \in level .. Length
      /\ x.len # 0 => Base + level <= x.ptr /\ x.ptr + x.len = Base + level'
  BY <1>1, <1>2, <1>6, GrantedMemory DEF Allocates
<1>8. x.len <= Length
  BY <1>6, <1>7
<1>9. \A g \in Handles : handles'[g].len <= Length
  BY <1>4, <1>8 DEF Shape, Formed
<1>10. level' \in 0 .. Length
  BY <1>6, <1>7
<1>11. Formed'
  BY <1>1, <1>2, <1>3, <1>5, <1>9, <1>10 DEF Formed, Fitting
<1>12. ASSUME InPlace
       PROVE  InPlace'
  <2>1. \A g \in Handles : handles'[g].len > 0 =>
          Base <= handles'[g].ptr /\ handles'[g].ptr + handles'[g].len <= Base + level'
    BY <1>4, <1>6, <1>7, <1>12 DEF InPlace
  <2>2. \A g \in Handles : g # h => Apart(x, handles[g]) /\ Apart(handles[g], x)
    BY <1>6, <1>7, <1>12 DEF InPlace, Apart
  <2>3. \A f, g \in Handles : f # g => Apart(handles'[f], handles'[g])
    BY <1>4, <1>12, <2>2 DEF InPlace
  <2> QED
    BY <2>1, <2>3 DEF InPlace, Apart
<1> QED
  BY <1>1, <1>11, <1>12 DEF Shape

LEMMA HandleFields ==
  ASSUME NEW ptr \in Nat, NEW len \in Nat, NEW type \in Types,
         NEW kind \in Kinds, NEW many \in BOOLEAN, NEW value \in Values \cup {NoValue},
         NEW x, x = [ptr |-> ptr, len |-> len, type |-> type,
                     kind |-> kind, many |-> many, holds |-> value]
  PROVE  /\ x \in HandleSet
         /\ x.ptr = ptr /\ x.len = len /\ x.type = type
         /\ x.kind = kind /\ x.many = many /\ x.holds = value
  BY DEF HandleSet

\* A pointer becomes another one to the same bytes, or to the first of them.
LEMMA ShapeNarrows ==
  ASSUME Shape, NEW h \in Handles, handles[h].kind # "none",
         NEW len \in 0 .. handles[h].len, NEW type \in Types,
         NEW kind \in Kinds \ {"none"}, NEW many \in BOOLEAN,
         NEW value \in Values \cup {NoValue},
         Becomes(h, Handle(ViewAt(handles[h].ptr, len, type), kind, many, value)),
         AlignOffset(handles[h].ptr, type.align) = 0,
         many \/ type.size <= len,
         many => value = NoValue,
         kind = "box" => value # NoValue
  PROVE  Shape'
<1> DEFINE x == Handle(ViewAt(handles[h].ptr, len, type), kind, many, value)
<1>1. handles[h].ptr \in Nat /\ handles[h].len \in Nat
  BY DEF Shape, Formed, HandleSet
<1>2. x = [ptr |-> handles[h].ptr, len |-> len, type |-> type,
           kind |-> kind, many |-> many, holds |-> value]
  BY DEF Handle, ViewAt
<1> HIDE DEF x
<1>3. /\ x \in HandleSet
      /\ x.ptr = handles[h].ptr /\ x.len = len /\ x.type = type
      /\ x.kind = kind /\ x.many = many /\ x.holds = value
  BY <1>1, <1>2, HandleFields
<1>4. Fitting(x)
  BY <1>3 DEF Fitting
<1>5. Inside(x, handles[h]) /\ x.len <= handles[h].len
  BY <1>1, <1>3 DEF Inside
<1>6. Becomes(h, x)
  BY DEF x
<1> QED
  BY <1>3, <1>4, <1>5, <1>6, ShapeBecomes

\* What a handle in use looks like.
LEMMA InUseFields ==
  ASSUME Shape, NEW h \in Handles
  PROVE  /\ handles[h].ptr \in Nat /\ handles[h].len \in Nat
         /\ handles[h].type \in Types
         /\ handles[h].kind \in Kinds /\ handles[h].many \in BOOLEAN
         /\ handles[h].holds \in Values \cup {NoValue}
         /\ handles[h].kind # "none" =>
              /\ Fitting(handles[h])
              /\ AlignOffset(handles[h].ptr, handles[h].type.align) = 0
              /\ handles[h].many \/ handles[h].type.size <= handles[h].len
              /\ handles[h].many => handles[h].holds = NoValue
              /\ handles[h].kind = "box" => handles[h].holds # NoValue
         /\ handles[h].len < MaxUsize
         /\ FirstByte(handles[h]) = handles[h].ptr
         /\ EndOfView(handles[h]) = handles[h].ptr + handles[h].len
<1>1. /\ handles[h].ptr \in Nat /\ handles[h].len \in Nat
      /\ handles[h].type \in Types
      /\ handles[h].kind \in Kinds /\ handles[h].many \in BOOLEAN
      /\ handles[h].holds \in Values \cup {NoValue}
  BY DEF Shape, Formed, HandleSet
<1>2. handles[h].kind # "none" => Fitting(handles[h])
  BY VacantFields DEF Shape, Formed
<1>3. Base \in Nat /\ Length \in Nat /\ MaxUsize \in Nat /\ Base + Length < MaxUsize
  BY ArenaAssumption, ViewAssumption
<1>4. handles[h].len < MaxUsize
  BY <1>1, <1>3 DEF Shape, Formed
<1> QED
  BY <1>1, <1>2, <1>4 DEF Fitting, FirstByte, EndOfView

LEMMA ShapeRelabels ==
  ASSUME Shape, NEW h \in Handles, handles[h].kind # "none",
         NEW kind \in Kinds \ {"none"}, NEW many \in BOOLEAN,
         NEW value \in Values \cup {NoValue},
         Becomes(h, Handle(handles[h], kind, many, value)),
         handles[h].many => many,
         many => value = NoValue,
         kind = "box" => value # NoValue
  PROVE  Shape'
<1> DEFINE type == handles[h].type
           len == handles[h].len
<1>1. Handle(handles[h], kind, many, value)
        = Handle(ViewAt(handles[h].ptr, len, type), kind, many, value)
  BY DEF Handle, ViewAt
<1>2. /\ type \in Types /\ len \in 0 .. handles[h].len
      /\ AlignOffset(handles[h].ptr, type.align) = 0
      /\ many \/ type.size <= len
  BY InUseFields
<1>3. Becomes(h, Handle(ViewAt(handles[h].ptr, len, type), kind, many, value))
  BY <1>1
<1> HIDE DEF type, len
<1> QED
  BY <1>2, <1>3, ShapeNarrows

LEMMA ShapeThins ==
  ASSUME Shape, NEW h \in Handles, handles[h].kind # "none",
         NEW kind \in Kinds \ {"none", "box"},
         NEW value \in Values \cup {NoValue},
         Becomes(h, Thin(handles[h], kind, handles[h].many, value)),
         handles[h].many => value = NoValue
  PROVE  Shape'
<1> DEFINE type == handles[h].type
           many == handles[h].many
           len == IF many THEN type.size * Capacity(handles[h]) ELSE type.size
<1>1. /\ type \in Types /\ many \in BOOLEAN /\ handles[h].len \in Nat
      /\ AlignOffset(handles[h].ptr, type.align) = 0
      /\ many \/ type.size <= handles[h].len
  BY InUseFields
<1>2. type.size \in Nat
  BY <1>1, TypeFields
<1>3. handles[h] \in HandleSet /\ handles[h].len < MaxUsize
  BY InUseFields DEF Shape, Formed
<1>4. /\ Capacity(handles[h]) \in Nat
      /\ Capacity(handles[h]) * type.size \in Nat
      /\ Capacity(handles[h]) * type.size <= handles[h].len
  BY <1>3, CapacityFits
<1>5. type.size * Capacity(handles[h]) = Capacity(handles[h]) * type.size
  BY <1>2, <1>4
<1>6. len \in 0 .. handles[h].len /\ (many \/ type.size <= len)
  BY <1>1, <1>2, <1>4, <1>5
<1>7. Thin(handles[h], kind, many, value)
        = Handle(ViewAt(handles[h].ptr, len, type), kind, many, value)
  BY DEF Thin, Front
<1>8. Becomes(h, Handle(ViewAt(handles[h].ptr, len, type), kind, many, value))
  BY <1>7
<1> HIDE DEF type, len, many
<1>9. many => value = NoValue
  BY DEF many
<1> QED
  BY <1>1, <1>6, <1>8, <1>9, ShapeNarrows

Calm == broken = FALSE

LEMMA UnwrapIsCalm ==
  ASSUME Calm, NEW ok, ok, Unwrap(ok)
  PROVE  Calm'
  BY DEF Calm, Unwrap

LEMMA ShapeConverts ==
  ASSUME Shape, Calm, NEW h \in Handles, Convert(h)
  PROVE  Shape' /\ Calm'
<1> USE DEF IsView, Converts, Keeps
<1> "uninit" \in Kinds /\ "ref" \in Kinds /\ "leak" \in Kinds /\ "pin" \in Kinds
  BY DEF Kinds
<1> NoValue \in Values \cup {NoValue} /\ TRUE \in BOOLEAN /\ FALSE \in BOOLEAN
  OBVIOUS
<1> DEFINE v == handles[h]
<1>1. ASSUME NEW type \in Types, Cast(h, type)
      PROVE  Shape' /\ Calm'
  <2>1. Becomes(h, Handle(ViewAt(v.ptr, v.len, type), "uninit", FALSE, NoValue))
    BY <1>1 DEF Cast, View, As
  <2>2. v.kind # "none" /\ AlignOffset(v.ptr, type.align) = 0 /\ type.size <= v.len
    BY <1>1 DEF Cast, CastsTo, ViewFits
  <2>3. v.len \in 0 .. v.len
    BY InUseFields
  <2> QED
    BY <1>1, <2>1, <2>2, <2>3, ShapeNarrows DEF Cast, Calm, Unwrap
<1>2. ASSUME NEW type \in Types, CastSlice(h, type)
      PROVE  Shape' /\ Calm'
  <2>1. Becomes(h, Handle(ViewAt(v.ptr, v.len, type), "uninit", TRUE, NoValue))
    BY <1>2 DEF CastSlice, Slice, As
  <2>2. v.kind # "none" /\ AlignOffset(v.ptr, type.align) = 0
    BY <1>2 DEF CastSlice, CastsToSlice, ViewFits, WithSize
  <2>3. v.len \in 0 .. v.len
    BY InUseFields
  <2> QED
    BY <1>2, <2>1, <2>2, <2>3, ShapeNarrows DEF CastSlice, Calm, Unwrap
<1>3. ASSUME AsMemory(h)
      PROVE  Shape' /\ Calm'
  <2>1. Becomes(h, Handle(ViewAt(v.ptr, v.len, Unit), "uninit", FALSE, NoValue))
    BY <1>3 DEF AsMemory, View, As
  <2>2. v.ptr \in Nat /\ v.len \in Nat
    BY InUseFields
  <2>3. AlignOffset(v.ptr, Unit.align) = 0 /\ Unit.size <= v.len /\ v.len \in 0 .. v.len
    BY <2>2, UnitFields, AlignedOne
  <2> QED
    BY <1>3, <2>1, <2>3, UnitFields, ShapeNarrows DEF AsMemory, Calm, Unwrap
<1>4. ASSUME IntoMaybeUninit(h)
      PROVE  Shape' /\ Calm'
  BY <1>4, ShapeThins DEF IntoMaybeUninit, Calm, Unwrap
<1>5. ASSUME FromMaybeUninit(h)
      PROVE  Shape' /\ Calm'
  <2>1. v.kind = "ref" /\ v.many = FALSE /\ Becomes(h, Handle(v, "uninit", v.many, NoValue))
    BY <1>5, InUseFields DEF FromMaybeUninit, IsMaybeUninit, View
  <2>2. CastsTo(v, v.type)
    BY <2>1, InUseFields DEF CastsTo, ViewFits
  <2>3. Calm'
    BY <1>5, <2>2, UnwrapIsCalm DEF FromMaybeUninit
  <2> QED
    BY <2>1, <2>3, v.many \in BOOLEAN, ShapeRelabels
<1>6. ASSUME FromMaybeUninitSlice(h)
      PROVE  Shape' /\ Calm'
  <2>1. v.kind = "ref" /\ v.many = TRUE /\ Becomes(h, Handle(v, "uninit", v.many, NoValue))
    BY <1>6, InUseFields DEF FromMaybeUninitSlice, IsMaybeUninit, Slice
  <2>2. CastsToSlice(v, v.type)
    BY <2>1, InUseFields DEF CastsToSlice, ViewFits, WithSize
  <2>3. Calm'
    BY <1>6, <2>2, UnwrapIsCalm DEF FromMaybeUninitSlice
  <2> QED
    BY <2>1, <2>3, v.many \in BOOLEAN, ShapeRelabels
<1>7. ASSUME FromUninit(h)
      PROVE  Shape' /\ Calm'
  <2>1. v.many \in BOOLEAN
    BY InUseFields
  <2>2. Calm'
    BY <1>7 DEF FromUninit, Calm
  <2>3. v.kind # "none" /\ Becomes(h, Handle(v, "leak", v.many, NoValue))
    BY <1>7 DEF FromUninit, IsMaybeUninit
  <2>4. Shape'
    BY <2>1, <2>3, ShapeRelabels
  <2> QED
    BY <2>2, <2>4
<1>8. ASSUME IntoPin(h)
      PROVE  Shape' /\ Calm'
  <2>1. v.many \in BOOLEAN /\ v.holds \in Values \cup {NoValue}
        /\ (v.kind # "none" /\ v.many => v.holds = NoValue)
    BY InUseFields
  <2> QED
    BY <1>8, <2>1, ShapeRelabels DEF IntoPin, Calm
<1> QED
  BY <1>1, <1>2, <1>3, <1>4, <1>5, <1>6, <1>7, <1>8 DEF Convert

LEMMA ShapeDrops ==
  ASSUME Shape, NEW h \in Handles, Becomes(h, Vacant)
  PROVE  Shape'
<1>1. Vacant.len <= handles[h].len
  BY VacantFields, InUseFields
<1> QED
  BY <1>1, VacantFields, ShapeBecomes DEF Inside

LEMMA ShapeMovesIn ==
  ASSUME Shape, Calm, NEW h \in Handles, MoveIn(h)
  PROVE  Shape' /\ Calm'
<1> "uninit" \in Kinds /\ "ref" \in Kinds /\ "leak" \in Kinds /\ "box" \in Kinds
  BY DEF Kinds
<1> DEFINE v == handles[h]
<1> PICK value \in Values : InitView(h, value) \/ BoxNew(h, value) \/ Write(h, value)
  BY DEF MoveIn
<1>1. v.many \in BOOLEAN /\ value \in Values \cup {NoValue} /\ value # NoValue
  BY InUseFields, BoxesAssumption
<1>2. CASE InitView(h, value)
  <2>1. v.kind # "none" /\ v.many = FALSE /\ Becomes(h, Thin(v, "ref", v.many, value))
    BY <1>1, <1>2 DEF InitView, IsView
  <2> QED
    BY <1>1, <1>2, <2>1, ShapeThins DEF InitView, Calm
<1>3. CASE BoxNew(h, value)
  <2>1. v.kind # "none" /\ v.many = FALSE /\ Becomes(h, Handle(v, "box", v.many, value))
    BY <1>1, <1>3 DEF BoxNew, IsView
  <2> QED
    BY <1>1, <1>3, <2>1, ShapeRelabels DEF BoxNew, Calm
<1>4. CASE Write(h, value)
  <2>1. v.kind # "none" /\ v.many = FALSE /\ Becomes(h, Handle(v, "leak", v.many, value))
    BY <1>1, <1>4 DEF Write, Accepts
  <2> QED
    BY <1>1, <1>4, <2>1, ShapeRelabels DEF Write, Calm
<1> QED
  BY <1>2, <1>3, <1>4

LEMMA ShapeHandsOver ==
  ASSUME Shape, Calm, NEW h \in Handles, HandOver(h)
  PROVE  Shape' /\ Calm'
<1> "uninit" \in Kinds /\ "ref" \in Kinds /\ "leak" \in Kinds /\ "box" \in Kinds /\ "raw" \in Kinds
  BY DEF Kinds
<1> DEFINE v == handles[h]
<1>1. /\ v.many \in BOOLEAN /\ v.holds \in Values \cup {NoValue}
      /\ NoValue \in Values \cup {NoValue}
      /\ v.kind # "none" => /\ v.many => v.holds = NoValue
                            /\ v.kind = "box" => v.holds # NoValue
  BY InUseFields
<1>2. v.kind = "box" \/ (v.kind # "none" /\ v.holds # NoValue) => v.many = FALSE
  BY <1>1
<1>3. CASE BoxTake(h)
  <2>1. v.kind = "box" /\ Becomes(h, Handle(v, "uninit", v.many, NoValue))
    BY <1>2, <1>3 DEF BoxTake, View
  <2>2. Calm'
    BY <1>3 DEF BoxTake, Calm
  <2> QED
    BY <1>1, <2>1, <2>2, ShapeRelabels
<1>4. CASE BoxIntoRaw(h)
  <2>1. v.kind = "box" /\ Becomes(h, Handle(v, "uninit", v.many, v.holds))
    BY <1>2, <1>4 DEF BoxIntoRaw, Keeps
  <2> QED
    BY <1>1, <1>4, <2>1, ShapeRelabels DEF BoxIntoRaw, Keeps, Calm
<1>5. CASE BoxFromRaw(h)
  <2>1. /\ v.kind # "none" /\ v.holds # NoValue
        /\ Becomes(h, Handle(v, "box", v.many, v.holds))
    BY <1>2, <1>5 DEF BoxFromRaw, Keeps, IsView
  <2> QED
    BY <1>1, <1>5, <2>1, ShapeRelabels DEF BoxFromRaw, Keeps, Calm
<1>6. CASE BoxLeak(h)
  <2>1. v.kind = "box" /\ Becomes(h, Thin(v, "ref", v.many, v.holds))
    BY <1>2, <1>6 DEF BoxLeak, Keeps
  <2> QED
    BY <1>1, <1>6, <2>1, ShapeThins DEF BoxLeak, Keeps, Calm
<1>7. CASE LeakIntoRaw(h)
  BY <1>1, <1>7, ShapeRelabels DEF LeakIntoRaw, Keeps, Calm
<1>8. CASE LeakFromRaw(h)
  BY <1>1, <1>8, ShapeRelabels DEF LeakFromRaw, Keeps, Calm
<1>9. CASE FromMutUnchecked(h)
  <2>1. /\ v.kind # "none" /\ v.holds # NoValue
        /\ Becomes(h, Handle(v, "leak", v.many, v.holds))
    BY <1>2, <1>9 DEF FromMutUnchecked, Keeps
  <2> QED
    BY <1>1, <1>9, <2>1, ShapeRelabels DEF FromMutUnchecked, Keeps, Calm
<1>10. CASE Leak(h)
  BY <1>1, <1>10, ShapeRelabels DEF Leak, Keeps, Calm
<1>11. CASE BoxDrop(h) \/ LeakDrop(h)
  BY <1>11, ShapeDrops DEF BoxDrop, LeakDrop, DropsInPlace, Calm
<1>12. CASE Take(h)
  BY <1>12, ShapeDrops DEF Take, Calm
<1>13. CASE Forget(h)
  BY <1>13, ShapeDrops DEF Forget, Calm
<1> QED
  BY <1>3, <1>4, <1>5, <1>6, <1>7, <1>8, <1>9, <1>10, <1>11, <1>12, <1>13 DEF HandOver

LEMMA ShapeGrants ==
  ASSUME Shape, NEW h \in Handles, NEW layout \in AllLayouts, NEW type \in Types,
         type.align = layout.align,
         NEW kind \in Kinds \ {"none"}, NEW many \in BOOLEAN,
         NEW value \in Values \cup {NoValue},
         Allocates(h, layout, Handle(As(Granted(layout), type), kind, many, value)),
         many \/ type.size <= layout.size,
         many => value = NoValue,
         kind = "box" => value # NoValue
  PROVE  Shape'
<1> DEFINE x == Handle(As(Granted(layout), type), kind, many, value)
<1>1. /\ Granted(layout).ptr \in Nat
      /\ Granted(layout).len = layout.size
      /\ AlignOffset(Granted(layout).ptr, layout.align) = 0
  BY GrantedMemory DEF Shape, Formed, Allocates
<1>2. layout.size \in Nat
  BY DEF AllLayouts
<1>3. x = [ptr |-> Granted(layout).ptr, len |-> layout.size, type |-> type,
           kind |-> kind, many |-> many, holds |-> value]
  BY <1>1 DEF Handle, As, ViewAt
<1>4. Allocates(h, layout, x)
  OBVIOUS
<1> HIDE DEF x
<1>5. /\ x \in HandleSet
      /\ x.ptr = Granted(layout).ptr /\ x.len = layout.size /\ x.type = type
      /\ x.kind = kind /\ x.many = many /\ x.holds = value
  BY <1>1, <1>2, <1>3, HandleFields
<1>6. Fitting(x)
  BY <1>1, <1>5 DEF Fitting
<1> QED
  BY <1>4, <1>5, <1>6, ShapeAllocates

\* What was granted for an array casts to a slice.
LEMMA GrantedCasts ==
  ASSUME Shape, NEW layout \in AllLayouts, Available(layout), NEW type \in Types,
         type.align = layout.align
  PROVE  /\ CastsToSlice(Granted(layout), type)
         /\ type.size = layout.size => CastsTo(Granted(layout), type)
<1>1. /\ Granted(layout).len = layout.size
      /\ AlignOffset(Granted(layout).ptr, layout.align) = 0
  BY GrantedMemory DEF Shape, Formed
<1>2. layout.size \in Nat /\ type.size \in Nat
  BY TypeFields DEF AllLayouts
<1>3. WithSize(type, 0).size = 0 /\ WithSize(type, 0).align = type.align
  BY DEF WithSize
<1> QED
  BY <1>1, <1>2, <1>3 DEF CastsTo, CastsToSlice, ViewFits

LEMMA LayoutsAreLayouts == Layouts \subseteq AllLayouts /\ \A layout \in Layouts : layout.size # 0
  BY ArenaAssumption DEF AllLayouts

\* AllocLayout and AllocRc.
LEMMA ShapeGrantsUntyped ==
  ASSUME Shape, NEW h \in Handles, NEW layout \in Layouts, NEW kind \in {"uninit", "given"},
         Allocates(h, layout, Handle(Granted(layout), kind, FALSE, NoValue))
  PROVE  Shape' /\ ViewFits(Granted(layout), layout)
<1> DEFINE x == Handle(Granted(layout), kind, FALSE, NoValue)
<1>1. layout \in AllLayouts /\ layout.size # 0 /\ layout.size \in Nat
  BY LayoutsAreLayouts DEF AllLayouts
<1>2. /\ Granted(layout).ptr \in Nat
      /\ Granted(layout).len = layout.size
      /\ Granted(layout).type = Unit
      /\ AlignOffset(Granted(layout).ptr, layout.align) = 0
  BY <1>1, GrantedMemory DEF Shape, Formed, Allocates
<1>3. x = [ptr |-> Granted(layout).ptr, len |-> layout.size, type |-> Unit,
           kind |-> kind, many |-> FALSE, holds |-> NoValue]
  BY <1>2 DEF Handle
<1>4. Allocates(h, layout, x)
  OBVIOUS
<1>5. kind \in Kinds /\ kind # "none" /\ kind # "box"
      /\ FALSE \in BOOLEAN /\ NoValue \in Values \cup {NoValue}
  BY DEF Kinds
<1> HIDE DEF x
<1>6. /\ x \in HandleSet
      /\ x.ptr = Granted(layout).ptr /\ x.len = layout.size /\ x.type = Unit
      /\ x.kind = kind /\ x.many = FALSE /\ x.holds = NoValue
  BY <1>1, <1>2, <1>3, <1>5, UnitFields DEF HandleSet
<1>7. Fitting(x)
  BY <1>1, <1>2, <1>5, <1>6, UnitFields, AlignedOne DEF Fitting
<1> QED
  BY <1>1, <1>2, <1>4, <1>6, <1>7, ShapeAllocates DEF ViewFits

LEMMA ShapeAllocate ==
  ASSUME Shape, Calm, NEW h \in Handles, Allocate(h)
  PROVE  Shape' /\ Calm'
<1> /\ "uninit" \in Kinds \ {"none"} /\ "given" \in Kinds \ {"none"}
    /\ "leak" \in Kinds \ {"none"} /\ "box" \in Kinds \ {"none"}
    /\ NoValue \in Values \cup {NoValue} /\ FALSE \in BOOLEAN
  BY DEF Kinds
<1>1. ASSUME NEW layout \in Layouts, AllocLayout(h, layout) \/ AllocRc(h, layout)
      PROVE  Shape' /\ Calm'
  <2>1. CASE AllocLayout(h, layout)
    BY <2>1, ShapeGrantsUntyped DEF AllocLayout, View, Calm
  <2>2. CASE AllocRc(h, layout)
    BY <2>2, ShapeGrantsUntyped, UnwrapIsCalm DEF AllocRc
  <2> QED
    BY <1>1, <2>1, <2>2
<1>2. ASSUME NEW type \in Types, AllocT(h, type)
      PROVE  Shape' /\ Calm'
  <2>1. type \in AllLayouts /\ type.size <= type.size /\ FALSE \in BOOLEAN
    BY TypeFields
  <2>2. /\ Allocates(h, type, Handle(As(Granted(type), type), "uninit", FALSE, NoValue))
        /\ Available(type) /\ Unwrap(CastsTo(Granted(type), type))
    BY <1>2 DEF AllocT, View, Allocates
  <2>3. Shape'
    BY <2>1, <2>2, ShapeGrants
  <2> QED
    BY <2>1, <2>2, <2>3, GrantedCasts, UnwrapIsCalm
<1>3. ASSUME NEW type \in Types, NEW n \in Counts, FixedVec(h, type, n) \/ CopySlice(h, type, n)
      PROVE  Shape' /\ Calm'
  <2> DEFINE layout == ArrayOf(type, n)
  <2>1. layout \in AllLayouts /\ layout.align = type.align /\ TRUE \in BOOLEAN
    BY CountAssumption, ArrayFields DEF Counts
  <2>2. /\ Allocates(h, layout, Handle(As(Granted(layout), type), "given", TRUE, NoValue))
        /\ Available(layout) /\ Unwrap(CastsToSlice(Granted(layout), type))
    BY <1>3 DEF FixedVec, CopySlice, Allocates
  <2> HIDE DEF layout
  <2>3. Shape'
    BY <2>1, <2>2, ShapeGrants
  <2> QED
    BY <2>1, <2>2, <2>3, GrantedCasts, UnwrapIsCalm
<1>4. ASSUME NEW value \in Values, Boxed(h, value) \/ LeakBoxed(h, value)
      PROVE  Shape' /\ Calm'
  <2> DEFINE type == TypeOf[value]
  <2>1. type \in Types /\ value \in Values \cup {NoValue} /\ value # NoValue
    BY BoxesAssumption
  <2>2. type \in AllLayouts /\ type.size <= type.size /\ FALSE \in BOOLEAN
    BY <2>1, TypeFields
  <2>3. CASE Boxed(h, value)
    <3>1. /\ Allocates(h, type, Handle(As(Granted(type), type), "box", FALSE, value))
          /\ Available(type) /\ Unwrap(CastsTo(Granted(type), type))
      BY <2>3 DEF Boxed, Arrives, Allocates
    <3> HIDE DEF type
    <3>2. Shape'
      BY <2>1, <2>2, <3>1, ShapeGrants
    <3> QED
      BY <2>1, <2>2, <3>1, <3>2, GrantedCasts, UnwrapIsCalm
  <2>4. CASE LeakBoxed(h, value)
    <3>1. Allocates(h, type, Handle(As(Granted(type), type), "leak", FALSE, value)) /\ Calm'
      BY <2>4 DEF LeakBoxed, Arrives, Calm
    <3> HIDE DEF type
    <3> QED
      BY <2>1, <2>2, <3>1, ShapeGrants
  <2> QED
    BY <1>4, <2>3, <2>4
<1> QED
  BY <1>1, <1>2, <1>3, <1>4 DEF Allocate

------------------------------------------------------------------------------
(* Splitting *)

\* Two views that are one after the other have the bytes of the whole.
LEMMA BytesOfHalves ==
  ASSUME NEW v \in HandleSet, NEW x \in HandleSet, NEW y \in HandleSet,
         x.ptr = v.ptr, y.ptr = v.ptr + x.len, x.len + y.len = v.len
  PROVE  Bytes(x) \cup Bytes(y) = Bytes(v)
<1>1. /\ v.ptr \in Nat /\ v.len \in Nat /\ x.len \in Nat /\ y.len \in Nat
  BY DEF HandleSet
<1>2. ASSUME NEW b
      PROVE  /\ b \in Bytes(x) <=> b \in Int /\ v.ptr <= b /\ b < v.ptr + x.len
             /\ b \in Bytes(y) <=> b \in Int /\ v.ptr + x.len <= b /\ b < v.ptr + v.len
             /\ b \in Bytes(v) <=> b \in Int /\ v.ptr <= b /\ b < v.ptr + v.len
  BY <1>1 DEF Bytes, FirstByte, EndOfView
<1>3. ASSUME NEW b
      PROVE  b \in Bytes(x) \/ b \in Bytes(y) <=> b \in Bytes(v)
  BY <1>1, <1>2
<1> QED
  BY <1>3

LEMMA SplitConserves ==
  ASSUME Shape, NEW h \in Handles, NEW g \in Handles, g # h, IsFree(g),
         NEW x \in HandleSet, NEW y \in HandleSet,
         handles' = [handles EXCEPT ![h] = x, ![g] = y],
         Bytes(x) \cup Bytes(y) = Bytes(handles[h])
  PROVE  InUse' = InUse
<1>1. /\ handles'[h] = x
      /\ handles'[g] = y
      /\ \A f \in Handles : f \notin {g, h} => handles'[f] = handles[f]
  BY DEF Shape, Formed
<1>2. handles[g].ptr \in Nat /\ handles[g].len = 0
  BY VacantFields DEF Shape, Formed, IsFree, HandleSet, Fitting
<1>3. Bytes(handles[g]) = {}
  BY <1>2 DEF Bytes, FirstByte, EndOfView
<1>4. ASSUME NEW b
      PROVE  (\E f \in Handles : b \in Bytes(handles'[f]))
               <=> (\E f \in Handles : b \in Bytes(handles[f]))
  <2>1. ASSUME NEW f \in Handles, b \in Bytes(handles'[f])
        PROVE  \E e \in Handles : b \in Bytes(handles[e])
    BY <1>1, <2>1
  <2>2. ASSUME NEW f \in Handles, b \in Bytes(handles[f])
        PROVE  \E e \in Handles : b \in Bytes(handles'[e])
    <3>1. CASE f = g
      BY <1>3, <2>2, <3>1
    <3>2. CASE f = h
      BY <1>1, <2>2, <3>2
    <3>3. CASE f \notin {g, h}
      BY <1>1, <2>2, <3>3
    <3> QED
      BY <3>1, <3>2, <3>3
  <2> QED
    BY <2>1, <2>2
<1>5. InUse' = UNION {Bytes(handles'[f]) : f \in Handles}
  BY DEF InUse, Bytes, FirstByte, EndOfView
<1>6. \A b : b \in InUse' <=> \E f \in Handles : b \in Bytes(handles'[f])
  BY <1>5
<1>7. \A b : b \in InUse <=> \E f \in Handles : b \in Bytes(handles[f])
  BY DEF InUse
<1>8. \A b : b \in InUse' <=> b \in InUse
  BY <1>4, <1>6, <1>7
<1> QED
  BY <1>8

\* A pointer is cut after n bytes, and each half becomes what it fits.
LEMMA ShapeCuts ==
  ASSUME Shape, NEW h \in Handles, NEW g \in Handles, handles[h].kind = "uninit",
         NEW n \in 0 .. handles[h].len,
         NEW type \in Types, NEW first \in BOOLEAN, NEW second \in BOOLEAN,
         NEW ok, ok,
         NEW x, x = Handle(ViewAt(handles[h].ptr, n, handles[h].type), "uninit", first, NoValue),
         NEW y, y = Handle(ViewAt(handles[h].ptr + n, handles[h].len - n, type),
                           "uninit", second, NoValue),
         Splits(h, g, x, y, ok) \/ Splits(h, g, y, x, ok),
         first \/ handles[h].type.size <= n,
         second \/ type.size <= handles[h].len - n,
         AlignOffset(handles[h].ptr + n, type.align) = 0
  PROVE  Shape' /\ InUse' = InUse /\ (Calm => Calm')
<1> DEFINE p == handles[h].ptr
           len == handles[h].len
<1>1. /\ p \in Nat /\ len \in Nat /\ n \in Nat /\ p + n \in Nat /\ len - n \in Nat
      /\ handles[h].type \in Types
      /\ AlignOffset(p, handles[h].type.align) = 0
      /\ "uninit" \in Kinds
      /\ NoValue \in Values \cup {NoValue}
  BY InUseFields DEF Kinds
<1>2. /\ x.ptr = p /\ x.len = n /\ x.type = handles[h].type
      /\ x.kind = "uninit" /\ x.many = first /\ x.holds = NoValue
      /\ y.ptr = p + n /\ y.len = len - n /\ y.type = type
      /\ y.kind = "uninit" /\ y.many = second /\ y.holds = NoValue
  BY DEF Handle, ViewAt
<1>3. x \in HandleSet /\ y \in HandleSet
  BY <1>1 DEF Handle, ViewAt, HandleSet
<1>4. Fitting(x) /\ Fitting(y)
  BY <1>1, <1>2 DEF Fitting
<1>5. /\ Inside(x, handles[h]) /\ Inside(y, handles[h]) /\ Apart(x, y) /\ Apart(y, x)
      /\ x.len <= handles[h].len /\ y.len <= handles[h].len
  BY <1>1, <1>2 DEF Inside, Apart
<1>6. g # h /\ IsFree(g)
  BY DEF Splits, Parts, IsFree
<1>7. x.ptr = handles[h].ptr /\ y.ptr = handles[h].ptr + x.len /\ x.len + y.len = handles[h].len
  BY <1>1, <1>2
<1>8. Bytes(x) \cup Bytes(y) = Bytes(handles[h])
  BY <1>3, <1>7, BytesOfHalves DEF Shape, Formed
<1>9. Calm => Calm'
  BY UnwrapIsCalm DEF Splits, Parts
<1>10. CASE Splits(h, g, x, y, ok)
  <2>1. Splits(h, g, x, y, TRUE)
    BY <1>10 DEF Splits, Parts, Unwrap
  <2>2. Shape'
    BY <1>3, <1>4, <1>5, <1>6, <2>1, ShapeSplits
  <2>3. handles' = [handles EXCEPT ![h] = x, ![g] = y]
    BY <1>10 DEF Splits, Parts
  <2>4. InUse' = InUse
    BY <1>3, <1>6, <1>8, <2>3, SplitConserves
  <2> QED
    BY <1>9, <2>2, <2>4
<1>11. CASE Splits(h, g, y, x, ok)
  <2>1. Splits(h, g, y, x, TRUE)
    BY <1>11 DEF Splits, Parts, Unwrap
  <2>2. Shape'
    BY <1>3, <1>4, <1>5, <1>6, <2>1, ShapeSplits
  <2>3. handles' = [handles EXCEPT ![h] = y, ![g] = x]
    BY <1>11 DEF Splits, Parts
  <2>4. InUse' = InUse
    BY <1>3, <1>6, <1>8, <2>3, SplitConserves
  <2> QED
    BY <1>9, <2>2, <2>4
<1> QED
  BY <1>10, <1>11

\* Cutting a slice between two of its elements.
LEMMA SliceCut ==
  ASSUME Shape, NEW h \in Handles, IsSlice(h), NEW n \in Nat, SplitsAt(handles[h], n)
  PROVE  /\ n * handles[h].type.size \in 0 .. handles[h].len
         /\ AlignOffset(handles[h].ptr + n * handles[h].type.size, handles[h].type.align) = 0
         /\ HeadOf(handles[h], n)
              = ViewAt(handles[h].ptr, n * handles[h].type.size, handles[h].type)
         /\ TailOf(handles[h], n)
              = ViewAt(handles[h].ptr + n * handles[h].type.size,
                       handles[h].len - n * handles[h].type.size, handles[h].type)
         /\ CastsToSlice(TailOf(handles[h], n), handles[h].type)
<1> DEFINE v == handles[h]
           m == n * v.type.size
<1>1. /\ v.ptr \in Nat /\ v.len \in Nat /\ v.type \in Types
      /\ AlignOffset(v.ptr, v.type.align) = 0
  BY InUseFields DEF IsSlice
<1>2. v.type.size \in Nat
  BY <1>1, TypeFields
<1>3. m \in Nat
  BY <1>2
<1>4. m \in 0 .. v.len
  BY <1>1, <1>3 DEF SplitsAt
<1>5. AlignOffset(v.ptr + m, v.type.align) = 0
  BY <1>1, AlignedElement
<1>6. HeadOf(v, n) = ViewAt(v.ptr, m, v.type)
  BY DEF HeadOf, Front
<1>7. TailOf(v, n) = ViewAt(v.ptr + m, v.len - m, v.type)
  BY DEF TailOf, Behind, As, ViewAt, FromMemory
<1> HIDE DEF m, v
<1>8. CastsToSlice(TailOf(v, n), v.type)
  BY <1>1, <1>4, <1>5, <1>7 DEF CastsToSlice, ViewFits, WithSize, ViewAt
<1> QED
  BY <1>4, <1>5, <1>6, <1>7, <1>8 DEF m, v

\* split_last finds an element behind the last cut, or does not cut.
LEMMA LastFits ==
  ASSUME NEW v \in HandleSet, v.len < MaxUsize,
         SplitsAt(v, Previous(Capacity(v)))
  PROVE  /\ Previous(Capacity(v)) \in Nat
         /\ v.type.size <= v.len - Previous(Capacity(v)) * v.type.size
<1> DEFINE c == Capacity(v)
           s == v.type.size
<1>1. v.type \in Types /\ v.len \in Nat /\ MaxUsize \in Nat
  BY ViewAssumption DEF HandleSet
<1>2. s \in Nat /\ c \in Nat /\ c * s \in Nat /\ c * s <= v.len
  BY <1>1, TypeFields, CapacityFits
<1>3. Previous(c) = (IF c = 0 THEN MaxUsize ELSE c - 1) /\ Previous(c) * s <= v.len
  BY DEF Previous, SplitsAt
<1>4. Previous(c) \in Nat
  BY <1>1, <1>2, <1>3
<1>5. s = 0 => c = MaxUsize
  BY DEF Capacity
<1>6. CASE s = 0
  <2>1. Previous(c) * s = 0
    BY <1>4, <1>6
  <2> QED
    BY <1>1, <1>4, <1>6, <2>1
<1>7. CASE s # 0 /\ c = 0
  <2> HIDE DEF s, c
  <2>1. MaxUsize * 1 <= MaxUsize * s
    BY <1>1, <1>2, <1>7
  <2> QED
    BY <1>1, <1>2, <1>3, <1>7, <2>1
<1>8. CASE s # 0 /\ c # 0
  <2> HIDE DEF s, c
  <2>1. (c - 1) * s = c * s - s
    BY <1>2, <1>8
  <2>2. s <= v.len - Previous(c) * s
    BY <1>1, <1>2, <1>3, <1>8, <2>1
  <2> QED
    BY <1>4, <2>2 DEF c, s
<1> QED
  BY <1>2, <1>6, <1>7, <1>8

\* Memory is split for a layout only where it is aligned already.
LEMMA UnitSplits ==
  ASSUME NEW v \in HandleSet, v.len < MaxUsize, v.type = Unit, NEW layout \in AllLayouts
  PROVE  SplitsLayout(v, layout) <=>
           v.ptr % layout.align = 0 /\ UnitOffset(v.ptr, layout.align) = 0 /\ layout.size <= v.len
<1>1. v.len \in Nat /\ layout.size \in Nat /\ MaxUsize \in Nat /\ v.type.size = 0
  BY ViewAssumption, UnitFields DEF HandleSet, AllLayouts
<1>2. CASE v.ptr % layout.align = 0
  <2>1. UnitOffset(v.ptr, layout.align) = 0
    BY <1>2 DEF UnitOffset
  <2> QED
    BY <1>1, <1>2, <2>1 DEF SplitsLayout, SplitsAtByte
<1>3. CASE v.ptr % layout.align # 0
  <2>1. UnitOffset(v.ptr, layout.align) = MaxUsize
    BY <1>3 DEF UnitOffset
  <2> QED
    BY <1>1, <1>3, <2>1 DEF SplitsLayout
<1> QED
  BY <1>2, <1>3

LEMMA ShapeSplitsFor ==
  ASSUME Shape, NEW h \in Handles, NEW g \in Handles,
         NEW layout \in AllLayouts, NEW type \in Types, NEW back \in BOOLEAN,
         SplitsFor(h, g, layout, type, back),
         type.align \in {layout.align, 1},
         back \/ type.size <= layout.size
  PROVE  Shape' /\ InUse' = InUse /\ (Calm => Calm')
<1> DEFINE v == handles[h]
           n == 0
<1>1. /\ v.ptr \in Nat /\ v.len \in Nat /\ v.type = Unit /\ v.kind = "uninit"
      /\ v \in HandleSet /\ v.len < MaxUsize
      /\ layout.size \in Nat /\ layout.align \in Nat \ {0}
  BY InUseFields DEF SplitsFor, IsView, AllLayouts, Shape, Formed
<1>2. /\ v.ptr % layout.align = 0
      /\ UnitOffset(v.ptr, layout.align) = n
      /\ layout.size <= v.len
  BY <1>1, UnitSplits DEF SplitsFor
<1>3. v.ptr + n * v.type.size = v.ptr + n /\ v.ptr + n = v.ptr /\ v.len - n = v.len
  BY <1>1, UnitFields
<1> DEFINE x == Handle(ViewAt(v.ptr, n, v.type), "uninit", FALSE, NoValue)
           y == Handle(ViewAt(v.ptr + n, v.len - n, type), "uninit", back, NoValue)
           ok == ViewFits(Aligned(v, layout), layout)
<1>4. Aligned(v, layout) = ViewAt(v.ptr + n, v.len - n, Unit)
  BY <1>2, <1>3 DEF Aligned, Back, FromMemory
<1>5. Splits(h, g, x, y, ok)
  <2>1. /\ UnitOffset(handles[h].ptr, layout.align) = n
        /\ Aligned(handles[h], layout) = ViewAt(v.ptr + n, v.len - n, Unit)
    BY <1>2, <1>4
  <2>2. View(Front(handles[h], n)) = x
    BY DEF View, Front
  <2>3. As(ViewAt(v.ptr + n, v.len - n, Unit), type) = ViewAt(v.ptr + n, v.len - n, type)
    BY DEF As, ViewAt
  <2>4. Splits(h, g, View(Front(handles[h], UnitOffset(handles[h].ptr, layout.align))),
               Handle(As(Aligned(handles[h], layout), type), "uninit", back, NoValue),
               ViewFits(Aligned(handles[h], layout), layout))
    BY DEF SplitsFor
  <2> HIDE DEF n, v
  <2> QED
    BY <2>1, <2>2, <2>3, <2>4 DEF v
<1>6. AlignOffset(v.ptr + n, layout.align) = 0 /\ AlignOffset(v.ptr + n, type.align) = 0
  <2> HIDE DEF v, n
  <2> QED
    BY <1>1, <1>2, <1>3, AlignedAddress, AlignedOne
<1>7. ok
  BY <1>2, <1>3, <1>4, <1>6 DEF ViewFits, ViewAt
<1>8. type.size \in Nat
  BY TypeFields
<1>9. n \in 0 .. v.len /\ v.type.size <= n /\ (back \/ type.size <= v.len - n)
  BY <1>1, <1>2, <1>8, UnitFields
<1> HIDE DEF v, n, x, y, ok
<1>10. FALSE \in BOOLEAN
  OBVIOUS
<1> QED
  BY <1>1, <1>5, <1>6, <1>7, <1>9, <1>10, ShapeCuts DEF v, x, y

LEMMA ViewFields ==
  ASSUME NEW ptr \in Nat, NEW len \in Nat, NEW type \in Types
  PROVE  /\ View(ViewAt(ptr, len, type)) \in HandleSet
         /\ View(ViewAt(ptr, len, type)).ptr = ptr
         /\ View(ViewAt(ptr, len, type)).len = len
         /\ View(ViewAt(ptr, len, type)).type = type
         /\ View(ViewAt(ptr, len, type)).kind = "uninit"
         /\ ~ View(ViewAt(ptr, len, type)).many
         /\ View(ViewAt(ptr, len, type)).holds = NoValue
<1>1. "uninit" \in Kinds /\ FALSE \in BOOLEAN /\ NoValue \in Values \cup {NoValue}
  BY DEF Kinds
<1> QED
  BY <1>1 DEF View, Handle, ViewAt, HandleSet

\* A split at a byte finds its second half where the first ends, or strays.
LEMMA ShapeSplitsOff ==
  ASSUME Shape, NEW h \in Handles, NEW g \in Handles,
         NEW n \in 0 .. handles[h].len, handles[h].type.size <= n,
         NEW ok, ok, SplitsOff(h, g, n, ok)
  PROVE  Shape' /\ (InUse' = InUse \/ strayed') /\ (Calm => Calm')
<1> DEFINE v == handles[h]
           x == View(Front(v, n))
           y == View(Back(v, n))
<1>1. /\ v.ptr \in Nat /\ v.len \in Nat /\ v.type \in Types /\ v.kind = "uninit"
      /\ v.kind # "none" /\ AlignOffset(v.ptr, v.type.align) = 0
      /\ n \in Nat /\ n <= v.len /\ v.len - n \in Nat
  BY InUseFields DEF SplitsOff, IsView
<1>2. v.type.size \in Nat
  BY <1>1, TypeFields
<1>3. n * v.type.size \in Nat
  BY <1>1, <1>2
<1>4. v.ptr + n * v.type.size \in Nat /\ v.ptr + n \in Nat
  BY <1>1, <1>3
<1>5. Parts(h, g, x, y, ok) /\ strayed' = (strayed \/ Strays(v, n))
  BY DEF SplitsOff
<1>6. strayed \in BOOLEAN
  BY DEF Shape, Formed
<1>7. CASE Strays(v, n)
  <2>1. strayed'
    BY <1>5, <1>7
  <2>2. /\ x = View(ViewAt(v.ptr, n, v.type))
        /\ y = View(ViewAt(v.ptr + n * v.type.size, v.len - n, Unit))
    BY DEF Front, Back, FromMemory
  <2>3. g # h /\ level' = level /\ handles' = [handles EXCEPT ![h] = x, ![g] = y]
    BY <1>1, <1>5 DEF Parts, IsFree
  <2> HIDE DEF x, y, v
  <2>4. /\ x \in HandleSet /\ x.ptr = v.ptr /\ x.len = n /\ x.type = v.type
        /\ x.kind = "uninit" /\ ~ x.many /\ x.holds = NoValue
    BY <1>1, <2>2, ViewFields
  <2>5. /\ y \in HandleSet /\ y.ptr = v.ptr + n * v.type.size /\ y.len = v.len - n
        /\ y.type = Unit /\ y.kind = "uninit" /\ ~ y.many /\ y.holds = NoValue
    BY <1>1, <1>4, <2>2, UnitFields, ViewFields
  <2>6. Fitting(x)
    BY <1>1, <2>4 DEF Fitting, v
  <2>7. Fitting(y)
    BY <1>1, <1>4, <2>5, UnitFields, AlignedOne DEF Fitting
  <2>8. x.len <= v.len /\ y.len <= v.len
    BY <1>1, <2>4, <2>5
  <2>9. strayed' \in BOOLEAN
    BY <1>5, <1>6
  <2>10. Formed'
    BY <2>3, <2>4, <2>5, <2>6, <2>7, <2>8, <2>9, FormedParts DEF Shape, v
  <2>11. Calm => Calm'
    BY <1>5, UnwrapIsCalm DEF Parts
  <2> QED
    BY <2>1, <2>10, <2>11 DEF Shape
<1>8. CASE ~ Strays(v, n)
  <2>1. strayed' = strayed
    BY <1>5, <1>6, <1>8, Zenon
  <2>2. v.ptr + n * v.type.size = v.ptr + n
    BY <1>8 DEF Strays, FirstByte, EndOfView, Front, Back, FromMemory, ViewAt
  <2>3. /\ x = Handle(ViewAt(v.ptr, n, v.type), "uninit", FALSE, NoValue)
        /\ y = Handle(ViewAt(v.ptr + n, v.len - n, Unit), "uninit", FALSE, NoValue)
    BY <2>2 DEF View, Front, Back, FromMemory
  <2>4. Splits(h, g, x, y, ok)
    BY <1>5, <2>1 DEF Splits
  <2>5. /\ Unit \in Types /\ Unit.size <= v.len - n
        /\ AlignOffset(v.ptr + n, Unit.align) = 0
        /\ FALSE \in BOOLEAN
    BY <1>1, <1>4, UnitFields, AlignedOne
  <2> HIDE DEF x, y
  <2> QED
    BY <1>1, <2>3, <2>4, <2>5, ShapeCuts
<1> QED
  BY <1>7, <1>8

LEMMA ShapeDividesAtByte ==
  ASSUME Shape, NEW h \in Handles, NEW g \in Handles, DivideAtByte(h, g)
  PROVE  Shape' /\ (InUse' = InUse \/ strayed') /\ (Calm => Calm')
<1> DEFINE v == handles[h]
<1>1. /\ v.len \in Nat /\ v.type \in Types
      /\ v.kind = "uninit" /\ ~ v.many => v.type.size <= v.len
  BY InUseFields
<1>2. v.type.size \in Nat
  BY <1>1, TypeFields
<1>3. ASSUME NEW n \in Counts, SplitAtByte(h, g, n)
      PROVE  Shape' /\ (InUse' = InUse \/ strayed') /\ (Calm => Calm')
  <2>1. n \in 0 .. v.len /\ v.type.size <= n
    BY <1>1, <1>2, <1>3, CountAssumption DEF SplitAtByte, SplitsAtByte, Counts
  <2>2. SplitsOff(h, g, n, TRUE)
    BY <1>3 DEF SplitAtByte
  <2> QED
    BY <2>1, <2>2, ShapeSplitsOff
<1>4. ASSUME SplitToFit(h, g)
      PROVE  Shape' /\ (InUse' = InUse \/ strayed') /\ (Calm => Calm')
  <2> DEFINE n == v.type.size
             ok == SplitsAtByte(v, n)
  <2>1. SplitsOff(h, g, n, ok)
    BY <1>4 DEF SplitToFit
  <2>2. n \in 0 .. v.len /\ v.type.size <= n
    BY <1>1, <1>2, <2>1 DEF SplitsOff, IsView
  <2>3. ok
    BY <2>2, <1>2 DEF SplitsAtByte
  <2> HIDE DEF n, ok
  <2> QED
    BY <2>1, <2>2, <2>3, ShapeSplitsOff
<1> QED
  BY <1>3, <1>4 DEF DivideAtByte

LEMMA ShapeDividesElsewhere ==
  ASSUME Shape, NEW h \in Handles, NEW g \in Handles, DivideElsewhere(h, g)
  PROVE  Shape' /\ InUse' = InUse /\ (Calm => Calm')
<1> DEFINE v == handles[h]
<1> TRUE \in BOOLEAN /\ FALSE \in BOOLEAN
  OBVIOUS
<1>1. /\ v.ptr \in Nat /\ v.len \in Nat /\ v.type \in Types /\ v.len < MaxUsize
      /\ v \in HandleSet
      /\ v.kind = "uninit" /\ ~ v.many => v.type.size <= v.len
  BY InUseFields DEF Shape, Formed
<1>2. v.type.size \in Nat
  BY <1>1, TypeFields
<1>6. ASSUME NEW layout \in Layouts, SplitLayout(h, g, layout)
      PROVE  Shape' /\ InUse' = InUse /\ (Calm => Calm')
  <2>1. layout \in AllLayouts /\ Unit.align \in {layout.align, 1} /\ Unit.size <= layout.size
    BY LayoutsAreLayouts, UnitFields DEF AllLayouts
  <2> QED
    BY <1>6, <2>1, UnitFields, ShapeSplitsFor DEF SplitLayout
<1>7. ASSUME NEW type \in Types, SplitCast(h, g, type)
      PROVE  Shape' /\ InUse' = InUse /\ (Calm => Calm')
  <2>1. type \in AllLayouts /\ type.align \in {type.align, 1} /\ type.size <= type.size
    BY TypeFields
  <2> QED
    BY <1>7, <2>1, ShapeSplitsFor DEF SplitCast
<1>8. ASSUME NEW type \in Types, SplitSlice(h, g, type)
      PROVE  Shape' /\ InUse' = InUse /\ (Calm => Calm')
  <2>1. WithSize(type, 0) \in AllLayouts /\ type.align \in {WithSize(type, 0).align, 1}
    BY TypeFields DEF WithSize, AllLayouts
  <2> QED
    BY <1>8, <2>1, ShapeSplitsFor DEF SplitSlice
<1> DEFINE m(n) == n * v.type.size
           front(n, many) == Handle(ViewAt(v.ptr, m(n), v.type), "uninit", many, NoValue)
           rest(n, type, many) == Handle(ViewAt(v.ptr + m(n), v.len - m(n), type),
                                         "uninit", many, NoValue)
<1>9. ASSUME NEW n \in Counts, SplitAt(h, g, n)
      PROVE  Shape' /\ InUse' = InUse /\ (Calm => Calm')
  <2>1. n \in Nat /\ IsSlice(h) /\ SplitsAt(v, n)
    BY <1>9, CountAssumption DEF Counts, SplitAt
  <2>2. /\ m(n) \in 0 .. v.len
        /\ AlignOffset(v.ptr + m(n), v.type.align) = 0
        /\ CastsToSlice(TailOf(v, n), v.type)
        /\ HeadOf(v, n) = ViewAt(v.ptr, m(n), v.type)
        /\ TailOf(v, n) = ViewAt(v.ptr + m(n), v.len - m(n), v.type)
    BY <2>1, SliceCut
  <2>3. Splits(h, g, front(n, TRUE), rest(n, v.type, TRUE), CastsToSlice(TailOf(v, n), v.type))
    BY <1>9, <2>2 DEF SplitAt, Slice, Handle, ViewAt
  <2>4. v.kind = "uninit"
    BY <2>1 DEF IsSlice
  <2> QED
    BY <1>1, <2>2, <2>3, <2>4, ShapeCuts
<1>10. ASSUME ShrinkToFit(h, g)
       PROVE  Shape' /\ InUse' = InUse /\ (Calm => Calm')
  <2> DEFINE n == Capacity(v)
             ok == SplitsAt(v, n) /\ CastsToSlice(TailOf(v, n), v.type)
  <2>1. n \in Nat /\ IsSlice(h) /\ SplitsAt(v, n)
    BY <1>1, <1>10, CapacityFits DEF ShrinkToFit
  <2> HIDE DEF n
  <2>2. /\ m(n) \in 0 .. v.len
        /\ AlignOffset(v.ptr + m(n), v.type.align) = 0
        /\ CastsToSlice(TailOf(v, n), v.type)
        /\ HeadOf(v, n) = ViewAt(v.ptr, m(n), v.type)
        /\ TailOf(v, n) = ViewAt(v.ptr + m(n), v.len - m(n), v.type)
    BY <2>1, SliceCut
  <2>3. Splits(h, g, front(n, TRUE), rest(n, Unit, FALSE), ok)
    <3>1. Splits(h, g, Slice(HeadOf(v, n)), View(As(TailOf(v, n), Unit)), ok)
      BY <1>10 DEF n, ShrinkToFit
    <3>2. Slice(HeadOf(v, n)) = front(n, TRUE)
      BY <2>2 DEF Slice
    <3>3. View(As(TailOf(v, n), Unit)) = rest(n, Unit, FALSE)
      BY <2>2 DEF View, As, ViewAt
    <3> QED
      BY <3>1, <3>2, <3>3
  <2>4. v.kind = "uninit"
    BY <2>1 DEF IsSlice
  <2>5. v.ptr + m(n) \in Nat /\ v.len - m(n) \in Nat
    BY <1>1, <2>2
  <2>6. Unit \in Types /\ Unit.size <= v.len - m(n) /\ AlignOffset(v.ptr + m(n), Unit.align) = 0
    BY <2>5, UnitFields, AlignedOne
  <2> QED
    BY <2>1, <2>2, <2>3, <2>4, <2>6, ShapeCuts
<1>11. ASSUME SplitFirst(h, g)
       PROVE  Shape' /\ InUse' = InUse /\ (Calm => Calm')
  <2> DEFINE n == 1
             ok == CastsTo(HeadOf(v, n), v.type)
  <2>1. n \in Nat /\ IsSlice(h) /\ SplitsAt(v, n) /\ v.kind = "uninit"
    BY <1>11 DEF SplitFirst, IsSlice
  <2>2. m(n) = v.type.size
    BY <1>2
  <2> HIDE DEF n
  <2>3. /\ m(n) \in 0 .. v.len
        /\ AlignOffset(v.ptr + m(n), v.type.align) = 0
        /\ HeadOf(v, n) = ViewAt(v.ptr, m(n), v.type)
        /\ TailOf(v, n) = ViewAt(v.ptr + m(n), v.len - m(n), v.type)
    BY <2>1, SliceCut
  <2>4. Splits(h, g, rest(n, v.type, TRUE), front(n, FALSE), ok)
    BY <1>11, <2>3 DEF n, SplitFirst, Slice, View, Handle, ViewAt
  <2>5. AlignOffset(v.ptr, v.type.align) = 0
    BY <2>1, InUseFields
  <2>6. v.type.size <= m(n)
    BY <1>2, <2>2
  <2>7. ok
    BY <2>3, <2>5, <2>6 DEF CastsTo, ViewFits, ViewAt
  <2> QED
    BY <1>1, <2>1, <2>3, <2>4, <2>6, <2>7, ShapeCuts
<1>12. ASSUME SplitLast(h, g)
       PROVE  Shape' /\ InUse' = InUse /\ (Calm => Calm')
  <2> DEFINE n == Previous(Capacity(v))
             ok == CastsTo(TailOf(v, n), v.type)
  <2>1. IsSlice(h) /\ SplitsAt(v, n) /\ v.kind = "uninit"
    BY <1>12 DEF SplitLast, IsSlice
  <2>2. n \in Nat /\ v.type.size <= v.len - m(n)
    BY <1>1, <2>1, LastFits
  <2> HIDE DEF n
  <2>3. /\ m(n) \in 0 .. v.len
        /\ AlignOffset(v.ptr + m(n), v.type.align) = 0
        /\ HeadOf(v, n) = ViewAt(v.ptr, m(n), v.type)
        /\ TailOf(v, n) = ViewAt(v.ptr + m(n), v.len - m(n), v.type)
    BY <2>1, <2>2, SliceCut
  <2>4. Splits(h, g, front(n, TRUE), rest(n, v.type, FALSE), ok)
    BY <1>12, <2>3 DEF n, SplitLast, Slice, View, Handle, ViewAt
  <2>5. ok
    BY <2>2, <2>3 DEF CastsTo, ViewFits, ViewAt
  <2> QED
    BY <1>1, <2>1, <2>2, <2>3, <2>4, <2>5, ShapeCuts
<1> QED
  BY <1>6, <1>7, <1>8, <1>9, <1>10, <1>11, <1>12 DEF DivideElsewhere

------------------------------------------------------------------------------
(* Values *)

Placed == place \in [Values -> Places]

Spots == Placed /\ Reaches /\ Managed

LEMMA PlaceFields ==
  /\ WithCaller \in Places /\ WithCaller.state # "memory"
  /\ Dropped \in Places /\ Dropped.state # "memory"
  /\ Lost \in Places /\ Lost.state # "memory"
  /\ \A p \in Nat : /\ InMemory(p) \in Places
                     /\ InMemory(p).state = "memory"
                     /\ InMemory(p).at = p
                     /\ InMemory(p) # WithCaller
  BY DEF WithCaller, Dropped, Lost, InMemory, Places

\* The value of h goes, to wherever it goes.
LEMMA SpotsLeave ==
  ASSUME Spots, NEW h \in Handles, NEW g \in Handles,
         NEW end \in Places, end.state # "memory",
         place' = [w \in Values |-> IF w = handles[h].holds THEN end ELSE place[w]],
         g = h \/ handles[g].holds = NoValue,
         handles'[h].holds = NoValue, handles'[g].holds = NoValue,
         \A f \in Handles : f \notin {g, h} => handles'[f] = handles[f],
         \A f \in Handles : handles[f].holds \in Values \cup {NoValue}
  PROVE  Spots'
<1>1. place' \in [Values -> Places]
  BY DEF Spots, Placed
<1>2. ASSUME NEW f \in Handles, handles'[f].holds # NoValue
      PROVE  /\ f \notin {g, h} /\ handles'[f] = handles[f]
             /\ handles[f].holds \in Values /\ handles[f].holds # handles[h].holds
  BY <1>2 DEF Spots, Placed, Reaches
<1>3. Reaches'
  <2> SUFFICES ASSUME NEW f \in Handles, handles'[f].holds # NoValue
               PROVE  /\ place'[handles'[f].holds] = InMemory(handles'[f].ptr)
                      /\ handles'[f].type = TypeOf[handles'[f].holds]
                      /\ \A e \in Handles : handles'[e].holds = handles'[f].holds => e = f
    BY DEF Reaches, InMemory
  <2>1. /\ place[handles[f].holds] = InMemory(handles[f].ptr)
        /\ handles[f].type = TypeOf[handles[f].holds]
        /\ \A e \in Handles : handles[e].holds = handles[f].holds => e = f
    BY <1>2 DEF Spots, Placed, Reaches
  <2> QED
    BY <1>2, <2>1
<1>4. Managed'
  <2> SUFFICES ASSUME NEW w \in Values, place'[w].state = "memory"
               PROVE  \E f \in Handles : handles'[f].holds = w
    BY DEF Managed
  <2>1. w # handles[h].holds /\ place[w].state = "memory"
    BY <1>1
  <2>2. PICK f \in Handles : handles[f].holds = w
    BY <2>1 DEF Spots, Placed, Managed
  <2>3. w # NoValue
    BY BoxesAssumption
  <2>4. f \notin {g, h}
    BY <2>1, <2>2, <2>3
  <2> QED
    BY <2>2, <2>4
<1> QED
  BY <1>1, <1>3, <1>4 DEF Spots, Placed

\* Values stay where they are, with the pointers that lead to them.
LEMMA SpotsStay ==
  ASSUME Spots, place' = place,
         \A f \in Handles :
           /\ handles'[f].holds = handles[f].holds
           /\ handles[f].holds # NoValue =>
                handles'[f].ptr = handles[f].ptr /\ handles'[f].type = handles[f].type
  PROVE  Spots'
<1>1. ASSUME NEW f \in Handles, handles'[f].holds # NoValue
      PROVE  /\ place'[handles'[f].holds] = InMemory(handles'[f].ptr)
             /\ handles'[f].type = TypeOf[handles'[f].holds]
             /\ \A g \in Handles : handles'[g].holds = handles'[f].holds => g = f
  <2>1. /\ handles'[f].holds = handles[f].holds /\ handles[f].holds # NoValue
        /\ handles'[f].ptr = handles[f].ptr /\ handles'[f].type = handles[f].type
    BY <1>1
  <2>2. /\ place[handles[f].holds] = InMemory(handles[f].ptr)
        /\ handles[f].type = TypeOf[handles[f].holds]
    BY <2>1 DEF Spots, Placed, Reaches
  <2>3. \A g \in Handles : handles[g].holds = handles[f].holds => g = f
    BY <2>1 DEF Spots, Placed, Reaches
  <2>4. \A g \in Handles : handles'[g].holds = handles[g].holds
    OBVIOUS
  <2>5. \A g \in Handles : handles'[g].holds = handles'[f].holds => g = f
    BY <2>1, <2>3, <2>4
  <2> QED
    BY <2>1, <2>2, <2>5
<1>2. Reaches'
  BY <1>1 DEF Reaches, InMemory
<1>3. Managed'
  BY DEF Spots, Placed, Managed
<1> QED
  BY <1>2, <1>3 DEF Spots, Placed

\* A value moves in where no other value is.
LEMMA SpotsEnter ==
  ASSUME Spots, NEW h \in Handles, NEW value \in Values, NEW p \in Nat,
         place[value] = WithCaller,
         handles'[h].holds = value, handles'[h].ptr = p, handles'[h].type = TypeOf[value],
         \A f \in Handles : f # h => handles'[f] = handles[f],
         place' \in [Values -> Places],
         place'[value] = InMemory(p),
         handles[h].holds \in Values => place'[handles[h].holds] = Lost,
         \A w \in Values : w # value /\ w # handles[h].holds => place'[w] = place[w],
         \A f \in Handles : handles[f].holds \in Values \cup {NoValue}
  PROVE  Spots'
<1>1. ASSUME NEW f \in Handles
      PROVE  handles[f].holds # value
  <2>1. value # NoValue
    BY BoxesAssumption
  <2>2. InMemory(handles[f].ptr).state = "memory" /\ WithCaller.state = "caller"
    BY DEF InMemory, WithCaller
  <2>3. handles[f].holds = value => place[value] = InMemory(handles[f].ptr)
    BY <2>1 DEF Spots, Placed, Reaches
  <2> QED
    BY <2>2, <2>3
<1>2. Reaches'
  <2> SUFFICES ASSUME NEW f \in Handles, handles'[f].holds # NoValue
               PROVE  /\ place'[handles'[f].holds] = InMemory(handles'[f].ptr)
                      /\ handles'[f].type = TypeOf[handles'[f].holds]
                      /\ \A e \in Handles : handles'[e].holds = handles'[f].holds => e = f
    BY DEF Reaches, InMemory
  <2>1. CASE f = h
    BY <1>1, <2>1
  <2>2. CASE f # h
    <3>1. /\ handles'[f] = handles[f]
          /\ handles[f].holds \in Values
          /\ handles[f].holds # value /\ handles[f].holds # handles[h].holds
          /\ place[handles[f].holds] = InMemory(handles[f].ptr)
          /\ handles[f].type = TypeOf[handles[f].holds]
          /\ \A e \in Handles : handles[e].holds = handles[f].holds => e = f
      BY <1>1, <2>2 DEF Spots, Placed, Reaches
    <3> QED
      BY <2>2, <3>1
  <2> QED
    BY <2>1, <2>2
<1>3. Managed'
  <2> SUFFICES ASSUME NEW w \in Values, place'[w].state = "memory"
               PROVE  \E f \in Handles : handles'[f].holds = w
    BY DEF Managed
  <2>1. CASE w = value
    BY <2>1
  <2>2. CASE w # value
    <3>1. w # handles[h].holds
      BY PlaceFields
    <3>2. place[w].state = "memory"
      BY <2>2, <3>1
    <3>3. PICK f \in Handles : handles[f].holds = w
      BY <3>2 DEF Spots, Placed, Managed
    <3> QED
      BY <3>1, <3>3
  <2> QED
    BY <2>1, <2>2
<1> QED
  BY <1>2, <1>3 DEF Spots, Placed

\* Writing through a pointer destroys no value that another one leads to.
LEMMA WriteApart ==
  ASSUME Shape, InPlace, Spots, NEW h \in Handles, handles[h].kind # "none", ~ handles[h].many,
         NEW w \in Values, w # handles[h].holds
  PROVE  ~ Overwrites(handles[h].ptr, handles[h].type, w)
<1> SUFFICES ASSUME place[w].state = "memory"
             PROVE  Span(handles[h].ptr, handles[h].type) \cap Span(place[w].at, TypeOf[w]) = {}
  BY DEF Overwrites
<1>1. PICK g \in Handles : handles[g].holds = w
  BY DEF Spots, Placed, Managed
<1>2. w # NoValue
  BY BoxesAssumption
<1>3. /\ place[w] = InMemory(handles[g].ptr) /\ handles[g].type = TypeOf[w] /\ g # h
  BY <1>1, <1>2 DEF Spots, Placed, Reaches
<1>4. handles[g].kind # "none"
  BY <1>1, <1>2, VacantFields DEF Shape, Formed, Fitting
<1>5. /\ handles[h].ptr \in Nat /\ handles[h].len \in Nat /\ handles[h].type \in Types
      /\ handles[h].type.size <= handles[h].len
      /\ handles[g].ptr \in Nat /\ handles[g].len \in Nat /\ handles[g].type \in Types
      /\ handles[g].type.size <= handles[g].len
  BY <1>1, <1>2, <1>4, InUseFields
<1>6. handles[h].type.size \in Nat /\ handles[g].type.size \in Nat
  BY <1>5, TypeFields
<1>7. Apart(handles[h], handles[g])
  BY <1>3 DEF InPlace
<1>8. place[w].at = handles[g].ptr
  BY <1>3, <1>5, PlaceFields
<1> QED
  BY <1>3, <1>5, <1>6, <1>7, <1>8 DEF Apart, Span

\* Nor does writing to memory just allocated.
LEMMA AllocatedApart ==
  ASSUME Shape, InPlace, Spots, NEW layout \in AllLayouts, Available(layout),
         NEW w \in Values
  PROVE  ~ Overwrites(Granted(layout).ptr, layout, w)
<1> SUFFICES ASSUME place[w].state = "memory"
             PROVE  Span(Granted(layout).ptr, layout) \cap Span(place[w].at, TypeOf[w]) = {}
  BY DEF Overwrites
<1>1. PICK g \in Handles : handles[g].holds = w
  BY DEF Spots, Placed, Managed
<1>2. w # NoValue
  BY BoxesAssumption
<1>3. place[w] = InMemory(handles[g].ptr) /\ handles[g].type = TypeOf[w]
  BY <1>1, <1>2 DEF Spots, Placed, Reaches
<1>4. handles[g].kind # "none"
  BY <1>1, <1>2, VacantFields DEF Shape, Formed, Fitting
<1>5. /\ handles[g].ptr \in Nat /\ handles[g].len \in Nat /\ handles[g].type \in Types
      /\ handles[g].type.size <= handles[g].len
  BY <1>1, <1>2, <1>4, InUseFields
<1>6. handles[g].type.size \in Nat /\ layout.size \in Nat
  BY <1>5, TypeFields DEF AllLayouts
<1>7. /\ Granted(layout).ptr \in Nat
      /\ layout.size # 0 => Base + level <= Granted(layout).ptr
  BY GrantedMemory DEF Shape, Formed
<1>8. /\ Base \in Nat /\ level \in Nat
      /\ handles[g].len > 0 => handles[g].ptr + handles[g].len <= Base + level
  BY ArenaAssumption DEF Shape, Formed, InPlace
<1>9. place[w].at = handles[g].ptr
  BY <1>3, <1>5, PlaceFields
<1> QED
  BY <1>3, <1>5, <1>6, <1>7, <1>8, <1>9 DEF Span

\* The handles a step does not name stay as they are.
LEMMA Becoming ==
  ASSUME Shape, NEW h \in Handles, NEW x, handles' = [handles EXCEPT ![h] = x]
  PROVE  /\ handles'[h] = x
         /\ \A f \in Handles : f # h => handles'[f] = handles[f]
         /\ \A f \in Handles : f \notin {h, h} => handles'[f] = handles[f]
         /\ \A f \in Handles : handles[f].holds \in Values \cup {NoValue}
  BY DEF Shape, Formed, HandleSet

LEMMA SpotsKept ==
  ASSUME Shape, Spots, NEW h \in Handles, NEW x, handles' = [handles EXCEPT ![h] = x],
         place' = place,
         x.holds = handles[h].holds,
         handles[h].holds # NoValue => x.ptr = handles[h].ptr /\ x.type = handles[h].type
  PROVE  Spots'
  BY Becoming, SpotsStay

LEMMA SpotsGone ==
  ASSUME Shape, Spots, NEW h \in Handles, NEW x, handles' = [handles EXCEPT ![h] = x],
         NEW end \in Places, end.state # "memory",
         place' = [w \in Values |-> IF w = handles[h].holds THEN end ELSE place[w]],
         x.holds = NoValue
  PROVE  Spots'
<1>1. /\ handles'[h] = x
      /\ \A f \in Handles : f \notin {h, h} => handles'[f] = handles[f]
      /\ \A f \in Handles : handles[f].holds \in Values \cup {NoValue}
  BY Becoming
<1>2. handles'[h].holds = NoValue
  BY <1>1
<1> QED
  BY <1>1, <1>2, SpotsLeave

LEMMA Labels ==
  ASSUME NEW v, NEW kind, NEW many, NEW value
  PROVE  /\ Handle(v, kind, many, value).holds = value
         /\ Handle(v, kind, many, value).ptr = v.ptr
         /\ Handle(v, kind, many, value).type = v.type
         /\ Thin(v, kind, many, value).holds = value
         /\ Thin(v, kind, many, value).ptr = v.ptr
         /\ Thin(v, kind, many, value).type = v.type
         /\ View(v).holds = NoValue
         /\ Slice(v).holds = NoValue
         /\ Vacant.holds = NoValue
  BY DEF Handle, Thin, Front, ViewAt, View, Slice, Vacant

LEMMA SpotsConverts ==
  ASSUME Shape, Spots, NEW h \in Handles, Convert(h)
  PROVE  Spots'
<1>1. ASSUME NEW x, NEW ok, Converts(h, x, ok), x.holds = NoValue
      PROVE  Spots'
  BY <1>1, PlaceFields, SpotsGone DEF Converts, Becomes, Loses
<1>2. ASSUME NEW x, Keeps(h, x), x.holds = handles[h].holds,
             x.ptr = handles[h].ptr, x.type = handles[h].type
      PROVE  Spots'
  BY <1>2, SpotsKept DEF Keeps, Becomes
<1>3. ASSUME NEW type \in Types, Cast(h, type) \/ CastSlice(h, type)
      PROVE  Spots'
  BY <1>1, <1>3, Labels DEF Cast, CastSlice
<1>4. CASE AsMemory(h) \/ FromMaybeUninit(h) \/ FromMaybeUninitSlice(h)
  BY <1>1, <1>4, Labels DEF AsMemory, FromMaybeUninit, FromMaybeUninitSlice
<1>5. CASE IntoMaybeUninit(h)
  <2> DEFINE x == Thin(handles[h], "ref", handles[h].many, NoValue)
  <2>1. Converts(h, x, TRUE)
    BY <1>5 DEF IntoMaybeUninit
  <2>2. x.holds = NoValue
    BY DEF Thin, Handle
  <2> HIDE DEF x
  <2> QED
    BY <1>1, <2>1, <2>2
<1>6. CASE FromUninit(h)
  BY <1>2, <1>6, Labels DEF FromUninit, IsMaybeUninit
<1>7. CASE IntoPin(h)
  BY <1>2, <1>7, Labels DEF IntoPin
<1> QED
  BY <1>3, <1>4, <1>5, <1>6, <1>7 DEF Convert

LEMMA SpotsStores ==
  ASSUME Shape, InPlace, Spots, NEW h \in Handles, NEW value \in Values, NEW x,
         handles[h].kind # "none",
         Accepts(h, value), Stores(h, value), Becomes(h, x),
         x.holds = value, x.ptr = handles[h].ptr, x.type = handles[h].type
  PROVE  Spots'
<1> DEFINE p == handles[h].ptr
<1>1. /\ handles'[h] = x
      /\ \A f \in Handles : f # h => handles'[f] = handles[f]
      /\ \A f \in Handles : handles[f].holds \in Values \cup {NoValue}
  BY Becoming DEF Becomes
<1>2. /\ ~ handles[h].many /\ handles[h].type = TypeOf[value] /\ place[value] = WithCaller
      /\ p \in Nat
  BY InUseFields DEF Accepts
<1>3. place \in [Values -> Places]
  BY DEF Spots, Placed
<1>4. handles[h].holds # value
  <2>1. InMemory(p).state = "memory" /\ WithCaller.state = "caller"
    BY DEF InMemory, WithCaller
  <2>2. handles[h].holds = value /\ value # NoValue => place[value] = InMemory(p)
    BY DEF Spots, Placed, Reaches
  <2> QED
    BY <1>2, <2>1, <2>2, BoxesAssumption
<1>5. ASSUME NEW w \in Values, w # handles[h].holds
      PROVE  AfterWrite(p, handles[h].type)[w] = place[w]
  BY <1>2, <1>5, WriteApart DEF AfterWrite
<1>6. /\ place'[value] = InMemory(p)
      /\ handles[h].holds \in Values => place'[handles[h].holds] = Lost
      /\ \A w \in Values : w # value /\ w # handles[h].holds => place'[w] = place[w]
  BY <1>4, <1>5 DEF Stores
<1>7. place' \in [Values -> Places]
  <2>1. \A w \in Values : place'[w] \in Places
    BY <1>2, <1>3, <1>6, PlaceFields
  <2>2. place' = [w \in Values |-> place'[w]]
    BY DEF Stores
  <2> QED
    BY <2>1, <2>2
<1> QED
  BY <1>1, <1>2, <1>6, <1>7, SpotsEnter

LEMMA SpotsMovesIn ==
  ASSUME Shape, InPlace, Spots, NEW h \in Handles, MoveIn(h)
  PROVE  Spots'
<1> PICK value \in Values : InitView(h, value) \/ BoxNew(h, value) \/ Write(h, value)
  BY DEF MoveIn
<1> DEFINE v == handles[h]
<1>1. CASE InitView(h, value)
  <2> DEFINE x == Thin(v, "ref", FALSE, value)
  <2>1. x.holds = value /\ x.ptr = v.ptr /\ x.type = v.type
    BY DEF Handle, Thin, Front, ViewAt
  <2>2. Accepts(h, value) /\ Stores(h, value) /\ Becomes(h, x) /\ v.kind # "none"
    BY <1>1 DEF InitView, IsView
  <2> HIDE DEF x, v
  <2> QED
    BY <2>1, <2>2, SpotsStores DEF v
<1>2. CASE BoxNew(h, value)
  <2> DEFINE x == Handle(v, "box", FALSE, value)
  <2>1. x.holds = value /\ x.ptr = v.ptr /\ x.type = v.type
    BY DEF Handle, Thin, Front, ViewAt
  <2>2. Accepts(h, value) /\ Stores(h, value) /\ Becomes(h, x) /\ v.kind # "none"
    BY <1>2 DEF BoxNew, IsView
  <2> HIDE DEF x, v
  <2> QED
    BY <2>1, <2>2, SpotsStores DEF v
<1>3. CASE Write(h, value)
  <2> DEFINE x == Handle(v, "leak", FALSE, value)
  <2>1. x.holds = value /\ x.ptr = v.ptr /\ x.type = v.type
    BY DEF Handle, Thin, Front, ViewAt
  <2>2. Accepts(h, value) /\ Stores(h, value) /\ Becomes(h, x) /\ v.kind # "none"
    BY <1>3 DEF Write
  <2> HIDE DEF x, v
  <2> QED
    BY <2>1, <2>2, SpotsStores DEF v
<1> QED
  BY <1>1, <1>2, <1>3

LEMMA SpotsHandsOver ==
  ASSUME Shape, Spots, NEW h \in Handles, HandOver(h)
  PROVE  Spots'
<1>1. ASSUME NEW x, Keeps(h, x), x.holds = handles[h].holds,
             x.ptr = handles[h].ptr, x.type = handles[h].type
      PROVE  Spots'
  BY <1>1, SpotsKept DEF Keeps, Becomes
<1> DEFINE v == handles[h]
<1>2. CASE BoxIntoRaw(h)
  <2> DEFINE x == Handle(v, "uninit", FALSE, v.holds)
  <2>1. x.holds = v.holds /\ x.ptr = v.ptr /\ x.type = v.type
    BY DEF Handle, Thin, Front, ViewAt
  <2>2. Keeps(h, x)
    BY <1>2 DEF BoxIntoRaw
  <2> HIDE DEF x
  <2> QED
    BY <1>1, <2>1, <2>2
<1>3. CASE BoxFromRaw(h)
  <2> DEFINE x == Handle(v, "box", FALSE, v.holds)
  <2>1. x.holds = v.holds /\ x.ptr = v.ptr /\ x.type = v.type
    BY DEF Handle, Thin, Front, ViewAt
  <2>2. Keeps(h, x)
    BY <1>3 DEF BoxFromRaw
  <2> HIDE DEF x
  <2> QED
    BY <1>1, <2>1, <2>2
<1>4. CASE BoxLeak(h)
  <2> DEFINE x == Thin(v, "ref", FALSE, v.holds)
  <2>1. x.holds = v.holds /\ x.ptr = v.ptr /\ x.type = v.type
    BY DEF Handle, Thin, Front, ViewAt
  <2>2. Keeps(h, x)
    BY <1>4 DEF BoxLeak
  <2> HIDE DEF x
  <2> QED
    BY <1>1, <2>1, <2>2
<1>5. CASE LeakIntoRaw(h)
  <2> DEFINE x == Handle(v, "raw", v.many, v.holds)
  <2>1. x.holds = v.holds /\ x.ptr = v.ptr /\ x.type = v.type
    BY DEF Handle, Thin, Front, ViewAt
  <2>2. Keeps(h, x)
    BY <1>5 DEF LeakIntoRaw
  <2> HIDE DEF x
  <2> QED
    BY <1>1, <2>1, <2>2
<1>6. CASE LeakFromRaw(h)
  <2> DEFINE x == Handle(v, "leak", v.many, v.holds)
  <2>1. x.holds = v.holds /\ x.ptr = v.ptr /\ x.type = v.type
    BY DEF Handle, Thin, Front, ViewAt
  <2>2. Keeps(h, x)
    BY <1>6 DEF LeakFromRaw
  <2> HIDE DEF x
  <2> QED
    BY <1>1, <2>1, <2>2
<1>7. CASE FromMutUnchecked(h)
  <2> DEFINE x == Handle(v, "leak", FALSE, v.holds)
  <2>1. x.holds = v.holds /\ x.ptr = v.ptr /\ x.type = v.type
    BY DEF Handle, Thin, Front, ViewAt
  <2>2. Keeps(h, x)
    BY <1>7 DEF FromMutUnchecked
  <2> HIDE DEF x
  <2> QED
    BY <1>1, <2>1, <2>2
<1>8. CASE Leak(h)
  <2> DEFINE x == Handle(v, "ref", v.many, v.holds)
  <2>1. x.holds = v.holds /\ x.ptr = v.ptr /\ x.type = v.type
    BY DEF Handle, Thin, Front, ViewAt
  <2>2. Keeps(h, x)
    BY <1>8 DEF Leak
  <2> HIDE DEF x
  <2> QED
    BY <1>1, <2>1, <2>2
<1>11. CASE BoxDrop(h) \/ LeakDrop(h)
  BY <1>11, Labels, PlaceFields, SpotsGone DEF BoxDrop, LeakDrop, DropsInPlace, Becomes
<1>12. CASE Forget(h)
  BY <1>12, Labels, PlaceFields, SpotsGone DEF Forget, Becomes, Loses
<1>13. ASSUME NEW x, Becomes(h, x), x.holds = NoValue, handles[h].holds # NoValue,
             place' = [place EXCEPT ![handles[h].holds] = WithCaller]
      PROVE  Spots'
  <2>1. place \in [Values -> Places]
    BY DEF Spots, Placed
  <2>2. place' = [w \in Values |-> IF w = handles[h].holds THEN WithCaller ELSE place[w]]
    BY <1>13, <2>1
  <2> QED
    BY <1>13, <2>2, PlaceFields, SpotsGone DEF Becomes
<1>14. CASE BoxTake(h)
  BY <1>13, <1>14, Labels, InUseFields DEF BoxTake
<1>15. CASE Take(h)
  BY <1>13, <1>15, Labels DEF Take
<1> QED
  BY <1>2, <1>3, <1>4, <1>5, <1>6, <1>7, <1>8, <1>11, <1>12, <1>14, <1>15 DEF HandOver

LEMMA FreeHoldsNothing ==
  ASSUME Shape, NEW h \in Handles, IsFree(h)
  PROVE  handles[h].holds = NoValue
  BY VacantFields DEF Shape, Formed, IsFree, Fitting

\* Memory is handed out, and no value with it.
LEMMA SpotsGranted ==
  ASSUME Shape, Spots, NEW h \in Handles, NEW layout, NEW x,
         Allocates(h, layout, x), x.holds = NoValue, place' = place
  PROVE  Spots'
<1>1. handles[h].holds = NoValue
  BY FreeHoldsNothing DEF Allocates
<1>2. handles' = [handles EXCEPT ![h] = x]
  BY DEF Allocates
<1> QED
  BY <1>1, <1>2, SpotsKept

LEMMA SpotsArrives ==
  ASSUME Shape, InPlace, Spots, NEW h \in Handles, NEW value \in Values, NEW kind,
         Arrives(h, value, kind)
  PROVE  Spots'
<1> DEFINE type == TypeOf[value]
           p == Granted(type).ptr
           x == Handle(As(Granted(type), type), kind, FALSE, value)
<1>1. type \in AllLayouts
  BY BoxesAssumption, TypeFields
<1>2. /\ Allocates(h, type, x) /\ Available(type) /\ IsFree(h) /\ place[value] = WithCaller
      /\ place' = [AfterWrite(p, type) EXCEPT ![value] = InMemory(p)]
  BY DEF Arrives, Allocates
<1>3. p \in Nat
  BY <1>1, <1>2, GrantedMemory DEF Shape, Formed
<1>4. x.holds = value /\ x.ptr = p /\ x.type = type
  BY DEF Handle, As, ViewAt
<1> HIDE DEF type, p, x
<1>5. /\ handles'[h] = x
      /\ \A f \in Handles : f # h => handles'[f] = handles[f]
      /\ \A f \in Handles : handles[f].holds \in Values \cup {NoValue}
  BY <1>2, Becoming DEF Allocates
<1>6. \A w \in Values : AfterWrite(p, type)[w] = place[w]
  BY <1>1, <1>2, AllocatedApart DEF AfterWrite, p
<1>7. AfterWrite(p, type) = [w \in Values |-> AfterWrite(p, type)[w]]
  BY DEF AfterWrite
<1>8. place'[value] = InMemory(p) /\ \A w \in Values : w # value => place'[w] = place[w]
  BY <1>2, <1>6, <1>7
<1>9. place' \in [Values -> Places]
  <2>1. \A w \in Values : place'[w] \in Places
    BY <1>3, <1>8, PlaceFields DEF Spots, Placed
  <2>2. place' = [w \in Values |-> place'[w]]
    BY <1>2, <1>7
  <2> QED
    BY <2>1, <2>2
<1>10. handles[h].holds \notin Values
  BY <1>2, FreeHoldsNothing, BoxesAssumption
<1> QED
  BY <1>2, <1>3, <1>4, <1>5, <1>8, <1>9, <1>10, SpotsEnter DEF type

LEMMA SpotsAllocate ==
  ASSUME Shape, InPlace, Spots, NEW h \in Handles, Allocate(h)
  PROVE  Spots'
<1>1. ASSUME NEW layout \in Layouts, AllocLayout(h, layout)
      PROVE  Spots'
  <2> DEFINE x == View(Granted(layout))
  <2>1. x.holds = NoValue
    BY DEF View, Handle
  <2>2. Allocates(h, layout, x) /\ place' = place
    BY <1>1 DEF AllocLayout
  <2> HIDE DEF x
  <2> QED
    BY <2>1, <2>2, SpotsGranted
<1>2. ASSUME NEW layout \in Layouts, AllocRc(h, layout)
      PROVE  Spots'
  <2> DEFINE x == Handle(Granted(layout), "given", FALSE, NoValue)
  <2>1. x.holds = NoValue
    BY DEF Handle
  <2>2. Allocates(h, layout, x) /\ place' = place
    BY <1>2 DEF AllocRc
  <2> HIDE DEF x
  <2> QED
    BY <2>1, <2>2, SpotsGranted
<1>3. ASSUME NEW type \in Types, AllocT(h, type)
      PROVE  Spots'
  <2> DEFINE x == View(As(Granted(type), type))
  <2>1. x.holds = NoValue
    BY DEF View, Handle
  <2>2. Allocates(h, type, x) /\ place' = place
    BY <1>3 DEF AllocT
  <2> HIDE DEF x
  <2> QED
    BY <2>1, <2>2, SpotsGranted
<1>4. ASSUME NEW type \in Types, NEW n \in Counts, FixedVec(h, type, n) \/ CopySlice(h, type, n)
      PROVE  Spots'
  <2> DEFINE layout == ArrayOf(type, n)
             x == Handle(As(Granted(layout), type), "given", TRUE, NoValue)
  <2>1. x.holds = NoValue
    BY DEF Handle
  <2>2. Allocates(h, layout, x) /\ Available(layout)
    BY <1>4 DEF FixedVec, CopySlice, Allocates
  <2>3. layout \in AllLayouts
    BY CountAssumption, ArrayFields DEF Counts
  <2>4. place' = place \/ place' = AfterWrite(Granted(layout).ptr, layout)
    BY <1>4 DEF FixedVec, CopySlice
  <2> HIDE DEF layout, x
  <2>5. AfterWrite(Granted(layout).ptr, layout) = [w \in Values |-> place[w]]
    BY <2>2, <2>3, AllocatedApart DEF AfterWrite
  <2>6. place' = place
    BY <2>4, <2>5 DEF Spots, Placed
  <2> QED
    BY <2>1, <2>2, <2>6, SpotsGranted
<1>5. ASSUME NEW value \in Values, Boxed(h, value) \/ LeakBoxed(h, value)
      PROVE  Spots'
  BY <1>5, SpotsArrives DEF Boxed, LeakBoxed
<1> QED
  BY <1>1, <1>2, <1>3, <1>4, <1>5 DEF Allocate

LEMMA SpotsParts ==
  ASSUME Shape, Spots, NEW h \in Handles, NEW g \in Handles, IsView(h) \/ IsSlice(h),
         NEW x, NEW y, NEW ok, Parts(h, g, x, y, ok),
         x.holds = NoValue, y.holds = NoValue
  PROVE  Spots'
<1>1. g # h /\ handles' = [handles EXCEPT ![h] = x, ![g] = y]
  BY DEF Parts, IsFree, IsView, IsSlice
<1>2. /\ handles'[h] = x /\ handles'[g] = y
      /\ \A f \in Handles : f \notin {g, h} => handles'[f] = handles[f]
      /\ \A f \in Handles : handles[f].holds \in Values \cup {NoValue}
  BY <1>1 DEF Shape, Formed, HandleSet
<1>3. handles'[h].holds = NoValue /\ handles'[g].holds = NoValue
  BY <1>2
<1>4. handles[g].holds = NoValue
  BY FreeHoldsNothing DEF Parts
<1>5. place' = [w \in Values |-> IF w = handles[h].holds THEN Lost ELSE place[w]]
  BY DEF Parts, Loses
<1> QED
  BY <1>2, <1>3, <1>4, <1>5, PlaceFields, SpotsLeave

LEMMA SpotsDivides ==
  ASSUME Shape, Spots, NEW h \in Handles, NEW g \in Handles,
         DivideAtByte(h, g) \/ DivideElsewhere(h, g)
  PROVE  Spots'
<1>1. ASSUME NEW x, NEW y, NEW ok, Splits(h, g, x, y, ok), IsView(h) \/ IsSlice(h),
             x.holds = NoValue, y.holds = NoValue
      PROVE  Spots'
  BY <1>1, SpotsParts DEF Splits
<1>2. ASSUME NEW v
      PROVE  View(v).holds = NoValue /\ Slice(v).holds = NoValue
  BY DEF View, Slice, Handle
<1>4. ASSUME NEW n, NEW ok, SplitsOff(h, g, n, ok)
      PROVE  Spots'
  <2> DEFINE x == View(Front(handles[h], n))
             y == View(Back(handles[h], n))
  <2>1. Parts(h, g, x, y, ok) /\ IsView(h)
    BY <1>4 DEF SplitsOff
  <2>2. x.holds = NoValue /\ y.holds = NoValue
    BY <1>2
  <2> HIDE DEF x, y
  <2> QED
    BY <2>1, <2>2, SpotsParts
<1>5. CASE DivideAtByte(h, g)
  <2>1. ASSUME NEW n \in Counts, SplitAtByte(h, g, n)
        PROVE  Spots'
    BY <1>4, <2>1 DEF SplitAtByte
  <2>2. CASE SplitToFit(h, g)
    BY <1>4, <2>2 DEF SplitToFit
  <2> QED
    BY <1>5, <2>1, <2>2 DEF DivideAtByte
<1>6. ASSUME NEW layout, NEW type, NEW back, SplitsFor(h, g, layout, type, back)
      PROVE  Spots'
  <2> DEFINE x == View(Front(handles[h], UnitOffset(handles[h].ptr, layout.align)))
             y == Handle(As(Aligned(handles[h], layout), type), "uninit", back, NoValue)
  <2>1. Splits(h, g, x, y, ViewFits(Aligned(handles[h], layout), layout)) /\ IsView(h)
    BY <1>6 DEF SplitsFor
  <2>2. y.holds = NoValue
    BY DEF Handle
  <2>3. x.holds = NoValue
    BY <1>2
  <2> HIDE DEF x, y
  <2> QED
    BY <1>1, <2>1, <2>2, <2>3
<1>7. CASE \E layout \in Layouts : SplitLayout(h, g, layout)
  <2>1. PICK layout \in Layouts : SplitsFor(h, g, layout, Unit, FALSE)
    BY <1>7 DEF SplitLayout
  <2> DEFINE back == FALSE
  <2>2. SplitsFor(h, g, layout, Unit, back)
    BY <2>1
  <2> HIDE DEF back
  <2> QED
    BY <1>6, <2>2
<1>8. CASE \E type \in Types : SplitCast(h, g, type)
  <2>1. PICK type \in Types : SplitsFor(h, g, type, type, FALSE)
    BY <1>8 DEF SplitCast
  <2> DEFINE back == FALSE
  <2>2. SplitsFor(h, g, type, type, back)
    BY <2>1
  <2> HIDE DEF back
  <2> QED
    BY <1>6, <2>2
<1>9. CASE \E type \in Types : SplitSlice(h, g, type)
  <2>1. PICK type \in Types : SplitsFor(h, g, WithSize(type, 0), type, TRUE)
    BY <1>9 DEF SplitSlice
  <2> DEFINE back == TRUE
  <2>2. SplitsFor(h, g, WithSize(type, 0), type, back)
    BY <2>1
  <2> HIDE DEF back
  <2> QED
    BY <1>6, <2>2
<1>10. ASSUME NEW n \in Counts, SplitAt(h, g, n)
       PROVE  Spots'
  BY <1>1, <1>2, <1>10 DEF SplitAt
<1>11. CASE ShrinkToFit(h, g)
  <2> DEFINE n == Capacity(handles[h])
             x == Slice(HeadOf(handles[h], n))
             y == View(As(TailOf(handles[h], n), Unit))
             ok == SplitsAt(handles[h], n) /\ CastsToSlice(TailOf(handles[h], n), handles[h].type)
  <2>1. Splits(h, g, x, y, ok) /\ IsSlice(h)
    BY <1>11 DEF ShrinkToFit
  <2>2. x.holds = NoValue /\ y.holds = NoValue
    BY <1>2
  <2> HIDE DEF x, y, ok
  <2> QED
    BY <1>1, <2>1, <2>2
<1>12. CASE SplitFirst(h, g)
  BY <1>1, <1>2, <1>12 DEF SplitFirst
<1>13. CASE SplitLast(h, g)
  BY <1>1, <1>2, <1>13 DEF SplitLast
<1> QED
  BY <1>5, <1>7, <1>8, <1>9, <1>10, <1>11, <1>12, <1>13 DEF DivideElsewhere

\* A value that does not fit is dropped with the call, and no pointer led to it.
LEMMA SpotsBoxFails ==
  ASSUME Shape, Spots, NEW value \in Values, BoxFails(value)
  PROVE  Spots'
<1>1. /\ place[value] = WithCaller
      /\ place' = [place EXCEPT ![value] = Dropped]
      /\ handles' = handles
  BY DEF BoxFails
<1>2. place \in [Values -> Places]
  BY DEF Spots, Placed
<1>3. place' \in [Values -> Places]
  BY <1>1, <1>2, PlaceFields
<1>4. place'[value] = Dropped /\ \A w \in Values : w # value => place'[w] = place[w]
  BY <1>1, <1>2
<1>5. ASSUME NEW h \in Handles, handles[h].holds # NoValue
      PROVE  handles[h].holds # value
  <2>1. place[handles[h].holds] = InMemory(handles[h].ptr)
    BY <1>5 DEF Spots, Placed, Reaches
  <2>2. InMemory(handles[h].ptr).state = "memory" /\ WithCaller.state # "memory"
    BY DEF InMemory, WithCaller
  <2> QED
    BY <1>1, <2>1, <2>2
<1>6. Reaches'
  <2> SUFFICES ASSUME NEW h \in Handles, handles[h].holds # NoValue
               PROVE  /\ place'[handles[h].holds] = InMemory(handles[h].ptr)
                      /\ handles[h].type = TypeOf[handles[h].holds]
                      /\ \A g \in Handles : handles[g].holds = handles[h].holds => g = h
    BY <1>1 DEF Reaches
  <2>1. /\ place[handles[h].holds] = InMemory(handles[h].ptr)
        /\ handles[h].type = TypeOf[handles[h].holds]
        /\ \A g \in Handles : handles[g].holds = handles[h].holds => g = h
    BY DEF Spots, Placed, Reaches
  <2>2. place' = [w \in Values |-> IF w = value THEN Dropped ELSE place[w]]
    BY <1>1, <1>2
  <2>3. handles[h].holds \in Values
    BY DEF Shape, Formed, HandleSet
  <2> QED
    BY <1>4, <1>5, <2>1, <2>3
<1>7. Managed'
  BY <1>1, <1>4, PlaceFields DEF Spots, Placed, Managed
<1> QED
  BY <1>3, <1>6, <1>7 DEF Spots, Placed

\* The stack slot has one element more than was asked for, which is no smaller
\* than the padding in front of the first.
LEMMA SlotIsEnough ==
  ASSUME Calm, NEW type \in Types, NEW n \in Counts, NEW base \in Nat,
         n * type.size > 0, NEW s \in Ladder, IsSlot(s, Required(type, n)),
         Unwrap(AlignOffset(base, type.align) + n * type.size <= s)
  PROVE  Calm'
<1>1. /\ n \in Nat /\ base \in Nat
      /\ type.size \in Nat /\ type.align \in Nat \ {0}
  BY CountAssumption, TypeFields DEF Counts
<1>2. n * type.size \in Nat
  BY <1>1
<1>3. type.size > 0
  BY <1>1, <1>2
<1>4. AlignOffset(base, type.align) \in 0 .. type.align - 1
  BY <1>1, PaddingAligns
<1>5. type.align <= type.size
  BY <1>3, AlignWithinSize
<1>6. Required(type, n) = n * type.size + type.size
  BY <1>1 DEF Required
<1>7. s \in Nat /\ n * type.size + type.size <= s
  BY <1>6, BoxesAssumption DEF IsSlot
<1>8. AlignOffset(base, type.align) + n * type.size <= s
  BY <1>1, <1>2, <1>4, <1>5, <1>7
<1> QED
  BY <1>8, UnwrapIsCalm

LEMMA AllocaIsCalm ==
  ASSUME Calm, NEW type \in Types, NEW n \in Counts, NEW base \in 0 .. type.align - 1,
         RunAlloca(type, n, base)
  PROVE  Calm'
<1>1. base \in Nat
  BY TypeFields
<1>2. CASE n * type.size > 0 /\ \E s \in Ladder :
             /\ IsSlot(s, Required(type, n))
             /\ Unwrap(AlignOffset(base, type.align) + n * type.size <= s)
  BY <1>1, <1>2, SlotIsEnough
<1>3. CASE UNCHANGED broken
  BY <1>3 DEF Calm
<1> QED
  BY <1>2, <1>3 DEF RunAlloca

------------------------------------------------------------------------------
(* The invariant *)

\* Where a value is said to be is a place, whatever was written over it.
LEMMA PlacedAfterWrite ==
  ASSUME Placed, NEW p, NEW type
  PROVE  AfterWrite(p, type) \in [Values -> Places]
  BY PlaceFields DEF Placed, AfterWrite

LEMMA PlacedLoses ==
  ASSUME Placed, NEW h, Loses(h)
  PROVE  Placed'
  BY PlaceFields DEF Placed, Loses

LEMMA PlacedConverts ==
  ASSUME Placed, NEW h \in Handles, Convert(h)
  PROVE  Placed' /\ strayed' = strayed
<1>1. ASSUME NEW x, NEW ok, Converts(h, x, ok)
      PROVE  Placed' /\ strayed' = strayed
  BY <1>1, PlacedLoses DEF Converts, Becomes
<1>2. ASSUME NEW x, Keeps(h, x)
      PROVE  Placed' /\ strayed' = strayed
  BY <1>2 DEF Placed, Keeps, Becomes
<1>3. ASSUME NEW type \in Types, Cast(h, type) \/ CastSlice(h, type)
      PROVE  Placed' /\ strayed' = strayed
  BY <1>1, <1>3 DEF Cast, CastSlice
<1>4. CASE AsMemory(h) \/ IntoMaybeUninit(h) \/ FromMaybeUninit(h) \/ FromMaybeUninitSlice(h)
  BY <1>1, <1>4 DEF AsMemory, IntoMaybeUninit, FromMaybeUninit, FromMaybeUninitSlice
<1>5. CASE FromUninit(h) \/ IntoPin(h)
  BY <1>2, <1>5 DEF FromUninit, IntoPin
<1> QED
  BY <1>3, <1>4, <1>5 DEF Convert

LEMMA PlacedMovesIn ==
  ASSUME Shape, Placed, NEW h \in Handles, MoveIn(h)
  PROVE  Placed' /\ strayed' = strayed
<1> PICK value \in Values : InitView(h, value) \/ BoxNew(h, value) \/ Write(h, value)
  BY DEF MoveIn
<1>1. Stores(h, value) /\ strayed' = strayed
  BY DEF InitView, BoxNew, Write, Becomes
<1>2. InMemory(handles[h].ptr) \in Places /\ Lost \in Places
  BY InUseFields, PlaceFields
<1>3. AfterWrite(handles[h].ptr, handles[h].type) \in [Values -> Places]
  BY PlacedAfterWrite
<1> QED
  BY <1>1, <1>2, <1>3 DEF Stores, Placed

LEMMA PlacedHandsOver ==
  ASSUME Placed, NEW h \in Handles, HandOver(h)
  PROVE  Placed' /\ strayed' = strayed
<1>1. ASSUME NEW x, Keeps(h, x)
      PROVE  Placed' /\ strayed' = strayed
  BY <1>1 DEF Placed, Keeps, Becomes
<1>2. CASE BoxIntoRaw(h) \/ BoxFromRaw(h) \/ BoxLeak(h) \/ LeakIntoRaw(h)
  BY <1>1, <1>2 DEF BoxIntoRaw, BoxFromRaw, BoxLeak, LeakIntoRaw
<1>3. CASE LeakFromRaw(h) \/ FromMutUnchecked(h) \/ Leak(h)
  BY <1>1, <1>3 DEF LeakFromRaw, FromMutUnchecked, Leak
<1>4. CASE BoxDrop(h) \/ LeakDrop(h)
  BY <1>4, PlaceFields DEF BoxDrop, LeakDrop, DropsInPlace, Becomes, Placed
<1>5. CASE Forget(h)
  BY <1>5, PlacedLoses DEF Forget, Becomes
<1>6. CASE BoxTake(h) \/ Take(h)
  BY <1>6, PlaceFields DEF BoxTake, Take, Becomes, Placed
<1> QED
  BY <1>2, <1>3, <1>4, <1>5, <1>6 DEF HandOver

LEMMA PlacedAllocate ==
  ASSUME Shape, Placed, NEW h \in Handles, Allocate(h)
  PROVE  Placed' /\ strayed' = strayed
<1>1. CASE \/ \E layout \in Layouts : AllocLayout(h, layout) \/ AllocRc(h, layout)
           \/ \E type \in Types : AllocT(h, type)
  <2>1. place' = place /\ strayed' = strayed
    BY <1>1 DEF AllocLayout, AllocRc, AllocT, Allocates
  <2> QED
    BY <2>1 DEF Placed
<1>2. ASSUME NEW type \in Types, NEW n \in Counts, FixedVec(h, type, n) \/ CopySlice(h, type, n)
      PROVE  Placed' /\ strayed' = strayed
  <2> DEFINE layout == ArrayOf(type, n)
  <2>1. /\ place' = place \/ place' = AfterWrite(Granted(layout).ptr, layout)
        /\ strayed' = strayed
    BY <1>2 DEF FixedVec, CopySlice, Allocates
  <2> HIDE DEF layout
  <2> QED
    BY <2>1, PlacedAfterWrite DEF Placed
<1>3. ASSUME NEW value \in Values, NEW kind, Arrives(h, value, kind)
      PROVE  Placed' /\ strayed' = strayed
  <2> DEFINE type == TypeOf[value]
             p == Granted(type).ptr
  <2>1. type \in AllLayouts
    BY BoxesAssumption, TypeFields
  <2>2. /\ Available(type) /\ strayed' = strayed
        /\ place' = [AfterWrite(p, type) EXCEPT ![value] = InMemory(p)]
    BY <1>3 DEF Arrives, Allocates
  <2>3. p \in Nat
    BY <2>1, <2>2, GrantedMemory DEF Shape, Formed
  <2>4. InMemory(p) \in Places
    BY <2>3, PlaceFields
  <2>5. AfterWrite(p, type) \in [Values -> Places]
    BY PlacedAfterWrite
  <2> HIDE DEF p, type
  <2> QED
    BY <2>2, <2>4, <2>5 DEF Placed
<1>4. CASE \E value \in Values : Boxed(h, value) \/ LeakBoxed(h, value)
  BY <1>3, <1>4 DEF Boxed, LeakBoxed
<1> QED
  BY <1>1, <1>2, <1>4 DEF Allocate

LEMMA PlacedSplits ==
  ASSUME Placed, NEW h, NEW g, NEW x, NEW y, NEW ok, Splits(h, g, x, y, ok)
  PROVE  Placed' /\ strayed' = strayed
  BY PlacedLoses DEF Splits, Parts

LEMMA PlacedDivides ==
  ASSUME Placed, NEW h \in Handles, NEW g \in Handles, DivideElsewhere(h, g)
  PROVE  Placed' /\ strayed' = strayed
<1>1. CASE \E n \in Counts : SplitAt(h, g, n)
  BY <1>1, PlacedSplits DEF SplitAt
<1>2. CASE ShrinkToFit(h, g)
  BY <1>2, PlacedSplits DEF ShrinkToFit
<1>3. CASE SplitFirst(h, g) \/ SplitLast(h, g)
  BY <1>3, PlacedSplits DEF SplitFirst, SplitLast
<1>4. ASSUME NEW layout, NEW type, NEW back, SplitsFor(h, g, layout, type, back)
      PROVE  Placed' /\ strayed' = strayed
  BY <1>4, PlacedSplits DEF SplitsFor
<1>5. CASE \E layout \in Layouts : SplitLayout(h, g, layout)
  BY <1>4, <1>5 DEF SplitLayout
<1>6. CASE \E type \in Types : SplitCast(h, g, type) \/ SplitSlice(h, g, type)
  BY <1>4, <1>6 DEF SplitCast, SplitSlice
<1> QED
  BY <1>1, <1>2, <1>3, <1>5, <1>6 DEF DivideElsewhere

LEMMA PlacedDividesAtByte ==
  ASSUME Placed, NEW h \in Handles, NEW g \in Handles, DivideAtByte(h, g)
  PROVE  Placed' /\ (strayed => strayed')
<1>1. ASSUME NEW n, NEW ok, SplitsOff(h, g, n, ok)
      PROVE  Placed' /\ (strayed => strayed')
  BY <1>1, PlacedLoses DEF SplitsOff, Parts
<1> QED
  BY <1>1 DEF DivideAtByte, SplitAtByte, SplitToFit

BoxesInv ==
  /\ Shape
  /\ Placed
  /\ Calm
  /\ strayed \/ Spots

LEMMA Starts == Init => BoxesInv
<1> SUFFICES ASSUME Init PROVE BoxesInv
  OBVIOUS
<1>1. \A h \in Handles : handles[h] = Vacant
  BY DEF Init
<1>2. Shape
  <2>1. /\ level \in 0 .. Length
        /\ strayed \in BOOLEAN
        /\ handles \in [Handles -> HandleSet]
    <3>1. level \in 0 .. Length
      BY ArenaAssumption DEF Init
    <3>2. strayed \in BOOLEAN
      BY DEF Init
    <3>3. handles \in [Handles -> HandleSet]
      BY VacantFields DEF Init
    <3> QED
      BY <3>1, <3>2, <3>3
  <2>2. \A h \in Handles : handles[h].len = 0 /\ handles[h].len <= Length
    BY <1>1, VacantFields, ArenaAssumption
  <2>3. Formed
    BY <1>1, <2>1, <2>2 DEF Formed
  <2>4. InPlace
    BY <2>2 DEF InPlace, Apart
  <2> QED
    BY <2>3, <2>4 DEF Shape
<1>3. Spots
  BY <1>1, VacantFields, PlaceFields DEF Init, Spots, Placed, Reaches, Managed
<1> QED
  BY <1>2, <1>3 DEF BoxesInv, Calm, Init, Spots

LEMMA Continues == BoxesInv /\ [Next]_vars => BoxesInv'
<1> SUFFICES ASSUME BoxesInv, [Next]_vars PROVE BoxesInv'
  OBVIOUS
<1>1. Shape /\ Placed /\ Calm /\ (strayed \/ (InPlace /\ Spots))
  BY DEF BoxesInv, Shape
<1>2. CASE UNCHANGED vars
  BY <1>2 DEF vars, BoxesInv, Shape, Formed, InPlace, Apart, Fitting, Placed, Spots, Reaches,
              Managed, Calm
<1> DEFINE Kept == Shape' /\ Placed' /\ Calm' /\ (strayed' \/ Spots')
<1>3. ASSUME NEW h \in Handles, Allocate(h)
      PROVE  Kept
  <2>1. Shape' /\ Calm'
    BY <1>1, <1>3, ShapeAllocate
  <2>2. Placed' /\ strayed' = strayed
    BY <1>1, <1>3, PlacedAllocate
  <2>3. strayed \/ Spots'
    BY <1>1, <1>3, SpotsAllocate
  <2> QED
    BY <2>1, <2>2, <2>3
<1>4. ASSUME NEW h \in Handles, Convert(h)
      PROVE  Kept
  <2>1. Shape' /\ Calm'
    BY <1>1, <1>4, ShapeConverts
  <2>2. Placed' /\ strayed' = strayed
    BY <1>1, <1>4, PlacedConverts
  <2>3. strayed \/ Spots'
    BY <1>1, <1>4, SpotsConverts
  <2> QED
    BY <2>1, <2>2, <2>3
<1>5. ASSUME NEW h \in Handles, MoveIn(h)
      PROVE  Kept
  <2>1. Shape' /\ Calm'
    BY <1>1, <1>5, ShapeMovesIn
  <2>2. Placed' /\ strayed' = strayed
    BY <1>1, <1>5, PlacedMovesIn
  <2>3. strayed \/ Spots'
    BY <1>1, <1>5, SpotsMovesIn
  <2> QED
    BY <2>1, <2>2, <2>3
<1>6. ASSUME NEW h \in Handles, HandOver(h)
      PROVE  Kept
  <2>1. Shape' /\ Calm'
    BY <1>1, <1>6, ShapeHandsOver
  <2>2. Placed' /\ strayed' = strayed
    BY <1>1, <1>6, PlacedHandsOver
  <2>3. strayed \/ Spots'
    BY <1>1, <1>6, SpotsHandsOver
  <2> QED
    BY <2>1, <2>2, <2>3
<1>7. ASSUME NEW h \in Handles, NEW g \in Handles, DivideElsewhere(h, g)
      PROVE  Kept
  <2>1. Shape' /\ Calm'
    BY <1>1, <1>7, ShapeDividesElsewhere
  <2>2. Placed' /\ strayed' = strayed
    BY <1>1, <1>7, PlacedDivides
  <2>3. strayed \/ Spots'
    BY <1>1, <1>7, SpotsDivides
  <2> QED
    BY <2>1, <2>2, <2>3
<1>8. ASSUME NEW h \in Handles, NEW g \in Handles, DivideAtByte(h, g)
      PROVE  Kept
  <2>1. Shape' /\ Calm'
    BY <1>1, <1>8, ShapeDividesAtByte
  <2>2. Placed' /\ (strayed => strayed')
    BY <1>1, <1>8, PlacedDividesAtByte
  <2>3. strayed \/ Spots'
    BY <1>1, <1>8, SpotsDivides
  <2> QED
    BY <2>1, <2>2, <2>3
<1>9. ASSUME NEW value \in Values, BoxFails(value)
      PROVE  Kept
  <2>1. strayed \/ Spots'
    BY <1>1, <1>9, SpotsBoxFails
  <2>2. UNCHANGED <<level, handles, broken, strayed>>
    BY <1>9 DEF BoxFails
  <2>3. Placed'
    BY <1>1, <1>9, PlaceFields DEF BoxFails, Placed
  <2> QED
    BY <1>1, <2>1, <2>2, <2>3 DEF Shape, Formed, InPlace, Apart, Fitting, Calm
<1>10. ASSUME NEW type \in Types, NEW n \in Counts, NEW base \in 0 .. type.align - 1,
              RunAlloca(type, n, base)
       PROVE  Kept
  <2>1. Calm'
    BY <1>1, <1>10, AllocaIsCalm
  <2>2. UNCHANGED <<level, handles, place, strayed>>
    BY <1>10 DEF RunAlloca
  <2> QED
    BY <1>1, <2>1, <2>2 DEF Shape, Formed, InPlace, Apart, Fitting, Placed, Spots, Reaches, Managed
<1>11. CASE Next
  <2>1. Kept
    BY <1>3, <1>4, <1>5, <1>6, <1>7, <1>8, <1>9, <1>10, <1>11 DEF Next
  <2> QED
    BY <2>1 DEF BoxesInv
<1> QED
  BY <1>2, <1>11

\* Pointers are valid and no check has failed; until one strays they are apart
\* and within what the arena handed out, and values are where they are looked
\* for.  For any arena, any types and any number of pointers and values.
THEOREM BoxesInvariant == Spec => []BoxesInv
<1>1. Init => BoxesInv
  BY Starts
<1>2. BoxesInv /\ [Next]_vars => BoxesInv'
  BY Continues
<1> QED
  BY <1>1, <1>2, PTL DEF Spec

\* Through every allocation, split, cast and conversion a pointer stays aligned
\* and large enough for its type, and within what the arena handed out unless
\* split_at_byte took it elsewhere.
THEOREM BoxesViewsValid == Spec => []ViewsValid
<1>1. BoxesInv => ViewsValid
  BY ShapeIsValid DEF BoxesInv, Shape, Formed, HandleSet, Placed, Calm, ViewsValid, TypeOK
<1> QED
  BY <1>1, BoxesInvariant, PTL

\* No byte belongs to two pointers, unless split_at_byte made them.
THEOREM BoxesDisjoint == Spec => []Disjoint
<1>1. BoxesInv => Disjoint
  BY ShapeIsValid DEF BoxesInv
<1> QED
  BY <1>1, BoxesInvariant, PTL

\* The unwraps in alloc_t, boxed, fixed_vec, copy_slice, split_to_fit, split_cast,
\* shrink_to_fit, split_first, split_last and Alloca::run always succeed: whatever
\* split_at_byte does to a pointer, none of them notices.
THEOREM BoxesChecksHold == Spec => []ChecksHold
<1>1. BoxesInv => ChecksHold
  BY DEF BoxesInv, Calm, ChecksHold
<1> QED
  BY <1>1, BoxesInvariant, PTL

\* Every pointer that leads to a value leads to a whole one that is there, and
\* alone; every value in memory has such a pointer.  That holds until a split at
\* a byte strays.
THEOREM BoxesValuesSafe == Spec => []ValuesSafe
<1>1. BoxesInv => ValuesSafe
  BY DEF BoxesInv, Spots, ValuesSafe
<1> QED
  BY <1>1, BoxesInvariant, PTL

\* No split loses a byte, a straying one excepted.
THEOREM BoxesSplitsConserve == Spec => SplitsConserve
<1>1. BoxesInv /\ [Next]_vars
        => [\A h, g \in Handles :
              /\ DivideElsewhere(h, g) => InUse' = InUse
              /\ DivideAtByte(h, g) => InUse' = InUse \/ strayed']_vars
  BY ShapeDividesElsewhere, ShapeDividesAtByte DEF BoxesInv
<1> QED
  BY <1>1, BoxesInvariant, PTL DEF Spec, SplitsConserve

\* A split at a byte strays only if it leaves something in front, and the view is
\* not one of single bytes.
LEMMA StrayingSplit ==
  ASSUME Shape, NEW h \in Handles, NEW n \in Nat, Strays(handles[h], n)
  PROVE  n > 0 /\ handles[h].type.size # 1
<1> DEFINE v == handles[h]
<1>1. v.ptr \in Nat /\ v.type \in Types
  BY InUseFields
<1>2. v.type.size \in Nat
  BY <1>1, TypeFields
<1>3. v.ptr + n * v.type.size # v.ptr + n
  BY DEF Strays, FirstByte, EndOfView, Front, Back, FromMemory, ViewAt
<1>4. n # 0
  BY <1>1, <1>2, <1>3
<1>5. v.type.size # 1
  <2> SUFFICES ASSUME v.type.size = 1 PROVE FALSE
    OBVIOUS
  <2>1. n * 1 = n
    OBVIOUS
  <2> QED
    BY <1>3, <2>1
<1> QED
  BY <1>4, <1>5

\* What the code does about memory is right as long as nobody splits a view at a
\* byte that is not its first, of a type that is not of size one: the first split
\* that strays is split_at_byte or split_to_fit of such a view.
THEOREM BoxesStrayOnlyAtByte ==
  Spec => [][~ strayed /\ strayed' =>
               \E h, g \in Handles :
                 /\ handles[h].type.size # 1
                 /\ \/ SplitToFit(h, g) /\ handles[h].type.size > 1
                    \/ \E n \in Counts : n > 0 /\ SplitAtByte(h, g, n)]_vars
<1> DEFINE Astray ==
             \E h, g \in Handles :
               /\ handles[h].type.size # 1
               /\ \/ SplitToFit(h, g) /\ handles[h].type.size > 1
                  \/ \E n \in Counts : n > 0 /\ SplitAtByte(h, g, n)
<1>1. ASSUME BoxesInv, Next, ~ strayed, strayed'
      PROVE  Astray
  <2>1. Shape /\ Placed
    BY <1>1 DEF BoxesInv
  <2>2. PICK h \in Handles, g \in Handles : DivideAtByte(h, g)
    BY <1>1, <2>1, PlacedAllocate, PlacedConverts, PlacedMovesIn, PlacedHandsOver,
       PlacedDivides DEF Next, BoxFails, RunAlloca
  <2>3. handles[h].type.size \in Nat
    BY <2>1, InUseFields, TypeFields
  <2>4. ASSUME NEW n, NEW ok, SplitsOff(h, g, n, ok)
        PROVE  Strays(handles[h], n)
    BY <1>1, <2>4 DEF SplitsOff
  <2>5. CASE SplitToFit(h, g)
    <3>1. Strays(handles[h], handles[h].type.size)
      BY <2>4, <2>5 DEF SplitToFit
    <3>2. handles[h].type.size > 0 /\ handles[h].type.size # 1
      BY <2>1, <2>3, <3>1, StrayingSplit
    <3> QED
      BY <2>3, <2>5, <3>2
  <2>6. CASE \E n \in Counts : SplitAtByte(h, g, n)
    <3>1. PICK n \in Counts : SplitAtByte(h, g, n)
      BY <2>6
    <3>2. Strays(handles[h], n)
      BY <2>4, <3>1 DEF SplitAtByte
    <3>3. n \in Nat
      BY <3>1, CountAssumption DEF Counts
    <3>4. n > 0 /\ handles[h].type.size # 1
      BY <2>1, <3>2, <3>3, StrayingSplit
    <3> QED
      BY <3>1, <3>4
  <2> QED
    BY <2>2, <2>5, <2>6 DEF DivideAtByte
<1>2. BoxesInv /\ [Next]_vars => [~ strayed /\ strayed' => Astray]_vars
  BY <1>1
<1> QED
  BY <1>2, BoxesInvariant, PTL DEF Spec

\* Room for a layout, where the memory is aligned to begin with.
LEMMA AlignedRoom ==
  ASSUME NEW v, v.ptr \in Nat, v.len \in Nat, NEW layout \in AllLayouts,
         v.ptr % layout.align = 0
  PROVE  RoomIn(v, layout) <=> layout.size <= v.len
<1>1. layout.size \in Nat /\ layout.align \in Nat \ {0}
  BY DEF AllLayouts
<1>2. ASSUME layout.size <= v.len
      PROVE  RoomIn(v, layout)
  <2>1. v.ptr \in v.ptr .. v.ptr + v.len /\ v.ptr + layout.size <= v.ptr + v.len
    BY <1>1, <1>2
  <2> QED
    BY <2>1 DEF RoomIn, FirstByte, EndOfView
<1>3. ASSUME RoomIn(v, layout)
      PROVE  layout.size <= v.len
  <2>1. PICK p \in v.ptr .. v.ptr + v.len : p + layout.size <= v.ptr + v.len
    BY <1>3 DEF RoomIn, FirstByte, EndOfView
  <2>2. p \in Nat /\ p >= v.ptr
    BY <2>1
  <2> QED
    BY <1>1, <2>1, <2>2
<1> QED
  BY <1>2, <1>3

\* How far split_layout, split_cast and split_slice keep their promise: they find
\* room exactly where there is some and the memory is aligned to begin with.
THEOREM BoxesRefuseOnlyUnaligned ==
  Spec => [](\A h \in Handles : handles[h].kind = "uninit" =>
               \A layout \in Layouts \cup Types :
                 SplitsLayout(As(handles[h], Unit), layout) <=>
                   /\ RoomIn(handles[h], layout)
                   /\ handles[h].ptr % layout.align = 0)
<1>1. ASSUME BoxesInv, NEW h \in Handles, NEW layout \in Layouts \cup Types
      PROVE  SplitsLayout(As(handles[h], Unit), layout) <=>
               /\ RoomIn(handles[h], layout)
               /\ handles[h].ptr % layout.align = 0
  <2> DEFINE v == handles[h]
  <2>1. layout \in AllLayouts
    BY LayoutsAreLayouts, TypeFields
  <2>2. v.ptr \in Nat /\ v.len \in Nat /\ v.len < MaxUsize
    BY <1>1, InUseFields DEF BoxesInv
  <2>3. layout.size \in Nat /\ MaxUsize \in Nat
    BY <2>1, ViewAssumption DEF AllLayouts
  <2>4. /\ As(v, Unit).ptr = v.ptr /\ As(v, Unit).len = v.len
        /\ As(v, Unit).type.size = 0
    BY UnitFields DEF As, ViewAt
  <2> HIDE DEF v
  <2>5. CASE v.ptr % layout.align = 0
    <3>1. UnitOffset(v.ptr, layout.align) = 0
      BY <2>5 DEF UnitOffset
    <3>2. SplitsLayout(As(v, Unit), layout) <=> layout.size <= v.len
      BY <2>2, <2>3, <2>4, <3>1 DEF SplitsLayout, SplitsAtByte
    <3>3. RoomIn(v, layout) <=> layout.size <= v.len
      BY <2>1, <2>2, <2>5, AlignedRoom
    <3> QED
      BY <2>5, <3>2, <3>3 DEF v
  <2>6. CASE v.ptr % layout.align # 0
    <3>1. UnitOffset(v.ptr, layout.align) = MaxUsize
      BY <2>6 DEF UnitOffset
    <3>2. ~ SplitsLayout(As(v, Unit), layout)
      BY <2>2, <2>3, <2>4, <3>1 DEF SplitsLayout
    <3> QED
      BY <2>6, <3>2 DEF v
  <2> QED
    BY <2>5, <2>6
<1>2. BoxesInv => \A h \in Handles : handles[h].kind = "uninit" =>
                    \A layout \in Layouts \cup Types :
                      SplitsLayout(As(handles[h], Unit), layout) <=>
                        /\ RoomIn(handles[h], layout)
                        /\ handles[h].ptr % layout.align = 0
  BY <1>1
<1> QED
  BY <1>2, BoxesInvariant, PTL
==============================================================================

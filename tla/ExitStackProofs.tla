-------------------------- MODULE ExitStackProofs --------------------------
(***************************************************************************)
(* The exit stack keeps its list intact for any values, layouts and order  *)
(* of calls, and keeps the guarantee that makes pinning to it sound as     *)
(* long as no destructor panics.                                           *)
(***************************************************************************)
EXTENDS ExitStack, ArenaProofs, SequenceTheorems

\* What ListIsStack says of a list, for any sequence s, head and links.
Chained(s, head, links) ==
  /\ head = IF Len(s) = 0 THEN Nil ELSE s[Len(s)]
  /\ \A i \in 1 .. Len(s) : /\ links[s[i]] = IF i = 1 THEN Nil ELSE s[i - 1]
                            /\ \A j \in 1 .. i - 1 : s[i] # s[j]

LEMMA EmptyChained ==
  ASSUME NEW links
  PROVE  Chained(<<>>, Nil, links)
  BY DEF Chained

\* Prepending a value whose name is not on the list.
LEMMA PushChained ==
  ASSUME NEW s \in Seq(Values), NEW head, NEW links \in [Values -> Values \cup {Nil}],
         Chained(s, head, links), NEW v \in Values, head \in Values \cup {Nil},
         \A i \in 1 .. Len(s) : s[i] # v
  PROVE  Chained(Append(s, v), v, [links EXCEPT ![v] = head])
<1> DEFINE t == Append(s, v)
           new == [links EXCEPT ![v] = head]
<1>1. /\ t \in Seq(Values) /\ Len(t) = Len(s) + 1 /\ Len(s) \in Nat
      /\ \A i \in 1 .. Len(s) : t[i] = s[i]
      /\ t[Len(s) + 1] = v
  BY AppendProperties, LenProperties
<1>2. \A i \in 1 .. Len(s) : s[i] \in Values
  BY ElementOfSeq
<1>3. \A i \in 1 .. Len(s) : new[t[i]] = IF i = 1 THEN Nil ELSE t[i - 1]
  <2> SUFFICES ASSUME NEW i \in 1 .. Len(s)
               PROVE  new[t[i]] = IF i = 1 THEN Nil ELSE t[i - 1]
    OBVIOUS
  <2>1. new[t[i]] = links[s[i]]
    BY <1>1, <1>2
  <2>2. i # 1 => t[i - 1] = s[i - 1]
    BY <1>1
  <2> QED
    BY <2>1, <2>2 DEF Chained
<1>4. new[v] = IF Len(s) + 1 = 1 THEN Nil ELSE t[Len(s)]
  <2>1. new[v] = head
    OBVIOUS
  <2>2. Len(s) # 0 => t[Len(s)] = s[Len(s)]
    BY <1>1
  <2> QED
    BY <1>1, <2>1, <2>2 DEF Chained
<1>5. \A i \in 1 .. Len(t) : \A j \in 1 .. i - 1 : t[i] # t[j]
  <2> SUFFICES ASSUME NEW i \in 1 .. Len(t), NEW j \in 1 .. i - 1
               PROVE  t[i] # t[j]
    OBVIOUS
  <2>1. j \in 1 .. Len(s) /\ t[j] = s[j]
    BY <1>1
  <2>2. CASE i = Len(s) + 1
    BY <1>1, <2>1, <2>2
  <2>3. CASE i # Len(s) + 1
    <3>1. i \in 1 .. Len(s) /\ t[i] = s[i]
      BY <1>1, <2>3
    <3> QED
      BY <2>1, <3>1 DEF Chained
  <2> QED
    BY <2>2, <2>3
<1> HIDE DEF t, new
<1>6. Chained(t, v, new)
  <2>1. v = IF Len(t) = 0 THEN Nil ELSE t[Len(t)]
    BY <1>1
  <2>2. \A i \in 1 .. Len(t) : new[t[i]] = IF i = 1 THEN Nil ELSE t[i - 1]
    <3> SUFFICES ASSUME NEW i \in 1 .. Len(t)
                 PROVE  new[t[i]] = IF i = 1 THEN Nil ELSE t[i - 1]
      OBVIOUS
    <3>1. CASE i = Len(s) + 1
      BY <1>1, <1>4, <3>1
    <3>2. CASE i # Len(s) + 1
      BY <1>1, <1>3, <3>2
    <3> QED
      BY <3>1, <3>2
  <2> QED
    BY <1>5, <2>1, <2>2 DEF Chained
<1> QED
  BY <1>6 DEF t, new

\* Taking the newest value off the list.
LEMMA PopChained ==
  ASSUME NEW s \in Seq(Values), NEW head \in Values, NEW links,
         Chained(s, head, links), Nil \notin Values
  PROVE  /\ Len(s) # 0 /\ s[Len(s)] = head
         /\ SubSeq(s, 1, Len(s) - 1) \in Seq(Values)
         /\ Len(SubSeq(s, 1, Len(s) - 1)) = Len(s) - 1
         /\ \A i \in 1 .. Len(s) - 1 : /\ SubSeq(s, 1, Len(s) - 1)[i] = s[i]
                                       /\ s[i] # head
         /\ Chained(SubSeq(s, 1, Len(s) - 1), links[head], links)
<1> DEFINE n == Len(s) - 1
           t == SubSeq(s, 1, n)
<1>1. Len(s) \in Nat /\ Len(s) # 0 /\ s[Len(s)] = head
  BY LenProperties DEF Chained
<1>2. \A i \in 1 .. n : s[i] \in Values
  BY <1>1, ElementOfSeq
<1>3. /\ t \in Seq(Values) /\ Len(t) = n
      /\ \A i \in 1 .. n : t[i] = s[i]
  <2>1. n \in Int /\ n >= 0
    BY <1>1
  <2>2. /\ t \in Seq(Values) /\ Len(t) = IF 1 <= n THEN n - 1 + 1 ELSE 0
        /\ \A i \in 1 .. n - 1 + 1 : t[i] = s[1 + i - 1]
    BY <1>2, <2>1, SubSeqProperties
  <2> HIDE DEF n, t
  <2>3. Len(t) = n
    BY <2>1, <2>2
  <2>4. \A i \in 1 .. n : 1 + i - 1 = i /\ i \in 1 .. n - 1 + 1
    BY <2>1
  <2> QED
    BY <2>2, <2>3, <2>4
<1>4. \A i \in 1 .. n : s[i] # head
  BY <1>1 DEF Chained
<1>5. links[head] = IF n = 0 THEN Nil ELSE s[n]
  <2>1. Len(s) \in 1 .. Len(s)
    BY <1>1
  <2>2. links[s[Len(s)]] = IF Len(s) = 1 THEN Nil ELSE s[Len(s) - 1]
    BY <2>1 DEF Chained
  <2> QED
    BY <1>1, <2>2
<1> HIDE DEF t
<1>6. Chained(t, links[head], links)
  <2>1. n \in Nat /\ n < Len(s)
    BY <1>1
  <2> USE DEF Chained
  <2>2. links[head] = IF Len(t) = 0 THEN Nil ELSE t[Len(t)]
    BY <1>3, <1>5, <2>1
  <2>3. ASSUME NEW i \in 1 .. Len(t)
        PROVE  /\ links[t[i]] = IF i = 1 THEN Nil ELSE t[i - 1]
               /\ \A j \in 1 .. i - 1 : t[i] # t[j]
    <3>1. i \in 1 .. Len(s) /\ i \in 1 .. n /\ t[i] = s[i]
      BY <1>3, <2>1
    <3>2. i # 1 => t[i - 1] = s[i - 1]
      BY <1>3, <2>1, <3>1
    <3>3. \A j \in 1 .. i - 1 : t[j] = s[j]
      BY <1>3, <2>1, <3>1
    <3> QED
      BY <3>1, <3>2, <3>3
  <2> QED
    BY <2>2, <2>3
<1> QED
  BY <1>1, <1>3, <1>4, <1>6 DEF t

LEMMA ListIsChained ==
  ListIsStack <=>
    /\ Chained(entries, First, link)
    /\ \A i \in 1 .. Len(entries) : entries[i] \in live \ reserved
  BY DEF ListIsStack, Chained, Below

------------------------------------------------------------------------------
(* ExitInv is inductive *)

\* Where a slot lies, for any of the functions of a state.
LEMMA Placed ==
  ASSUME NEW v \in Values, NEW level \in 0 .. Length, Fits(level, LayoutOf[v])
  PROVE  /\ StartOf(level, LayoutOf[v]) \in Nat
         /\ StartOf(level, LayoutOf[v]) >= level
         /\ EndOf(level, LayoutOf[v]) = StartOf(level, LayoutOf[v]) + LayoutOf[v].size
         /\ EndOf(level, LayoutOf[v]) \in 0 .. Length
         /\ EndOf(level, LayoutOf[v]) >= level
<1>1. LayoutOf[v] \in Layouts /\ level \in Nat /\ Length \in Nat
  BY ExitStackAssumption, ArenaAssumption
<1>2. EndOf(level, LayoutOf[v]) <= Length
  BY <1>1, FitsIsEnd
<1>3. /\ StartOf(level, LayoutOf[v]) \in Nat
      /\ StartOf(level, LayoutOf[v]) >= level
      /\ EndOf(level, LayoutOf[v]) \in Nat
      /\ EndOf(level, LayoutOf[v]) > StartOf(level, LayoutOf[v])
  BY <1>1, Placement
<1> QED
  BY <1>1, <1>2, <1>3 DEF EndOf

LEMMA Sizes ==
  ASSUME NEW v \in Values
  PROVE  LayoutOf[v].size \in Nat \ {0}
  BY ExitStackAssumption, LayoutFields

LEMMA ExitInit == Init => ExitInv
<1> SUFFICES ASSUME Init
             PROVE  ExitInv
  OBVIOUS
<1> USE DEF Init
<1>1. TypeOK
  <2>1. NoCall \in Calls
    BY DEF NoCall, Calls
  <2>2. entries \in Seq(Values)
    BY EmptySeq
  <2>3. at \in [Values -> Nat] /\ link \in [Values -> Values \cup {Nil}]
    OBVIOUS
  <2>4. consumed \in 0 .. Length
    BY ArenaAssumption
  <2> QED
    BY <2>1, <2>2, <2>3, <2>4 DEF TypeOK
<1>2. ListIsStack
  BY EmptyChained, ListIsChained, EmptySeq DEF First
<1>3. PinGuarantee /\ RoomForOne /\ NoneLost /\ PopsAlone
  BY DEF PinGuarantee, RoomForOne, NoneLost, PopsAlone
<1> QED
  BY <1>1, <1>2, <1>3 DEF ExitInv

LEMMA ReserveKeeps ==
  ASSUME ExitInv, NEW v \in Values, Reserve(v)
  PROVE  ExitInv'
<1> USE DEF Reserve, arena, list
<1>1. /\ consumed \in 0 .. Length /\ at \in [Values -> Nat]
      /\ live \subseteq Values /\ reserved \subseteq Values
      /\ Length \in Nat
  BY ArenaAssumption DEF ExitInv, TypeOK
<1>2. /\ consumed' = EndOf(consumed, LayoutOf[v])
      /\ at' = [at EXCEPT ![v] = StartOf(consumed, LayoutOf[v])]
  BY DEF Place
<1>3. /\ at'[v] \in Nat /\ at'[v] >= consumed
      /\ EndAt(v)' = consumed'
      /\ consumed' \in 0 .. Length /\ consumed' >= consumed
  BY <1>1, <1>2, Placed DEF EndAt
<1>4. TypeOK'
  BY <1>1, <1>2, <1>3 DEF ExitInv, TypeOK
<1>5. ListIsStack'
  BY DEF ExitInv, ListIsStack, First, Below
<1>6. PinGuarantee'
  <2> SUFFICES ASSUME ~ panicked
               PROVE  \A x \in live \cup reserved \cup {v} :
                        /\ EndAt(x)' <= consumed'
                        /\ \A w \in (live \cup reserved \cup {v}) \ {x} :
                             EndAt(x)' <= at'[w] \/ EndAt(w)' <= at'[x]
    BY DEF ExitInv, PopsAlone, PinGuarantee
  <2>1. \A x \in live \cup reserved : /\ EndAt(x) \in Nat /\ EndAt(x) <= consumed
                                      /\ at'[x] = at[x] /\ EndAt(x)' = EndAt(x)
    BY <1>1, <1>2, Sizes DEF ExitInv, PinGuarantee, EndAt
  <2>2. \A x \in live \cup reserved : EndAt(x)' <= at'[v]
    BY <1>1, <1>3, <2>1
  <2>3. \A x \in live \cup reserved \cup {v} : EndAt(x)' <= consumed'
    BY <1>1, <1>3, <2>1
  <2>4. \A x \in live \cup reserved : \A w \in (live \cup reserved) \ {x} :
           EndAt(x)' <= at'[w] \/ EndAt(w)' <= at'[x]
    BY <2>1 DEF ExitInv, PinGuarantee
  <2> QED
    BY <2>2, <2>3, <2>4
<1>7. RoomForOne' /\ NoneLost' /\ PopsAlone'
  BY DEF ExitInv, RoomForOne, NoneLost, PopsAlone
<1> QED
  BY <1>4, <1>5, <1>6, <1>7 DEF ExitInv

LEMMA ReleaseKeeps ==
  ASSUME ExitInv, NEW v \in Values, Release(v)
  PROVE  ExitInv'
<1> USE DEF Release, arena, list
<1>1. TypeOK'
  BY DEF ExitInv, TypeOK
<1>2. ListIsStack'
  BY DEF ExitInv, ListIsStack, First, Below
<1>3. PinGuarantee' /\ RoomForOne' /\ NoneLost' /\ PopsAlone'
  BY DEF ExitInv, PinGuarantee, EndAt, RoomForOne, NoneLost, PopsAlone
<1> QED
  BY <1>1, <1>2, <1>3 DEF ExitInv

\* Entering a value on the list, be it by pin or by set.
LEMMA EnterChains ==
  ASSUME ExitInv, NEW v \in Values, Enter(v),
         \A i \in 1 .. Len(entries) : entries[i] # v,
         Chained(entries, top, link), phase' # "popping", v \notin reserved',
         reserved' \subseteq reserved, panicked' = panicked
  PROVE  /\ top' \in Values /\ link' \in [Values -> Values \cup {Nil}]
         /\ live' \subseteq Values /\ entries' \in Seq(Values)
         /\ ListIsStack' /\ NoneLost'
<1> USE DEF Enter
<1>1. /\ top \in Values \cup {Nil} /\ link \in [Values -> Values \cup {Nil}]
      /\ live \subseteq Values /\ entries \in Seq(Values)
  BY DEF ExitInv, TypeOK
<1>2. \A i \in 1 .. Len(entries) : entries[i] \in live \ reserved
  BY DEF ExitInv, ListIsStack
<1>3. Chained(entries', top', link')
  BY <1>1, PushChained
<1>4. /\ entries' \in Seq(Values) /\ Len(entries') = Len(entries) + 1
      /\ Len(entries) \in Nat
      /\ \A i \in 1 .. Len(entries) : entries'[i] = entries[i]
      /\ entries'[Len(entries) + 1] = v
  BY <1>1, AppendProperties, LenProperties
<1>5. \A i \in 1 .. Len(entries') : entries'[i] \in live' \ reserved'
  BY <1>2, <1>4
<1>6. ListIsStack'
  BY <1>3, <1>5 DEF ListIsStack, Chained, First, Below
<1>7. NoneLost'
  <2> SUFFICES ASSUME ~ panicked, NEW x \in live'
               PROVE  \E i \in 1 .. Len(entries') : entries'[i] = x
    BY DEF NoneLost
  <2>1. CASE x = v
    BY <1>4, <2>1
  <2>2. CASE x \in live
    <3>1. PICK i \in 1 .. Len(entries) : entries[i] = x
      BY <2>2 DEF ExitInv, NoneLost
    <3> QED
      BY <1>4, <3>1
  <2> QED
    BY <2>1, <2>2
<1> QED
  BY <1>1, <1>4, <1>6, <1>7

LEMMA PinKeeps ==
  ASSUME ExitInv, NEW v \in Values, Pin(v)
  PROVE  ExitInv'
<1> USE DEF Pin, arena
<1>1. /\ v \in reserved /\ v \notin live /\ phase = "open"
      /\ Chained(entries, top, link)
      /\ \A i \in 1 .. Len(entries) : entries[i] # v
  BY ListIsChained DEF ExitInv, PopsAlone, ListIsStack, First
<1>2. /\ top' \in Values /\ link' \in [Values -> Values \cup {Nil}]
      /\ live' \subseteq Values /\ entries' \in Seq(Values)
      /\ ListIsStack' /\ NoneLost'
  BY <1>1, EnterChains
<1>3. TypeOK'
  BY <1>2 DEF ExitInv, TypeOK
<1>4. live' \cup reserved' = live \cup reserved
  BY <1>1 DEF Enter
<1>5. PinGuarantee'
  BY <1>1, <1>4 DEF ExitInv, PinGuarantee, EndAt
<1>6. RoomForOne' /\ PopsAlone'
  BY <1>1 DEF ExitInv, RoomForOne, PopsAlone, Enter
<1> QED
  BY <1>2, <1>3, <1>5, <1>6 DEF ExitInv

LEMMA StartKeeps ==
  ASSUME ExitInv, NEW c \in Calls, Start(c)
  PROVE  ExitInv'
<1> USE DEF Start, arena
<1>1. TypeOK'
  BY DEF ExitInv, TypeOK
<1>2. ListIsStack'
  BY DEF ExitInv, ListIsStack, First, Below
<1>3. PinGuarantee' /\ RoomForOne' /\ NoneLost' /\ PopsAlone'
  BY DEF ExitInv, PinGuarantee, EndAt, RoomForOne, NoneLost, PopsAlone
<1> QED
  BY <1>1, <1>2, <1>3 DEF ExitInv

LEMMA DropNextKeeps ==
  ASSUME ExitInv, DropNext
  PROVE  ExitInv'
<1> USE DEF DropNext, arena, list
<1>1. /\ entries \in Seq(Values) /\ chain \in Values /\ Nil \notin Values
      /\ link \in [Values -> Values \cup {Nil}] /\ phase = "popping"
      /\ Chained(entries, chain, link)
  BY ListIsChained, ExitStackAssumption DEF ExitInv, TypeOK, First
<1>2. /\ Len(entries) # 0 /\ entries[Len(entries)] = chain
      /\ entries' \in Seq(Values)
      /\ Len(entries') = Len(entries) - 1
      /\ \A i \in 1 .. Len(entries) - 1 : entries'[i] = entries[i] /\ entries[i] # chain
      /\ Chained(entries', chain', link)
  BY <1>1, PopChained
<1>3. Len(entries) \in Nat
  BY <1>1, LenProperties
<1>4. TypeOK'
  BY <1>1, <1>2 DEF ExitInv, TypeOK
<1>5. ListIsStack'
  <2>1. \A i \in 1 .. Len(entries') : entries'[i] \in live' \ reserved'
    BY <1>2, <1>3 DEF ExitInv, ListIsStack
  <2> QED
    BY <1>1, <1>2, <2>1 DEF ListIsStack, Chained, First, Below
<1>6. NoneLost'
  <2> SUFFICES ASSUME ~ panicked, NEW x \in live'
               PROVE  \E i \in 1 .. Len(entries') : entries'[i] = x
    BY DEF NoneLost
  <2>1. PICK i \in 1 .. Len(entries) : entries[i] = x
    BY DEF ExitInv, NoneLost
  <2>2. i # Len(entries)
    BY <1>2, <2>1
  <2> QED
    BY <1>2, <1>3, <2>1, <2>2
<1>7. PinGuarantee' /\ RoomForOne' /\ PopsAlone'
  BY <1>1 DEF ExitInv, PinGuarantee, EndAt, RoomForOne, PopsAlone
<1> QED
  BY <1>4, <1>5, <1>6, <1>7 DEF ExitInv

LEMMA DropPanicsKeeps ==
  ASSUME ExitInv, DropPanics
  PROVE  ExitInv'
<1> USE DEF DropPanics, arena, list
<1>1. phase = "popping" /\ top = Nil
  BY DEF ExitInv, PopsAlone
<1>2. phase' \in {"open", "gone"}
  BY DEF After
<1>3. TypeOK'
  BY <1>2, EmptySeq DEF ExitInv, TypeOK, Calls, NoCall
<1>4. ListIsStack'
  <2>1. Len(entries') = 0 /\ First' = Nil
    BY <1>1, <1>2, EmptySeq DEF First
  <2> QED
    BY <2>1 DEF ListIsStack
<1>5. PinGuarantee' /\ RoomForOne' /\ NoneLost' /\ PopsAlone'
  BY <1>1, <1>2 DEF ExitInv, PinGuarantee, RoomForOne, NoneLost, PopsAlone
<1> QED
  BY <1>3, <1>4, <1>5 DEF ExitInv

\* When the list is walked nothing is left on it, so that handing the arena
\* back takes no memory from a live value.
LEMMA FinishKeeps ==
  ASSUME ExitInv, Finish
  PROVE  ExitInv'
<1> USE DEF Finish, arena, list
<1>1. /\ phase = "popping" /\ chain = Nil /\ top = Nil /\ reserved = {}
      /\ Nil \notin Values /\ entries \in Seq(Values) /\ call \in Calls
      /\ Length \in Nat
  BY ExitStackAssumption, ArenaAssumption DEF ExitInv, TypeOK, PopsAlone
<1>2. Len(entries) = 0
  <2>1. Len(entries) \in Nat
    BY <1>1, LenProperties
  <2>2. Len(entries) # 0 => entries[Len(entries)] \in Values
    BY <1>1, <2>1, ElementOfSeq
  <2> QED
    BY <1>1, <2>2 DEF ExitInv, ListIsStack, First
<1>3. ~ panicked => live = {}
  BY <1>2 DEF ExitInv, NoneLost
<1>4. Chained(entries, top, link)
  BY <1>1, <1>2 DEF Chained
<1>5. CASE call.op = "set"
  <2>1. PICK v \in Values : v = call.value /\ Fits(0, LayoutOf[v]) /\ 0 \in 0 .. Length
    BY <1>1, <1>5, ExitStackAssumption DEF Calls
  <2>2. /\ phase' = "open"
        /\ consumed' = EndOf(0, LayoutOf[v])
        /\ at' = [at EXCEPT ![v] = StartOf(0, LayoutOf[v])]
        /\ Enter(v)
    BY <1>5, <2>1 DEF After, Place
  <2>3. /\ top' \in Values /\ link' \in [Values -> Values \cup {Nil}]
        /\ live' \subseteq Values /\ entries' \in Seq(Values)
        /\ ListIsStack' /\ NoneLost'
    BY <1>1, <1>2, <1>4, <2>1, <2>2, EnterChains
  <2>4. /\ consumed' \in 0 .. Length /\ StartOf(0, LayoutOf[v]) \in Nat
        /\ consumed' = StartOf(0, LayoutOf[v]) + LayoutOf[v].size
    BY <2>1, <2>2, Placed
  <2>5. TypeOK'
    BY <1>1, <2>2, <2>3, <2>4 DEF ExitInv, TypeOK, Calls, NoCall
  <2>6. PinGuarantee'
    <3> SUFFICES ASSUME ~ panicked
                 PROVE  EndAt(v)' <= consumed' /\ live' \cup reserved' = {v}
      BY <1>1, <2>2 DEF PinGuarantee
    <3>1. at'[v] = StartOf(0, LayoutOf[v])
      BY <2>1, <2>2 DEF ExitInv, TypeOK
    <3>2. EndAt(v)' = consumed'
      BY <2>4, <3>1 DEF EndAt
    <3> QED
      BY <1>1, <1>3, <2>2, <2>4, <3>2 DEF Enter
  <2>7. RoomForOne' /\ PopsAlone'
    BY <1>1, <2>2 DEF RoomForOne, PopsAlone
  <2> QED
    BY <2>3, <2>5, <2>6, <2>7 DEF ExitInv
<1>6. CASE call.op # "set"
  <2>1. /\ phase' \in {"open", "gone"} /\ consumed' = 0
        /\ UNCHANGED <<at, list, live, entries, reserved, chain, panicked>>
    BY <1>6 DEF After
  <2>2. TypeOK'
    BY <1>1, <2>1 DEF ExitInv, TypeOK, Calls, NoCall
  <2>3. ListIsStack'
    BY <1>1, <1>2, <2>1 DEF ListIsStack, First
  <2>4. PinGuarantee' /\ RoomForOne' /\ NoneLost' /\ PopsAlone'
    BY <1>1, <1>3, <2>1
       DEF ExitInv, PinGuarantee, RoomForOne, NoneLost, PopsAlone
  <2> QED
    BY <2>2, <2>3, <2>4 DEF ExitInv
<1> QED
  BY <1>5, <1>6

LEMMA ExitNext == ExitInv /\ [Next]_vars => ExitInv'
<1> SUFFICES ASSUME ExitInv, [Next]_vars
             PROVE  ExitInv'
  OBVIOUS
<1>1. ASSUME NEW v \in Values, Reserve(v) \/ Release(v) \/ Pin(v)
      PROVE  ExitInv'
  BY <1>1, ReserveKeeps, ReleaseKeeps, PinKeeps
<1>2. ASSUME NEW c \in Calls \ {NoCall}, Start(c)
      PROVE  ExitInv'
  BY <1>2, StartKeeps
<1>3. CASE PopStep
  BY <1>3, DropNextKeeps, DropPanicsKeeps, FinishKeeps DEF PopStep
<1>4. CASE UNCHANGED vars
  BY <1>4 DEF vars, arena, list, ExitInv, TypeOK, ListIsStack, First, Below,
              PinGuarantee, EndAt, RoomForOne, NoneLost, PopsAlone
<1> QED
  BY <1>1, <1>2, <1>3, <1>4 DEF Next

------------------------------------------------------------------------------
(* The theorems *)

\* Every reachable state of the exit stack satisfies the inductive invariant.
THEOREM ExitStackHolds == Spec => []ExitInv
<1>1. Init => ExitInv
  BY ExitInit
<1>2. ExitInv /\ [Next]_vars => ExitInv'
  BY ExitNext
<1> QED
  BY <1>1, <1>2, PTL DEF Spec

\* The list through the slots is the stack of drop obligations, panics or not.
THEOREM ExitListIsStack == Spec => []ListIsStack
<1>1. ExitInv => ListIsStack
  BY DEF ExitInv
<1> QED
  BY <1>1, ExitStackHolds, PTL

\* Pinning to the stack is sound while no destructor panics.
THEOREM ExitPinGuarantee == Spec => []PinGuarantee
<1>1. ExitInv => PinGuarantee
  BY DEF ExitInv
<1> QED
  BY <1>1, ExitStackHolds, PTL

\* set never reaches its unreachable!().
THEOREM ExitRoomForOne == Spec => []RoomForOne
<1>1. ExitInv => RoomForOne
  BY DEF ExitInv
<1> QED
  BY <1>1, ExitStackHolds, PTL

\* Only the newest value left is ever dropped, and every value at most once.
THEOREM ExitDropsNewestFirst == Spec => DropsNewestFirst
<1>1. ASSUME ExitInv, [Next]_vars, NEW v \in live \ live'
      PROVE  v = entries[Len(entries)] /\ v = First
  <2>1. phase = "popping" /\ v = chain
    BY <1>1 DEF Next, Reserve, Release, Pin, Enter, Start, PopStep, DropNext,
                DropPanics, Finish, vars
  <2>2. v = First /\ v # Nil
    BY <1>1, <2>1, ExitStackAssumption DEF First, ExitInv, TypeOK
  <2> QED
    BY <1>1, <2>2 DEF ExitInv, ListIsStack
<1>2. ExitInv /\ [Next]_vars =>
        [\A v \in live \ live' : v = entries[Len(entries)] /\ v = First]_vars
  BY <1>1
<1> QED
  BY <1>2, ExitStackHolds, PTL DEF Spec, DropsNewestFirst

\* The bound on the loop of pop_all: every step of it ends the call, or drops
\* one of the values that are left and makes them fewer.
PopsAdvance ==
  [][phase = "popping" =>
       \/ phase' # "popping"
       \/ live' # live /\ Len(entries) \in Nat \ {0} /\ Len(entries') = Len(entries) - 1]_vars

\* pop_all never walks in circles, however the list was built: it takes at most
\* as many steps as there are values, and one.  PopsEnd is this and a scheduler.
THEOREM ExitPopsAdvance == Spec => PopsAdvance
<1>1. ASSUME ExitInv, Next, phase = "popping"
      PROVE  \/ phase' # "popping"
             \/ live' # live /\ Len(entries) \in Nat \ {0} /\ Len(entries') = Len(entries) - 1
  <2>1. CASE DropNext
    <3>1. /\ entries \in Seq(Values) /\ chain \in Values /\ Nil \notin Values
          /\ link \in [Values -> Values \cup {Nil}]
          /\ Chained(entries, chain, link)
      BY <1>1, <2>1, ListIsChained, ExitStackAssumption DEF DropNext, ExitInv, TypeOK, First
    <3>2. /\ Len(entries) # 0 /\ entries[Len(entries)] = chain
          /\ Len(entries') = Len(entries) - 1
      BY <2>1, <3>1, PopChained DEF DropNext
    <3>3. Len(entries) \in Nat
      BY <3>1, LenProperties
    <3>4. chain \in live /\ live' = live \ {chain}
      BY <1>1, <2>1, <3>2, <3>3 DEF DropNext, ExitInv, ListIsStack
    <3> QED
      BY <3>2, <3>3, <3>4
  <2>2. CASE DropPanics
    BY <2>2 DEF DropPanics, After
  <2>3. CASE Finish
    BY <2>3 DEF Finish, After
  <2> QED
    BY <1>1, <2>1, <2>2, <2>3 DEF Next, PopStep, Reserve, Release, Pin, Start
<1>2. ExitInv /\ [Next]_vars =>
        [phase = "popping" =>
           \/ phase' # "popping"
           \/ live' # live /\ Len(entries) \in Nat \ {0} /\ Len(entries') = Len(entries) - 1]_vars
  BY <1>1
<1> QED
  BY <1>2, ExitStackHolds, PTL DEF Spec, PopsAdvance

\* How far Registered fails: only a destructor that panics takes values off the
\* list of pop_all, and then they are not dropped.
ForgetsOnlyByPanic == ~ panicked => Registered

\* While no destructor panics, every live value is still to be dropped.
THEOREM ExitForgetsOnlyByPanic == Spec => []ForgetsOnlyByPanic
<1>1. ExitInv => ForgetsOnlyByPanic
  BY DEF ExitInv, NoneLost, Registered, ForgetsOnlyByPanic
<1> QED
  BY <1>1, ExitStackHolds, PTL

\* Type correctness: the stack never has more slots than its memory, nor a slot outside it.
THEOREM ExitTypeCorrect == Spec => []TypeOK
<1>1. ExitInv => TypeOK
  BY DEF ExitInv
<1> QED
  BY <1>1, ExitStackHolds, PTL
==============================================================================

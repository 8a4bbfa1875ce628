------------------------------ MODULE ReuseProofs ------------------------------
(***************************************************************************)
(* Memory that is used again, in the crates on top of the arenas.          *)
(*                                                                         *)
(* The two counters of without-alloc's Rc implement shared ownership:      *)
(* every step of Rc is the step of RcSpec the code means it to be, because *)
(* the counters are never off, so that the memory is handed on by the last *)
(* handle and by no other.                                                 *)
(*                                                                         *)
(* VecBuffer of same-alloc lends one allocation to vector after vector,    *)
(* which the calls of fill grow and change, and gets it back with the      *)
(* layout it was made for.                                                 *)
(***************************************************************************)
EXTENDS Rc, Fill, SequenceTheorems, FiniteSetTheorems, TLAPS

------------------------------------------------------------------------------
(* Rc: the invariant holds initially *)

LEMMA RcInit == CountedInit => RcInv
  BY DEF CountedInit, OwnedInit, RcInv, RcTypeOK, OwnedTypeOK, SoleOwner, NoHandles,
         CountsAccurate, RawCounts

------------------------------------------------------------------------------
(* What the counters tell, in a state where they are right *)

\* A handle keeps the memory from being anybody else's, and is counted.
LEMMA HandlesCounted ==
  ASSUME RcInv, rcs > 0 \/ weaks > 0 \/ own > 0
  PROVE  /\ mem = "rc"
         /\ strong = rcs
         /\ weak = weaks + own + IF rcs > 0 THEN 1 ELSE 0
         /\ rcs > 0 => value = "live"
<1>1. mem = "rc"
  BY DEF RcInv, RcTypeOK, OwnedTypeOK, SoleOwner, NoHandles
<1> QED
  BY <1>1 DEF RcInv, CountsAccurate, SoleOwner

\* is_unique is true of an Rc exactly when it is the only handle.
LEMMA UniqueIsAlone ==
  ASSUME RcInv, rcs > 0
  PROVE  IsUnique <=> rcs = 1 /\ weaks = 0 /\ own = 0
  BY HandlesCounted DEF IsUnique, RcInv, RcTypeOK, OwnedTypeOK

\* So is is_unique_to_rc_memory of a Weak.
LEMMA LastWeakIsAlone ==
  ASSUME RcInv, weaks > 0
  PROVE  IsUniqueToRcMemory <=> rcs = 0 /\ weaks = 1 /\ own = 0
  BY HandlesCounted DEF IsUniqueToRcMemory, RcInv, RcTypeOK, OwnedTypeOK

------------------------------------------------------------------------------
(* Every operation keeps the counters right *)

LEMMA SharingKeeps ==
  ASSUME RcInv, NewRc \/ RcClone \/ RcDowngrade \/ WeakClone \/ WeakUpgrade
  PROVE  RcInv'
<1> USE DEF RcInv, RcTypeOK, OwnedTypeOK, SoleOwner, NoHandles, CountsAccurate,
            RawCounts, IsUnique
<1>1. CASE NewRc
  BY <1>1 DEF NewRc, Put
<1>2. CASE RcClone
  BY <1>2, HandlesCounted DEF RcClone, AddRc
<1>3. CASE RcDowngrade
  BY <1>3, HandlesCounted DEF RcDowngrade, AddWeak
<1>4. CASE WeakClone
  BY <1>4, HandlesCounted DEF WeakClone, AddWeak
<1>5. CASE WeakUpgrade
  BY <1>5, HandlesCounted DEF WeakUpgrade, AddRc
<1> QED
  BY <1>1, <1>2, <1>3, <1>4, <1>5

LEMMA LettingGoKeeps ==
  ASSUME RcInv, WeakDrop \/ RcDrop \/ DropReturns
  PROVE  RcInv'
<1> USE DEF RcInv, RcTypeOK, OwnedTypeOK, SoleOwner, NoHandles, CountsAccurate,
            RawCounts, IsUnique
<1>1. CASE WeakDrop
  BY <1>1, HandlesCounted DEF WeakDrop, LoseWeak
<1>2. CASE RcDrop
  BY <1>2, HandlesCounted DEF RcDrop, Abandon, LoseRc
<1>3. CASE DropReturns
  <2>1. rcs = 0
    BY <1>3 DEF DropReturns, DropEnds
  <2>2. weak - own \in Nat
    BY HandlesCounted
  <2> QED
    BY <1>3, <2>1, <2>2 DEF DropReturns, DropEnds
<1> QED
  BY <1>1, <1>2, <1>3

LEMMA TakingApartKeeps ==
  ASSUME RcInv, RcTryUnwrap \/ RcIntoRaw \/ RcFromRaw \/ WeakUnwrap
  PROVE  RcInv'
<1> USE DEF RcInv, RcTypeOK, OwnedTypeOK, SoleOwner, NoHandles, CountsAccurate,
            RawCounts, IsUnique
<1>1. CASE RcTryUnwrap
  BY <1>1, HandlesCounted DEF RcTryUnwrap, MoveOut
<1>2. CASE RcIntoRaw
  BY <1>2, HandlesCounted DEF RcIntoRaw, GiveRaw, counters
<1>3. CASE RcFromRaw
  BY <1>3 DEF RcFromRaw, FromRaw, counters
<1>4. CASE WeakUnwrap
  BY <1>4, HandlesCounted, LastWeakIsAlone DEF WeakUnwrap, GiveMemory
<1> QED
  BY <1>1, <1>2, <1>3, <1>4

LEMMA EnvironmentKeeps ==
  ASSUME RcInv, Environment
  PROVE  RcInv'
  BY DEF RcInv, RcTypeOK, OwnedTypeOK, SoleOwner, NoHandles, CountsAccurate,
         RawCounts, IsUnique, Environment, StoreOwn, TakeOwn, Reclaim, counters,
         handles

LEMMA RcNext == RcInv /\ [CountedNext]_rcVars => RcInv'
<1>1. CASE UNCHANGED rcVars
  BY <1>1 DEF rcVars, owned, handles, counters, RcInv, RcTypeOK, OwnedTypeOK,
              SoleOwner, NoHandles, CountsAccurate, RawCounts, IsUnique
<1> QED
  BY <1>1, SharingKeeps, LettingGoKeeps, TakingApartKeeps, EnvironmentKeeps
     DEF CountedNext

------------------------------------------------------------------------------
(* Every step is one the promise allows *)

LEMMA RcStepMaps == RcInv /\ [CountedNext]_rcVars => [OwnedNext]_owned
<1> SUFFICES ASSUME RcInv, CountedNext
             PROVE  OwnedNext
  BY DEF rcVars
<1>1. CASE NewRc \/ RcClone \/ RcDowngrade \/ WeakClone
  BY <1>1 DEF OwnedNext, NewRc, RcClone, RcDowngrade, WeakClone,
              Put, CloneRc, Downgrade, CloneWeak
<1>2. CASE WeakUpgrade
  <2>1. rcs > 0
    BY <1>2, HandlesCounted DEF WeakUpgrade, RcInv, RcTypeOK
  <2> QED
    BY <1>2, <2>1 DEF OwnedNext, WeakUpgrade, Upgrade
<1>3. CASE WeakDrop \/ DropReturns
  BY <1>3 DEF OwnedNext, WeakDrop, DropWeak, DropReturns
<1>4. CASE RcDrop
  <2>1. strong' = rcs - 1
    BY <1>4, HandlesCounted DEF RcDrop
  <2>2. rcs \in Nat
    BY DEF RcInv, RcTypeOK, OwnedTypeOK
  <2>3. CASE rcs = 1
    <3>1. strong' = 0
      BY <2>1, <2>3
    <3>2. Abandon
      BY <1>4, <3>1 DEF RcDrop
    <3> QED
      BY <2>3, <3>2 DEF OwnedNext, DropLastRc
  <2>4. CASE rcs > 1
    BY <1>4, <2>1, <2>2, <2>4 DEF OwnedNext, RcDrop, DropRc
  <2> QED
    BY <1>4, <2>2, <2>3, <2>4 DEF RcDrop
<1>5. CASE RcTryUnwrap
  BY <1>5, HandlesCounted DEF OwnedNext, RcTryUnwrap, TryUnwrap
<1>6. CASE RcIntoRaw
  BY <1>6, UniqueIsAlone DEF OwnedNext, RcIntoRaw, IntoRaw
<1>7. CASE RcFromRaw
  BY <1>7 DEF OwnedNext, RcFromRaw
<1>8. CASE WeakUnwrap
  BY <1>8, LastWeakIsAlone DEF OwnedNext, WeakUnwrap, WeakTryUnwrap
<1>9. CASE Environment
  BY <1>9 DEF OwnedNext, Environment
<1> QED
  BY <1>1, <1>2, <1>3, <1>4, <1>5, <1>6, <1>7, <1>8, <1>9 DEF CountedNext

------------------------------------------------------------------------------
(* The theorems *)

\* Every reachable state satisfies the inductive invariant.
THEOREM RcHolds == CountedSpec => []RcInv
<1>1. CountedInit => RcInv
  BY RcInit
<1>2. RcInv /\ [CountedNext]_rcVars => RcInv'
  BY RcNext
<1> QED
  BY <1>1, <1>2, PTL DEF CountedSpec

\* The counters of RcBox tell how many handles there are, in every state any
\* sequence of calls can reach.
THEOREM RcCountsAccurate == CountedSpec => []CountsAccurate
<1>1. RcInv => CountsAccurate
  BY DEF RcInv
<1> QED
  BY <1>1, RcHolds, PTL

\* No Rc points to a value that is gone, and no handle to memory that was given
\* back.
THEOREM RcSoleOwner == CountedSpec => []SoleOwner
<1>1. RcInv => SoleOwner
  BY DEF RcInv
<1> QED
  BY <1>1, RcHolds, PTL

\* Counting implements ownership.
THEOREM RcImplementsOwnership == CountedSpec => OwnedSpec
<1>1. CountedInit => OwnedInit
  BY DEF CountedInit
<1>2. RcInv /\ [CountedNext]_rcVars => [OwnedNext]_owned
  BY RcStepMaps
<1> QED
  BY <1>1, <1>2, RcHolds, PTL DEF CountedSpec, OwnedSpec

\* A value is dropped at most once, while it is still there.
THEOREM RcDropsLiveValue == CountedSpec => DropsLiveValue
<1>1. ASSUME RcInv, CountedNext, value' = "dying", value # "dying"
      PROVE  value = "live" /\ mem = "rc"
  <2>1. rcs > 0
    BY <1>1 DEF CountedNext, NewRc, Put, RcClone, RcDowngrade, WeakClone, WeakUpgrade,
                AddRc, AddWeak, WeakDrop, LoseWeak, RcDrop, DropReturns, DropEnds,
                RcTryUnwrap, MoveOut, RcIntoRaw, GiveRaw, RcFromRaw, FromRaw,
                WeakUnwrap, GiveMemory, Environment, StoreOwn, TakeOwn, Reclaim
  <2> QED
    BY <1>1, <2>1, HandlesCounted
<1>2. RcInv /\ [CountedNext]_rcVars =>
        [value' = "dying" /\ value # "dying" => value = "live" /\ mem = "rc"]_rcVars
  BY <1>1
<1> QED
  BY <1>2, RcHolds, PTL DEF CountedSpec, DropsLiveValue

\* How far NotUnderDrop fails: the memory goes away under a value that is being
\* dropped only by the hand of the last Weak, and no Rc and no Weak is left to it.
TakenByLastWeak ==
  [][value = "dying" /\ mem = "rc" /\ mem' # "rc" =>
       WeakUnwrap /\ rcs = 0 /\ weaks = 1 /\ own = 0 /\ NoHandles']_rcVars

\* Every other way to give the memory back waits for the destructor.
THEOREM RcTakenByLastWeak == CountedSpec => TakenByLastWeak
<1>1. ASSUME RcInv, CountedNext, value = "dying", mem = "rc", mem' # "rc"
      PROVE  WeakUnwrap /\ rcs = 0 /\ weaks = 1 /\ own = 0 /\ NoHandles'
  <2>1. rcs = 0
    BY <1>1, HandlesCounted DEF RcInv, RcTypeOK, OwnedTypeOK
  <2>2. WeakUnwrap
    BY <1>1, <2>1 DEF CountedNext, NewRc, Put, RcClone, RcDowngrade, WeakClone, WeakUpgrade,
                AddRc, AddWeak, WeakDrop, LoseWeak, RcDrop, DropReturns, DropEnds,
                RcTryUnwrap, RcIntoRaw, RcFromRaw, FromRaw,
                Environment, StoreOwn, TakeOwn, Reclaim
  <2>3. weaks = 1 /\ own = 0
    BY <1>1, <2>2, LastWeakIsAlone DEF WeakUnwrap
  <2> QED
    BY <1>1, <2>1, <2>2, <2>3 DEF WeakUnwrap, GiveMemory, NoHandles
<1>2. RcInv /\ [CountedNext]_rcVars =>
        [value = "dying" /\ mem = "rc" /\ mem' # "rc" =>
           WeakUnwrap /\ rcs = 0 /\ weaks = 1 /\ own = 0 /\ NoHandles']_rcVars
  BY <1>1
<1> QED
  BY <1>2, RcHolds, PTL DEF CountedSpec, TakenByLastWeak

\* Type correctness: no counter ever goes below zero.
THEOREM RcTypeCorrect == CountedSpec => []RcTypeOK
<1>1. RcInv => RcTypeOK
  BY DEF RcInv
<1> QED
  BY <1>1, RcHolds, PTL

------------------------------------------------------------------------------
(* Sequences and what is in them *)

LEMMA NothingInEmpty == ToSet(<<>>) = {} /\ IsInjective(<<>>)
  BY DEF ToSet, IsInjective

LEMMA InSequence ==
  ASSUME NEW S, NEW s \in Seq(S)
  PROVE  /\ DOMAIN s = 1 .. Len(s)
         /\ ToSet(s) \subseteq S
         /\ ToSet(s) = {} => s = <<>>
<1>1. DOMAIN s = 1 .. Len(s) /\ Len(s) \in Nat /\ \A k \in 1 .. Len(s) : s[k] \in S
  BY LenProperties, ElementOfSeq
<1>2. ASSUME ToSet(s) = {}
      PROVE  s = <<>>
  <2>1. Len(s) # 0 => 1 \in DOMAIN s
    BY <1>1
  <2>2. 1 \notin DOMAIN s
    BY <1>2 DEF ToSet
  <2> QED
    BY <2>1, <2>2, EmptySeq
<1> QED
  BY <1>1, <1>2 DEF ToSet

LEMMA WithOneMore ==
  ASSUME NEW S, NEW s \in Seq(S), NEW x \in S
  PROVE  /\ Append(s, x) \in Seq(S)
         /\ Len(Append(s, x)) = Len(s) + 1
         /\ ToSet(Append(s, x)) = ToSet(s) \cup {x}
         /\ IsInjective(s) /\ x \notin ToSet(s) => IsInjective(Append(s, x))
<1> DEFINE t == Append(s, x)
<1>1. /\ t \in Seq(S) /\ Len(t) = Len(s) + 1
      /\ \A k \in 1 .. Len(s) : t[k] = s[k]
      /\ t[Len(s) + 1] = x
  BY AppendProperties
<1>2. Len(s) \in Nat /\ DOMAIN s = 1 .. Len(s) /\ DOMAIN t = 1 .. Len(s) + 1
  BY <1>1, LenProperties
<1> HIDE DEF t
<1>3. 1 .. Len(s) + 1 = 1 .. Len(s) \cup {Len(s) + 1} /\ Len(s) + 1 \notin 1 .. Len(s)
  BY <1>2
<1>4. ToSet(t) = ToSet(s) \cup {x}
  BY <1>1, <1>2, <1>3 DEF ToSet
<1>5. IsInjective(s) /\ x \notin ToSet(s) => IsInjective(t)
  BY <1>1, <1>2, <1>3 DEF ToSet, IsInjective
<1> QED
  BY <1>1, <1>4, <1>5 DEF t

LEMMA WithoutTheLast ==
  ASSUME NEW S, NEW s \in Seq(S), s # <<>>, IsInjective(s)
  PROVE  /\ Front(s) \in Seq(S)
         /\ Len(Front(s)) = Len(s) - 1
         /\ Last(s) \in ToSet(s)
         /\ ToSet(Front(s)) = ToSet(s) \ {Last(s)}
         /\ IsInjective(Front(s))
<1> DEFINE n == Len(s)
           t == Front(s)
<1>1. n \in Nat /\ n # 0 /\ DOMAIN s = 1 .. n /\ \A k \in 1 .. n : s[k] \in S
  BY LenProperties, ElementOfSeq, EmptySeq
<1> HIDE DEF n
<1>2. /\ t \in Seq(S) /\ Len(t) = n - 1 /\ \A k \in 1 .. n - 1 : t[k] = s[k]
  <2>1. \A k \in 1 .. n - 1 : s[k] \in S
    BY <1>1
  <2>2. SubSeq(s, 1, n - 1) \in Seq(S)
    BY <1>1, <2>1, SubSeqProperties
  <2>3. Len(SubSeq(s, 1, n - 1)) = IF 1 <= n - 1 THEN n - 1 - 1 + 1 ELSE 0
    BY <1>1, <2>1, SubSeqProperties
  <2>4. \A k \in 1 .. n - 1 - 1 + 1 : SubSeq(s, 1, n - 1)[k] = s[1 + k - 1]
    BY <1>1, <2>1, SubSeqProperties
  <2>5. t = SubSeq(s, 1, n - 1)
    BY DEF Front, n
  <2> HIDE DEF t
  <2>6. Len(t) = n - 1
    BY <1>1, <2>3, <2>5
  <2>7. \A k \in 1 .. n - 1 : t[k] = s[k]
    BY <1>1, <2>4, <2>5
  <2> QED
    BY <2>2, <2>5, <2>6, <2>7
<1>3. DOMAIN t = 1 .. n - 1
  BY <1>2, LenProperties
<1>4. Last(s) = s[n]
  BY DEF Last, n
<1> HIDE DEF t
<1>5. 1 .. n = 1 .. n - 1 \cup {n} /\ n \notin 1 .. n - 1
  BY <1>1
<1>6. Last(s) \in ToSet(s)
  BY <1>1, <1>4, <1>5 DEF ToSet
<1>7. \A k \in 1 .. n - 1 : s[k] # s[n]
  BY <1>1, <1>5 DEF IsInjective
<1>8. ToSet(t) = ToSet(s) \ {Last(s)}
  BY <1>1, <1>2, <1>3, <1>4, <1>5, <1>7 DEF ToSet
<1>9. IsInjective(t)
  BY <1>1, <1>2, <1>3, <1>5 DEF IsInjective
<1> QED
  BY <1>2, <1>6, <1>8, <1>9 DEF t, n

LEMMA WithOneReplaced ==
  ASSUME NEW S, NEW s \in Seq(S), NEW k \in 1 .. Len(s), NEW x \in S,
         IsInjective(s), x \notin ToSet(s)
  PROVE  /\ [s EXCEPT ![k] = x] \in Seq(S)
         /\ Len([s EXCEPT ![k] = x]) = Len(s)
         /\ s[k] \in ToSet(s)
         /\ ToSet([s EXCEPT ![k] = x]) = (ToSet(s) \ {s[k]}) \cup {x}
         /\ IsInjective([s EXCEPT ![k] = x])
<1> DEFINE n == Len(s)
           t == [s EXCEPT ![k] = x]
<1>1. n \in Nat /\ k \in 1 .. n /\ DOMAIN s = 1 .. n
  BY LenProperties
<1>2. t \in Seq(S) /\ Len(t) = n
  BY ExceptSeq
<1>3. DOMAIN t = 1 .. n /\ t[k] = x /\ \A j \in 1 .. n : j # k => t[j] = s[j]
  BY <1>1
<1> HIDE DEF n, t
<1>4. \A j \in 1 .. n : s[j] # x
  BY <1>1 DEF ToSet
<1>5. \A j \in 1 .. n : j # k => s[j] # s[k]
  BY <1>1 DEF IsInjective
<1>6. ToSet(t) = (ToSet(s) \ {s[k]}) \cup {x}
  <2>1. ASSUME NEW y \in ToSet(t)
        PROVE  y \in (ToSet(s) \ {s[k]}) \cup {x}
    BY <1>1, <1>3, <1>5 DEF ToSet
  <2>2. ASSUME NEW y \in (ToSet(s) \ {s[k]}) \cup {x}
        PROVE  y \in ToSet(t)
    BY <1>1, <1>3 DEF ToSet
  <2> QED
    BY <2>1, <2>2
<1>7. IsInjective(t)
  <2>1. ASSUME NEW i \in 1 .. n, NEW j \in 1 .. n, t[i] = t[j]
        PROVE  i = j
    BY <1>1, <1>3, <1>4, <2>1 DEF IsInjective
  <2> QED
    BY <1>3, <2>1 DEF IsInjective
<1>8. s[k] \in ToSet(s)
  BY <1>1 DEF ToSet
<1> QED
  BY <1>2, <1>6, <1>7, <1>8 DEF n, t

\* The first of them are all of them only when none is left.
LEMMA AllOfThem ==
  ASSUME NEW S, NEW s \in Seq(S), IsInjective(s), NEW left \in 0 .. Len(s)
  PROVE  ToSet(s) = {s[k] : k \in 1 .. Len(s) - left} <=> left = 0
<1>1. Len(s) \in Nat /\ DOMAIN s = 1 .. Len(s)
  BY LenProperties
<1>2. ASSUME left # 0
      PROVE  ToSet(s) # {s[k] : k \in 1 .. Len(s) - left}
  <2>1. /\ Len(s) \in 1 .. Len(s) /\ 1 .. Len(s) - left \subseteq 1 .. Len(s)
        /\ Len(s) \notin 1 .. Len(s) - left
    BY <1>1, <1>2
  <2>2. s[Len(s)] \in ToSet(s)
    BY <1>1, <2>1 DEF ToSet
  <2>3. \A k \in 1 .. Len(s) - left : s[k] # s[Len(s)]
    BY <1>1, <2>1 DEF IsInjective
  <2> QED
    BY <2>2, <2>3
<1>3. ASSUME left = 0
      PROVE  ToSet(s) = {s[k] : k \in 1 .. Len(s) - left}
  <2>1. Len(s) - left = Len(s)
    BY <1>1, <1>3
  <2> QED
    BY <1>1, <2>1 DEF ToSet
<1> QED
  BY <1>2, <1>3

------------------------------------------------------------------------------
(* The invariant *)

Held(o) == ToSet(vecs[o].items)
Made(o) == BlockOf(vecs[o].type, vecs[o].cap)

VecRecords == [there : BOOLEAN, type : Types, block : HeapBlocks \cup {NoBlock},
               cap : 0 .. MaxCap, items : Seq(Items)]
HeapRecords == [state : {"free", "live", "leaked"}, size : Nat, align : Nat]
Fates == {"caller", "held", "dropped", "lost"}

\* What owner o may have: only an option has room without an allocation.
Proper(o, v) ==
  /\ v \in VecRecords
  /\ Len(v.items) <= v.cap
  /\ ~ v.there => v.cap = 0
  /\ v.cap = 0 => v.block = NoBlock
  /\ v.block = NoBlock => o = "option" \/ v.cap = 0
  /\ o = "option" => v.block = NoBlock

VecsSound ==
  /\ vecs \in [Owners -> VecRecords]
  /\ \A o \in Owners : Proper(o, vecs[o])

\* While there is a TempVec the buffer is there to take the allocation back,
\* with a type of that layout.
Lent ==
  /\ vecs["buffer"].items = <<>>
  /\ vecs["temp"].there =>
       vecs["buffer"].there /\ SameLayout(vecs["buffer"].type, vecs["temp"].type)

BlocksSound ==
  /\ heap \in [HeapBlocks -> HeapRecords]
  /\ \A o \in Owners : vecs[o].block # NoBlock => heap[vecs[o].block] = Made(o)
  /\ \A o, p \in Owners : vecs[o].block = vecs[p].block => o = p \/ vecs[o].block = NoBlock
  /\ \A b \in HeapBlocks : heap[b].state = "live" => \E o \in Owners : vecs[o].block = b

ItemsSound ==
  /\ fate \in [Items -> Fates]
  /\ \A o \in Owners : IsInjective(vecs[o].items)
  /\ \A o \in Owners : \A i \in Held(o) : fate[i] = "held" /\ TypeOf[i] = vecs[o].type
  /\ \A o, p \in Owners : \A i \in Held(o) : i \in Held(p) => o = p
  /\ \A i \in Items : fate[i] = "held" => \E o \in Owners : i \in Held(o)

VecInv == VecsSound /\ Lent /\ BlocksSound /\ ItemsSound

------------------------------------------------------------------------------
(* Allocations *)

LEMMA BlockIsRecord ==
  ASSUME NEW type \in Types, NEW cap \in 0 .. MaxCap
  PROVE  /\ BlockOf(type, cap) \in HeapRecords
         /\ BlockOf(type, cap).state = "live"
<1>1. type.size \in Nat /\ type.align \in Nat /\ cap \in Nat
  BY VecBufferAssumption
<1>2. cap * type.size \in Nat
  BY <1>1
<1> QED
  BY <1>1, <1>2 DEF BlockOf, HeapRecords

LEMMA MadeIsRecord ==
  ASSUME VecsSound, NEW o \in Owners
  PROVE  Made(o) \in HeapRecords /\ Made(o).state = "live"
<1>1. vecs[o].type \in Types /\ vecs[o].cap \in 0 .. MaxCap
  BY DEF VecsSound, VecRecords
<1> QED
  BY <1>1, BlockIsRecord DEF Made

LEMMA FreeIsRecord == FreeBlock \in HeapRecords /\ FreeBlock.state = "free"
  BY DEF FreeBlock, HeapRecords

\* No vector has an allocation that is free.
LEMMA FreeIsNobodys ==
  ASSUME VecsSound, BlocksSound, NEW b \in HeapBlocks, heap[b].state # "live", NEW o \in Owners
  PROVE  vecs[o].block # b
<1>1. b # NoBlock
  BY VecBufferAssumption
<1> QED
  BY <1>1, MadeIsRecord DEF BlocksSound

OthersKeep(o) == \A p \in Owners \ {o} : vecs'[p] = vecs[p]

LEMMA BlocksStay ==
  ASSUME BlocksSound, heap' = heap, NEW o \in Owners, OthersKeep(o),
         vecs'[o].block = vecs[o].block,
         vecs[o].block = NoBlock \/ Made(o)' = Made(o)
  PROVE  BlocksSound'
<1>1. \A p \in Owners : /\ vecs'[p].block = vecs[p].block
                        /\ vecs[p].block = NoBlock \/ Made(p)' = Made(p)
  BY DEF OthersKeep, Made
<1> QED
  BY <1>1 DEF BlocksSound

\* A vector gets an allocation, a new one or another layout for its own, and
\* what it had before is free if that is not the same.
Makes(o, b) ==
  /\ b = vecs[o].block \/ heap[b].state # "live"
  /\ vecs'[o].block = b
  /\ heap' \in [HeapBlocks -> HeapRecords]
  /\ heap'[b] = Made(o)'
  /\ \A c \in HeapBlocks : c # b => IF c = vecs[o].block THEN heap'[c].state # "live"
                               ELSE heap'[c] = heap[c]

LEMMA BlockMade ==
  ASSUME VecsSound, BlocksSound, NEW o \in Owners, NEW b \in HeapBlocks,
         OthersKeep(o), Makes(o, b)
  PROVE  BlocksSound'
<1> USE DEF OthersKeep, Makes
<1>1. \A p \in Owners \ {o} : vecs[p].block # b /\ Made(p)' = Made(p)
  BY FreeIsNobodys, VecBufferAssumption DEF BlocksSound, Made
<1>2. \A p \in Owners : vecs[p].block \in HeapBlocks \cup {NoBlock}
  BY DEF VecsSound, VecRecords
<1>3. \A p \in Owners : vecs'[p].block # NoBlock => heap'[vecs'[p].block] = Made(p)'
  <2>1. ASSUME NEW p \in Owners \ {o}, vecs'[p].block # NoBlock
        PROVE  heap'[vecs'[p].block] = Made(p)'
    <3>1. vecs[p].block \in HeapBlocks /\ vecs[p].block # b /\ vecs[p].block # vecs[o].block
      BY <1>1, <1>2, <2>1 DEF BlocksSound
    <3> QED
      BY <1>1, <2>1, <3>1 DEF BlocksSound
  <2> QED
    BY <2>1
<1>4. \A p, q \in Owners : vecs'[p].block = vecs'[q].block => p = q \/ vecs'[p].block = NoBlock
  BY <1>1 DEF BlocksSound
<1>5. ASSUME NEW c \in HeapBlocks, heap'[c].state = "live"
      PROVE  \E p \in Owners : vecs'[p].block = c
  <2>1. c = b \/ (c # vecs[o].block /\ heap[c].state = "live")
    BY <1>5
  <2> QED
    BY <2>1 DEF BlocksSound
<1> QED
  BY <1>3, <1>4, <1>5 DEF BlocksSound

\* The allocation of a vector is not in use any more.
Unmakes(o) ==
  /\ heap' \in [HeapBlocks -> HeapRecords]
  /\ \A c \in HeapBlocks : IF c = vecs[o].block THEN heap'[c].state # "live"
                        ELSE heap'[c] = heap[c]

LEMMA BlockLeft ==
  ASSUME VecsSound, BlocksSound, NEW o \in Owners, OthersKeep(o),
         vecs'[o].block = NoBlock, Unmakes(o)
  PROVE  BlocksSound'
<1> USE DEF OthersKeep, Unmakes
<1>1. \A p \in Owners \ {o} : Made(p)' = Made(p)
  BY DEF Made
<1>2. \A p \in Owners : vecs[p].block \in HeapBlocks \cup {NoBlock}
  BY DEF VecsSound, VecRecords
<1>3. \A p \in Owners : vecs'[p].block # NoBlock => heap'[vecs'[p].block] = Made(p)'
  BY <1>1, <1>2 DEF BlocksSound
<1>4. \A p, q \in Owners : vecs'[p].block = vecs'[q].block => p = q \/ vecs'[p].block = NoBlock
  BY DEF BlocksSound
<1>5. \A c \in HeapBlocks : heap'[c].state = "live" => \E p \in Owners : vecs'[p].block = c
  BY DEF BlocksSound
<1> QED
  BY <1>3, <1>4, <1>5 DEF BlocksSound

\* One vector hands its allocation to another, which gives back what it had.
LEMMA BlockMoves ==
  ASSUME VecsSound, BlocksSound, NEW o \in Owners, NEW p \in Owners, o # p,
         \A q \in Owners \ {o, p} : vecs'[q] = vecs[q],
         vecs'[o].block = NoBlock, vecs'[p].block = vecs[o].block,
         vecs[o].block = NoBlock \/ Made(p)' = Made(o),
         Unmakes(p)
  PROVE  BlocksSound'
<1> USE DEF Unmakes
<1>1. \A q \in Owners \ {o, p} : Made(q)' = Made(q)
  BY DEF Made
<1>2. \A q \in Owners : vecs[q].block \in HeapBlocks \cup {NoBlock}
  BY DEF VecsSound, VecRecords
<1>3. ASSUME NEW q \in Owners, vecs'[q].block # NoBlock
      PROVE  heap'[vecs'[q].block] = Made(q)'
  <2>1. PICK r \in Owners \ {p} : vecs'[q].block = vecs[r].block /\ Made(q)' = Made(r)
    BY <1>1, <1>3
  <2>2. vecs[r].block \in HeapBlocks /\ vecs[r].block # vecs[p].block
    BY <1>2, <1>3, <2>1 DEF BlocksSound
  <2> QED
    BY <1>3, <2>1, <2>2 DEF BlocksSound
<1>4. \A q, r \in Owners : vecs'[q].block = vecs'[r].block => q = r \/ vecs'[q].block = NoBlock
  BY DEF BlocksSound
<1>5. ASSUME NEW c \in HeapBlocks, heap'[c].state = "live"
      PROVE  \E q \in Owners : vecs'[q].block = c
  <2>1. PICK q \in Owners : vecs[q].block = c /\ q # p
    BY <1>5 DEF BlocksSound
  <2> QED
    BY <2>1
<1> QED
  BY <1>3, <1>4, <1>5 DEF BlocksSound

------------------------------------------------------------------------------
(* Elements *)

LEMMA HeldAreItems ==
  ASSUME VecsSound, NEW o \in Owners
  PROVE  vecs[o].items \in Seq(Items) /\ Held(o) \subseteq Items
<1>1. vecs[o].items \in Seq(Items)
  BY DEF VecsSound, VecRecords
<1> QED
  BY <1>1, InSequence DEF Held

\* The others keep their elements.
OthersKeepItems(o) ==
  \A p \in Owners \ {o} : /\ vecs'[p].items = vecs[p].items
                          /\ vecs'[p].type = vecs[p].type \/ Held(p) = {}

\* A vector loses some of its elements and gets others that nobody has; its type
\* may change when none of the old ones is left.
Trades(o, out, in) ==
  /\ out \subseteq Held(o)
  /\ Held(o)' = (Held(o) \ out) \cup in
  /\ IsInjective(vecs'[o].items)
  /\ Held(o) = out \/ vecs'[o].type = vecs[o].type
  /\ \A i \in in : i \in Items /\ fate[i] # "held" /\ TypeOf[i] = vecs'[o].type
  /\ fate' \in [Items -> Fates]
  /\ \A i \in in : fate'[i] = "held"
  /\ \A i \in out : fate'[i] # "held"
  /\ \A i \in Items : i \notin in /\ i \notin out => (fate'[i] = "held" <=> fate[i] = "held")

LEMMA ItemsChange ==
  ASSUME VecsSound, ItemsSound, NEW o \in Owners, NEW out, NEW in,
         OthersKeepItems(o), Trades(o, out, in)
  PROVE  ItemsSound'
<1> USE DEF OthersKeepItems, Trades
<1>1. \A p \in Owners \ {o} : Held(p)' = Held(p)
  BY DEF Held
<1>2. \A p \in Owners : Held(p) \subseteq Items
  BY HeldAreItems
<1>3. \A p \in Owners : \A i \in Held(p) : fate[i] = "held" /\ TypeOf[i] = vecs[p].type
  BY DEF ItemsSound
<1>4. \A p, q \in Owners : \A i \in Held(p) : i \in Held(q) => p = q
  BY DEF ItemsSound
<1>5. \A p \in Owners : IsInjective(vecs'[p].items)
  BY DEF ItemsSound
<1>6. \A p \in Owners \ {o} : \A i \in Held(p) : i \notin in /\ i \notin out
  BY <1>3, <1>4
<1>7. ASSUME NEW p \in Owners, NEW i \in Held(p)'
      PROVE  fate'[i] = "held" /\ TypeOf[i] = vecs'[p].type
  <2>1. CASE p # o
    BY <1>1, <1>2, <1>3, <1>6, <1>7, <2>1
  <2>2. CASE p = o /\ i \in in
    BY <2>2
  <2>3. CASE p = o /\ i \notin in
    BY <1>2, <1>3, <1>7, <2>3
  <2> QED
    BY <2>1, <2>2, <2>3
<1>8. ASSUME NEW p \in Owners, NEW q \in Owners, NEW i \in Held(p)', i \in Held(q)'
      PROVE  p = q
  <2>1. \A r \in Owners : i \in Held(r)' => i \in Held(r) \/ (r = o /\ i \in in)
    BY <1>1
  <2>2. i \in in => \A r \in Owners : i \notin Held(r)
    BY <1>3
  <2> QED
    BY <1>4, <1>8, <2>1, <2>2
<1>9. ASSUME NEW i \in Items, fate'[i] = "held"
      PROVE  \E p \in Owners : i \in Held(p)'
  <2>1. CASE i \in in
    BY <2>1
  <2>2. CASE i \notin in
    <3>1. i \notin out /\ fate[i] = "held"
      BY <1>9, <2>2
    <3>2. PICK p \in Owners : i \in Held(p)
      BY <3>1 DEF ItemsSound
    <3> QED
      BY <1>1, <3>1, <3>2
  <2> QED
    BY <2>1, <2>2
<1> QED
  BY <1>5, <1>7, <1>8, <1>9 DEF ItemsSound

LEMMA ItemsStay ==
  ASSUME ItemsSound, NEW o \in Owners, OthersKeepItems(o), fate' = fate,
         vecs'[o].items = vecs[o].items,
         vecs'[o].type = vecs[o].type \/ Held(o) = {}
  PROVE  ItemsSound'
<1>1. \A p \in Owners : /\ Held(p)' = Held(p)
                        /\ vecs'[p].items = vecs[p].items
                        /\ vecs'[p].type = vecs[p].type \/ Held(p) = {}
  BY DEF Held, OthersKeepItems
<1> QED
  BY <1>1 DEF ItemsSound

\* All the elements of a vector meet an end.
LEMMA ItemsMeet ==
  ASSUME VecsSound, ItemsSound, NEW o \in Owners, NEW end \in Fates \ {"held"},
         vecs'[o].items = <<>>, fate' = Meet(vecs[o], end), OthersKeepItems(o)
  PROVE  ItemsSound'
<1>1. Held(o)' = {} /\ IsInjective(vecs'[o].items)
  BY NothingInEmpty DEF Held
<1>2. /\ fate' \in [Items -> Fates]
      /\ \A i \in Items : fate'[i] = IF i \in Held(o) THEN end ELSE fate[i]
  BY DEF Meet, Held, ItemsSound
<1>3. Held(o) \subseteq Items
  BY HeldAreItems
<1>4. Trades(o, Held(o), {})
  BY <1>1, <1>2, <1>3 DEF Trades
<1> QED
  BY <1>4, ItemsChange

------------------------------------------------------------------------------
(* Vectors *)

LEMMA OneChanges ==
  ASSUME VecsSound, NEW o \in Owners, NEW v, Proper(o, v), vecs' = [vecs EXCEPT ![o] = v]
  PROVE  VecsSound' /\ vecs'[o] = v /\ OthersKeep(o) /\ OthersKeepItems(o)
<1>1. v \in VecRecords
  BY DEF Proper
<1>2. vecs' \in [Owners -> VecRecords] /\ vecs'[o] = v
  BY <1>1 DEF VecsSound
<1>3. \A p \in Owners \ {o} : vecs'[p] = vecs[p]
  BY DEF VecsSound
<1> QED
  BY <1>2, <1>3 DEF VecsSound, OthersKeep, OthersKeepItems

SetsTwo(o, v, p, w) == vecs' = [vecs EXCEPT ![o] = v, ![p] = w]

LEMMA TwoChange ==
  ASSUME VecsSound, NEW o \in Owners, NEW v, Proper(o, v),
         NEW p \in Owners, NEW w, Proper(p, w), o # p, SetsTwo(o, v, p, w)
  PROVE  /\ VecsSound' /\ vecs'[o] = v /\ vecs'[p] = w
         /\ \A q \in Owners \ {o, p} : vecs'[q] = vecs[q]
<1> USE DEF SetsTwo
<1>1. v \in VecRecords /\ w \in VecRecords
  BY DEF Proper
<1>2. vecs' \in [Owners -> VecRecords] /\ vecs'[o] = v /\ vecs'[p] = w
  BY <1>1 DEF VecsSound
<1>3. \A q \in Owners \ {o, p} : vecs'[q] = vecs[q]
  BY DEF VecsSound
<1> QED
  BY <1>2, <1>3 DEF VecsSound

LEMMA NewVecs ==
  /\ \A o \in Owners, type \in Types : Proper(o, EmptyVec(type))
  /\ \A o \in Owners \ {"option"}, type \in Types, b \in HeapBlocks, cap \in 1 .. MaxCap :
       Proper(o, Vec(type, b, cap, <<>>))
  /\ \A type \in Types : Proper("option", Vec(type, NoBlock, 1, <<>>))
  /\ \A o \in Owners : Proper(o, Absent)
<1>1. <<>> \in Seq(Items) /\ Len(<<>>) = 0
  BY EmptySeq
<1>2. 0 \in 0 .. MaxCap /\ 1 \in 0 .. MaxCap /\ 1 .. MaxCap \subseteq 0 .. MaxCap
  BY VecBufferAssumption
<1>3. PICK type0 \in Types : type0 = CHOOSE type \in Types : TRUE
  BY VecBufferAssumption
<1>4. \A b \in HeapBlocks : b # NoBlock
  BY VecBufferAssumption
<1>5. Absent = [there |-> FALSE, type |-> type0, block |-> NoBlock, cap |-> 0, items |-> <<>>]
  <2>1. Absent = [EmptyVec(type0) EXCEPT !.there = FALSE]
    BY <1>3 DEF Absent
  <2> QED
    BY <2>1 DEF EmptyVec, Vec
<1>6. \A o \in Owners : Proper(o, Absent)
  BY <1>1, <1>2, <1>5 DEF Proper, VecRecords
<1>7. \A o \in Owners, type \in Types : Proper(o, EmptyVec(type))
  BY <1>1, <1>2 DEF Proper, VecRecords, EmptyVec, Vec
<1>8. \A o \in Owners \ {"option"}, type \in Types, b \in HeapBlocks, cap \in 1 .. MaxCap :
        Proper(o, Vec(type, b, cap, <<>>))
  BY <1>1, <1>2, <1>4 DEF Proper, VecRecords, Vec
<1>9. \A type \in Types : Proper("option", Vec(type, NoBlock, 1, <<>>))
  BY <1>1, <1>2 DEF Proper, VecRecords, Vec
<1> QED
  BY <1>6, <1>7, <1>8, <1>9

\* Of a vector that is not there nothing is left.
LEMMA AbsentIsEmpty ==
  ASSUME VecsSound, NEW o \in Owners, ~ vecs[o].there
  PROVE  vecs[o].cap = 0 /\ vecs[o].block = NoBlock /\ vecs[o].items = <<>> /\ Held(o) = {}
<1>1. /\ vecs[o].items \in Seq(Items) /\ Len(vecs[o].items) <= 0
      /\ vecs[o].cap = 0 /\ vecs[o].block = NoBlock
  BY DEF VecsSound, Proper, VecRecords
<1>2. vecs[o].items = <<>>
  <2>1. Len(vecs[o].items) = 0
    BY <1>1, LenProperties
  <2> QED
    BY <1>1, <2>1, EmptySeq
<1> QED
  BY <1>1, <1>2, NothingInEmpty DEF Held

------------------------------------------------------------------------------
(* What the steps of a vector do *)

LEMMA Creates ==
  ASSUME VecInv, NEW o \in {"buffer", "own"}, NEW type \in Types, NEW cap \in 0 .. MaxCap,
         Create(o, type, cap)
  PROVE  VecInv'
<1> USE DEF VecInv
<1>0. o \in Owners /\ o # "option" /\ ~ vecs[o].there /\ fate' = fate
  BY DEF Create, Owners
<1>1. /\ vecs[o].cap = 0 /\ vecs[o].block = NoBlock /\ vecs[o].items = <<>>
      /\ Held(o) = {}
  BY <1>0, AbsentIsEmpty
<1>2. PICK v : /\ vecs' = [vecs EXCEPT ![o] = v]
               /\ v.items = <<>> /\ v.type = type
               /\ \/ cap = 0 /\ v = EmptyVec(type) /\ heap' = heap
                  \/ /\ cap # 0
                     /\ \E b \in HeapBlocks : /\ heap[b] = FreeBlock
                                          /\ v = Vec(type, b, cap, <<>>)
                                          /\ heap' = [heap EXCEPT ![b] = BlockOf(type, cap)]
  <2>1. CASE cap = 0
    BY <2>1 DEF Create, EmptyVec, Vec
  <2>2. CASE cap # 0
    BY <2>2 DEF Create, Vec
  <2> QED
    BY <2>1, <2>2
<1>3. Proper(o, v)
  <2>1. cap # 0 => cap \in 1 .. MaxCap
    BY VecBufferAssumption
  <2> QED
    BY <1>0, <1>2, <2>1, NewVecs
<1>4. VecsSound' /\ vecs'[o] = v /\ OthersKeep(o) /\ OthersKeepItems(o)
  BY <1>0, <1>2, <1>3, OneChanges
<1>5. Lent'
  <2>1. o = "buffer" => ~ vecs["temp"].there
    BY <1>0 DEF Lent
  <2>2. /\ vecs'["temp"] = vecs["temp"]
        /\ IF o = "buffer" THEN vecs'["buffer"].items = <<>>
           ELSE vecs'["buffer"] = vecs["buffer"]
    BY <1>2, <1>4 DEF OthersKeep, Owners
  <2> QED
    BY <2>1, <2>2 DEF Lent
<1>6. BlocksSound'
  <2>1. CASE cap = 0
    <3>1. heap' = heap /\ vecs'[o].block = vecs[o].block
      BY <1>1, <1>2, <1>4, <2>1 DEF EmptyVec, Vec
    <3> QED
      BY <1>0, <1>1, <1>4, <3>1, BlocksStay
  <2>2. CASE cap # 0
    <3>1. PICK b \in HeapBlocks : /\ heap[b] = FreeBlock
                              /\ v = Vec(type, b, cap, <<>>)
                              /\ heap' = [heap EXCEPT ![b] = BlockOf(type, cap)]
      BY <1>2, <2>2
    <3>2. Made(o)' = BlockOf(type, cap) /\ vecs'[o].block = b
      BY <1>4, <3>1 DEF Made, Vec
    <3>3. BlockOf(type, cap) \in HeapRecords
      BY BlockIsRecord
    <3>4. heap \in [HeapBlocks -> HeapRecords]
      BY DEF BlocksSound
    <3>5. Makes(o, b)
      <4>1. heap[b].state # "live"
        BY <3>1, FreeIsRecord
      <4>2. /\ heap' \in [HeapBlocks -> HeapRecords] /\ heap'[b] = BlockOf(type, cap)
            /\ \A c \in HeapBlocks : c # b => heap'[c] = heap[c]
        BY <3>1, <3>3, <3>4
      <4>3. \A c \in HeapBlocks : c # vecs[o].block
        BY <1>1, VecBufferAssumption
      <4> QED
        BY <3>2, <4>1, <4>2, <4>3 DEF Makes
    <3> QED
      BY <1>0, <1>4, <3>5, BlockMade
  <2> QED
    BY <2>1, <2>2
<1>7. ItemsSound'
  BY <1>0, <1>1, <1>2, <1>4, ItemsStay
<1> QED
  BY <1>4, <1>5, <1>6, <1>7

\* What it held is dropped, and its allocation is given back.
LEMMA Drops ==
  ASSUME VecInv, NEW o \in Owners, Drop(o), o = "buffer" => ~ vecs["temp"].there
  PROVE  VecInv'
<1> USE DEF VecInv
<1>1. /\ vecs' = [vecs EXCEPT ![o] = Absent] /\ heap' = GivesBack(vecs[o])
      /\ fate' = Meet(vecs[o], "dropped")
  BY DEF Drop
<1>2. VecsSound' /\ vecs'[o] = Absent /\ OthersKeep(o) /\ OthersKeepItems(o)
  BY <1>1, NewVecs, OneChanges
<1>3. Absent.items = <<>> /\ Absent.block = NoBlock /\ ~ Absent.there
  BY DEF Absent, EmptyVec, Vec
<1>4. Lent'
  <2>1. CASE o = "buffer"
    <3>1. vecs'["temp"] = vecs["temp"] /\ vecs'["buffer"] = Absent
      BY <1>2, <2>1 DEF OthersKeep, Owners
    <3> QED
      BY <1>3, <2>1, <3>1 DEF Lent
  <2>2. CASE o # "buffer"
    <3>1. /\ vecs'["buffer"] = vecs["buffer"]
          /\ vecs'["temp"] = vecs["temp"] \/ vecs'["temp"] = Absent
      BY <1>2, <2>2 DEF OthersKeep, Owners
    <3> QED
      BY <1>3, <3>1 DEF Lent
  <2> QED
    BY <2>1, <2>2
<1>5. Unmakes(o)
  BY <1>1, FreeIsRecord DEF Unmakes, GivesBack, BlocksSound
<1>6. BlocksSound'
  BY <1>2, <1>3, <1>5, BlockLeft
<1>7. ItemsSound'
  BY <1>1, <1>2, <1>3, ItemsMeet DEF Fates
<1> QED
  BY <1>2, <1>4, <1>6, <1>7

\* What the fields of a vector are.
LEMMA VecFields ==
  ASSUME VecsSound, NEW o \in Owners
  PROVE  /\ vecs[o] \in VecRecords /\ Proper(o, vecs[o])
         /\ vecs[o].type \in Types /\ vecs[o].there \in BOOLEAN
         /\ vecs[o].cap \in Nat /\ vecs[o].cap <= MaxCap /\ MaxCap \in Nat
         /\ vecs[o].items \in Seq(Items) /\ Len(vecs[o].items) \in Nat
         /\ Len(vecs[o].items) <= vecs[o].cap
<1>1. vecs[o] \in VecRecords /\ Proper(o, vecs[o])
  BY DEF VecsSound
<1>2. vecs[o].cap \in 0 .. MaxCap /\ vecs[o].items \in Seq(Items)
  BY <1>1 DEF VecRecords
<1> QED
  BY <1>1, <1>2, LenProperties, VecBufferAssumption DEF Proper, VecRecords

\* A TempVec or the owner's vector has other elements, and the type it had.
LEMMA LentStays ==
  ASSUME Lent, NEW o \in Owners \ {"buffer"}, OthersKeep(o),
         vecs'[o].there = vecs[o].there, vecs'[o].type = vecs[o].type
  PROVE  Lent'
<1>1. vecs'["buffer"] = vecs["buffer"]
  BY DEF OthersKeep, Owners
<1>2. vecs'["temp"].there = vecs["temp"].there /\ vecs'["temp"].type = vecs["temp"].type
  BY DEF OthersKeep, Owners
<1> QED
  BY <1>1, <1>2 DEF Lent

LEMMA Pushes ==
  ASSUME VecInv, NEW o \in Owners \ {"buffer"}, NEW item \in Items,
         vecs[o].there, Takes(o, item), Pushed(o, item),
         IF o = "option" THEN Len(vecs[o].items) < vecs[o].cap
         ELSE Len(vecs[o].items) < MaxCap
  PROVE  /\ VecInv' /\ vecs'[o].there
         /\ vecs'[o].items = Append(vecs[o].items, item)
         /\ Len(vecs[o].items) < vecs[o].cap => vecs'[o].cap = vecs[o].cap
<1> USE DEF VecInv
<1> DEFINE v == vecs[o]
           longer == Append(v.items, item)
<1>1. /\ v \in VecRecords /\ Proper(o, v) /\ v.type \in Types
      /\ v.cap \in Nat /\ v.cap <= MaxCap /\ MaxCap \in Nat
      /\ v.items \in Seq(Items) /\ Len(v.items) \in Nat /\ Len(v.items) <= v.cap
  BY VecFields
<1>2. fate[item] = "caller" /\ TypeOf[item] = v.type
  BY DEF Takes
<1>3. item \notin Held(o)
  BY <1>2 DEF ItemsSound
<1>4. /\ longer \in Seq(Items) /\ Len(longer) = Len(v.items) + 1
      /\ ToSet(longer) = Held(o) \cup {item} /\ IsInjective(longer)
  BY <1>1, <1>3, WithOneMore DEF ItemsSound, Held
<1>5. PICK b \in HeapBlocks \cup {NoBlock}, cap \in 0 .. MaxCap :
        /\ vecs' = [vecs EXCEPT ![o] = [v EXCEPT !.items = longer, !.block = b, !.cap = cap]]
        /\ IF Len(v.items) < v.cap
           THEN b = v.block /\ cap = v.cap /\ heap' = heap
           ELSE /\ b \in HeapBlocks /\ cap = v.cap + 1
                /\ b = v.block \/ heap[b] = FreeBlock
                /\ heap' = [GivesBack(v) EXCEPT ![b] = BlockOf(v.type, cap)]
  <2>1. CASE Len(v.items) < v.cap
    <3>1. v.block \in HeapBlocks \cup {NoBlock} /\ v.cap \in 0 .. MaxCap
      BY <1>1 DEF VecRecords
    <3>2. [v EXCEPT !.items = longer, !.block = v.block, !.cap = v.cap] = [v EXCEPT !.items = longer]
      BY <1>1 DEF VecRecords
    <3>3. /\ vecs' = [vecs EXCEPT ![o] = [v EXCEPT !.items = longer]] /\ heap' = heap
      BY <2>1 DEF Pushed
    <3> QED
      BY <2>1, <3>1, <3>2, <3>3
  <2>2. CASE ~ (Len(v.items) < v.cap)
    <3>1. v.cap + 1 \in 0 .. MaxCap
      BY <1>1, <2>2
    <3>2. PICK b \in HeapBlocks :
            /\ b = v.block \/ heap[b] = FreeBlock
            /\ vecs' = [vecs EXCEPT ![o] = [[v EXCEPT !.items = longer] EXCEPT !.block = b, !.cap = @ + 1]]
            /\ heap' = [GivesBack(v) EXCEPT ![b] = BlockOf(v.type, v.cap + 1)]
      BY <2>2 DEF Pushed
    <3>3. [[v EXCEPT !.items = longer] EXCEPT !.block = b, !.cap = @ + 1]
            = [v EXCEPT !.items = longer, !.block = b, !.cap = v.cap + 1]
      BY <1>1 DEF VecRecords
    <3> QED
      BY <2>2, <3>1, <3>2, <3>3
  <2> QED
    BY <2>1, <2>2
<1> DEFINE w == [v EXCEPT !.items = longer, !.block = b, !.cap = cap]
<1>6. /\ w \in VecRecords /\ w.items = longer /\ w.block = b /\ w.cap = cap
      /\ w.type = v.type /\ w.there = v.there
  BY <1>1, <1>4 DEF VecRecords
<1> HIDE DEF v, longer, w
<1>7. Proper(o, w)
  <2>1. CASE Len(v.items) < v.cap
    BY <1>1, <1>4, <1>5, <1>6, <2>1 DEF Proper, v
  <2>2. CASE ~ (Len(v.items) < v.cap)
    <3>1. o # "option" /\ b # NoBlock /\ cap # 0 /\ Len(longer) <= cap
      BY <1>1, <1>4, <1>5, <2>2, VecBufferAssumption DEF v
    <3> QED
      BY <1>6, <3>1 DEF Proper, v
  <2> QED
    BY <2>1, <2>2
<1>8. vecs' = [vecs EXCEPT ![o] = w]
  BY <1>5 DEF w
<1>9. VecsSound' /\ vecs'[o] = w /\ OthersKeep(o) /\ OthersKeepItems(o)
  BY <1>7, <1>8, OneChanges
<1>10. Lent'
  BY <1>6, <1>9, LentStays DEF v
<1>11. BlocksSound'
  <2>1. CASE Len(v.items) < v.cap
    <3>1. vecs'[o].block = vecs[o].block /\ Made(o)' = Made(o)
      BY <1>5, <1>6, <1>9, <2>1 DEF Made, v
    <3> QED
      BY <1>5, <1>9, <2>1, <3>1, BlocksStay
  <2>2. CASE ~ (Len(v.items) < v.cap)
    <3>1. Made(o)' = BlockOf(v.type, cap) /\ vecs'[o].block = b
      BY <1>6, <1>9 DEF Made
    <3>2. BlockOf(v.type, cap) \in HeapRecords
      BY <1>1, BlockIsRecord
    <3>3. b \in HeapBlocks /\ (b = vecs[o].block \/ heap[b].state # "live")
      BY <1>5, <2>2, FreeIsRecord DEF v
    <3>4. heap' = [GivesBack(v) EXCEPT ![b] = BlockOf(v.type, cap)]
      BY <1>5, <2>2
    <3>5. /\ heap' \in [HeapBlocks -> HeapRecords] /\ heap'[b] = BlockOf(v.type, cap)
          /\ \A c \in HeapBlocks : c # b => heap'[c] = IF c = v.block THEN FreeBlock ELSE heap[c]
      BY <3>2, <3>3, <3>4, FreeIsRecord DEF GivesBack, BlocksSound
    <3>6. Makes(o, b)
      BY <3>1, <3>3, <3>5, FreeIsRecord DEF Makes, v
    <3> QED
      BY <1>9, <3>3, <3>6, BlockMade
  <2> QED
    BY <2>1, <2>2
<1>12. ItemsSound'
  <2>1. /\ fate' \in [Items -> Fates] /\ fate'[item] = "held"
        /\ \A i \in Items : i # item => fate'[i] = fate[i]
    BY DEF Pushed, ItemsSound, Fates
  <2>2. Held(o)' = (Held(o) \ {}) \cup {item} /\ IsInjective(vecs'[o].items)
    BY <1>4, <1>6, <1>9 DEF Held
  <2>3. vecs'[o].type = vecs[o].type
    BY <1>6, <1>9 DEF v
  <2>4. Trades(o, {}, {item})
    BY <1>2, <2>1, <2>2, <2>3 DEF Trades, v
  <2> QED
    BY <1>9, <2>4, ItemsChange
<1> QED
  BY <1>5, <1>6, <1>9, <1>10, <1>11, <1>12 DEF v, longer

LEMMA Pops ==
  ASSUME VecInv, NEW o \in Owners \ {"buffer"}, Pop(o)
  PROVE  VecInv'
<1> USE DEF VecInv
<1> DEFINE v == vecs[o]
           w == [v EXCEPT !.items = Front(@)]
           last == Last(v.items)
<1>1. /\ vecs' = [vecs EXCEPT ![o] = w] /\ fate' = [fate EXCEPT ![last] = "caller"]
      /\ heap' = heap /\ v.items # <<>>
  BY DEF Pop
<1>2. /\ v \in VecRecords /\ Proper(o, v) /\ v.cap \in Nat
      /\ v.items \in Seq(Items) /\ Len(v.items) \in Nat /\ Len(v.items) <= v.cap
  BY VecFields
<1>3. /\ Front(v.items) \in Seq(Items) /\ Len(Front(v.items)) = Len(v.items) - 1
      /\ last \in Held(o) /\ ToSet(Front(v.items)) = Held(o) \ {last}
      /\ IsInjective(Front(v.items))
  BY <1>1, <1>2, WithoutTheLast DEF ItemsSound, Held
<1>4. /\ w \in VecRecords /\ w.items = Front(v.items) /\ w.block = v.block
      /\ w.cap = v.cap /\ w.type = v.type /\ w.there = v.there
  BY <1>2, <1>3 DEF VecRecords
<1> HIDE DEF w, last
<1>5. Proper(o, w)
  <2>1. Len(w.items) <= w.cap
    BY <1>2, <1>3, <1>4
  <2> HIDE DEF v
  <2> QED
    BY <1>2, <1>4, <2>1 DEF Proper
<1>6. VecsSound' /\ vecs'[o] = w /\ OthersKeep(o) /\ OthersKeepItems(o)
  BY <1>1, <1>5, OneChanges
<1>7. Lent'
  BY <1>4, <1>6, LentStays
<1>8. BlocksSound'
  <2>1. vecs'[o].block = vecs[o].block /\ Made(o)' = Made(o)
    BY <1>4, <1>6 DEF Made
  <2> QED
    BY <1>1, <1>6, <2>1, BlocksStay
<1>9. ItemsSound'
  <2>1. last \in Items
    BY <1>3, HeldAreItems
  <2>2. /\ fate' \in [Items -> Fates] /\ fate'[last] = "caller"
        /\ \A i \in Items : i # last => fate'[i] = fate[i]
    BY <1>1, <2>1 DEF ItemsSound, Fates
  <2>3. Held(o)' = (Held(o) \ {last}) \cup {} /\ IsInjective(vecs'[o].items)
    BY <1>3, <1>4, <1>6 DEF Held
  <2>4. vecs'[o].type = vecs[o].type
    BY <1>4, <1>6
  <2>5. Trades(o, {last}, {})
    BY <1>3, <2>2, <2>3, <2>4 DEF Trades
  <2> QED
    BY <1>6, <2>5, ItemsChange
<1> QED
  BY <1>6, <1>7, <1>8, <1>9

\* shrink_to_fit tells the allocator the layout that is left, and gives back an
\* allocation for nothing.
LEMMA Shrinks ==
  ASSUME VecInv, NEW o \in {"own", "temp"}, ShrinkToFit(o)
  PROVE  VecInv'
<1> USE DEF VecInv
<1> DEFINE v == vecs[o]
           n == Len(v.items)
<1>0. o \in Owners \ {"buffer"} /\ o # "option"
  BY DEF Owners
<1>1. /\ v \in VecRecords /\ Proper(o, v) /\ v.type \in Types
      /\ v.cap \in Nat /\ v.cap <= MaxCap /\ MaxCap \in Nat
      /\ v.items \in Seq(Items) /\ n \in Nat
  BY <1>0, VecFields
<1>2. PICK b \in HeapBlocks \cup {NoBlock} :
        /\ vecs' = [vecs EXCEPT ![o] = [v EXCEPT !.cap = n, !.block = b]]
        /\ b = IF n = 0 THEN NoBlock ELSE v.block
  <2>1. /\ v.block \in HeapBlocks \cup {NoBlock}
        /\ \A b : [v EXCEPT !.cap = n, !.block = b] = [[v EXCEPT !.cap = n] EXCEPT !.block = b]
    BY <1>1 DEF VecRecords
  <2>2. vecs' = [vecs EXCEPT ![o] = [v EXCEPT !.cap = n, !.block = IF n = 0 THEN NoBlock ELSE v.block]]
    BY <1>0, <1>1 DEF ShrinkToFit, VecsSound, VecRecords
  <2> QED
    BY <2>1, <2>2
<1>3. /\ n < v.cap /\ fate' = fate
      /\ heap' = IF n = 0 THEN GivesBack(v) ELSE [heap EXCEPT ![v.block] = BlockOf(v.type, n)]
  BY DEF ShrinkToFit
<1> DEFINE w == [v EXCEPT !.cap = n, !.block = b]
<1>4. n \in 0 .. MaxCap
  BY <1>1, <1>3
<1>5. /\ w \in VecRecords /\ w.items = v.items /\ w.block = b
      /\ w.cap = n /\ w.type = v.type /\ w.there = v.there
  BY <1>1, <1>4 DEF VecRecords
<1>6. v.cap # 0 /\ v.block # NoBlock /\ v.there
  BY <1>0, <1>1, <1>3 DEF Proper, VecRecords
<1> HIDE DEF w
<1>7. Proper(o, w)
  <2>1. Len(w.items) <= w.cap /\ (b = NoBlock <=> n = 0) /\ w.there
    BY <1>1, <1>2, <1>5, <1>6
  <2> HIDE DEF v, n
  <2> QED
    BY <1>0, <1>5, <2>1 DEF Proper
<1>8. VecsSound' /\ vecs'[o] = w /\ OthersKeep(o) /\ OthersKeepItems(o)
  BY <1>0, <1>2, <1>7, OneChanges DEF w
<1>9. Lent'
  BY <1>0, <1>5, <1>8, LentStays
<1>10. BlocksSound'
  <2>1. CASE n = 0
    <3>1. Unmakes(o)
      BY <1>3, <2>1, FreeIsRecord DEF Unmakes, GivesBack, BlocksSound
    <3> QED
      BY <1>0, <1>2, <1>5, <1>8, <2>1, <3>1, BlockLeft
  <2>2. CASE n # 0
    <3>1. b \in HeapBlocks /\ b = vecs[o].block
      BY <1>2, <1>6, <2>2
    <3>2. Made(o)' = BlockOf(v.type, n) /\ vecs'[o].block = b
      BY <1>5, <1>8 DEF Made
    <3>3. BlockOf(v.type, n) \in HeapRecords
      BY <1>1, <1>4, BlockIsRecord
    <3>4. heap' = [heap EXCEPT ![b] = BlockOf(v.type, n)]
      BY <1>3, <2>2, <3>1
    <3>5. /\ heap' \in [HeapBlocks -> HeapRecords] /\ heap'[b] = BlockOf(v.type, n)
          /\ \A c \in HeapBlocks : c # b => heap'[c] = heap[c]
      BY <3>1, <3>3, <3>4 DEF BlocksSound
    <3>6. Makes(o, b)
      BY <3>1, <3>2, <3>5 DEF Makes
    <3> QED
      BY <1>0, <1>8, <3>1, <3>6, BlockMade
  <2> QED
    BY <2>1, <2>2
<1>11. ItemsSound'
  BY <1>0, <1>3, <1>5, <1>8, ItemsStay
<1> QED
  BY <1>8, <1>9, <1>10, <1>11

\* An option is there from now on, and holds nothing.
LEMMA OptionMade ==
  ASSUME VecInv, NEW type \in Types, Option(type)
  PROVE  VecInv'
<1> USE DEF VecInv
<1> DEFINE v == Vec(type, NoBlock, 1, <<>>)
<1>1. /\ ~ vecs["option"].there /\ vecs' = [vecs EXCEPT !["option"] = v]
      /\ heap' = heap /\ fate' = fate
  BY DEF Option
<1>2. v.block = NoBlock /\ v.items = <<>>
  BY DEF Vec
<1> HIDE DEF v
<1>3. /\ "option" \in Owners /\ vecs["option"].block = NoBlock
      /\ vecs["option"].items = <<>> /\ Held("option") = {}
  BY <1>1, AbsentIsEmpty DEF Owners
<1>4. VecsSound' /\ vecs'["option"] = v /\ OthersKeep("option") /\ OthersKeepItems("option")
  <2>1. Proper("option", v)
    BY NewVecs DEF v
  <2> QED
    BY <1>1, <1>3, <2>1, OneChanges
<1>5. Lent'
  <2>1. vecs'["buffer"] = vecs["buffer"] /\ vecs'["temp"] = vecs["temp"]
    BY <1>4 DEF OthersKeep, Owners
  <2> QED
    BY <2>1 DEF Lent
<1>6. BlocksSound'
  BY <1>1, <1>2, <1>3, <1>4, BlocksStay
<1>7. ItemsSound'
  BY <1>1, <1>2, <1>3, <1>4, ItemsStay
<1> QED
  BY <1>4, <1>5, <1>6, <1>7

------------------------------------------------------------------------------
(* What the steps of the buffer do *)

\* An allocation goes from one vector to another of a type with its layout, and
\* what the other had before is given back.
Hands(o, p, type, w) ==
  /\ vecs[o].there
  /\ type \in Types /\ SameLayout(vecs[o].type, type)
  /\ Proper(o, w) /\ w.block = NoBlock
  /\ vecs' = [vecs EXCEPT ![p] = ForgetVec(vecs[o], type), ![o] = w]
  /\ Unmakes(p)

LEMMA HandsOver ==
  ASSUME VecsSound, BlocksSound, NEW o \in Owners \ {"option"}, NEW p \in Owners \ {"option"},
         NEW type, NEW w, o # p, Hands(o, p, type, w)
  PROVE  /\ VecsSound' /\ BlocksSound'
         /\ vecs'[o] = w
         /\ vecs'[p].items = <<>> /\ vecs'[p].there /\ vecs'[p].type = type
         /\ \A q \in Owners \ {o, p} : vecs'[q] = vecs[q]
<1> DEFINE v == ForgetVec(vecs[o], type)
<1>0. /\ vecs[o].there /\ type \in Types /\ SameLayout(vecs[o].type, type)
      /\ Proper(o, w) /\ w.block = NoBlock /\ Unmakes(p)
  BY DEF Hands
<1>1. /\ vecs[o] \in VecRecords /\ Proper(o, vecs[o]) /\ vecs[o].cap \in Nat
  BY VecFields
<1>2. /\ v \in VecRecords /\ v.items = <<>> /\ v.block = vecs[o].block
      /\ v.cap = vecs[o].cap /\ v.type = type /\ v.there
  BY <1>0, <1>1, EmptySeq DEF ForgetVec, VecRecords
<1> HIDE DEF v
<1>3. Proper(p, v)
  <2>1. Len(v.items) <= v.cap
    BY <1>1, <1>2, EmptySeq
  <2> QED
    BY <1>1, <1>2, <2>1 DEF Proper
<1>4. SetsTwo(p, v, o, w)
  BY DEF Hands, v, SetsTwo
<1>5. /\ VecsSound' /\ vecs'[p] = v /\ vecs'[o] = w
      /\ \A q \in Owners \ {o, p} : vecs'[q] = vecs[q]
  <2>1. /\ VecsSound' /\ vecs'[p] = v /\ vecs'[o] = w
        /\ \A q \in Owners \ {p, o} : vecs'[q] = vecs[q]
    BY <1>0, <1>3, <1>4, TwoChange
  <2> QED
    BY <2>1
<1>6. Made(p)' = Made(o)
  BY <1>0, <1>2, <1>5 DEF Made, BlockOf, SameLayout
<1>7. BlocksSound'
  BY <1>0, <1>2, <1>5, <1>6, BlockMoves
<1> QED
  BY <1>2, <1>5, <1>7

\* A vector that has no allocation has none to give back.
LEMMA NothingUnmade ==
  ASSUME BlocksSound, NEW o \in Owners, vecs[o].block = NoBlock, heap' = heap
  PROVE  Unmakes(o)
<1>1. \A c \in HeapBlocks : c # vecs[o].block
  BY VecBufferAssumption
<1> QED
  BY <1>1 DEF Unmakes, BlocksSound

LEMMA BufferFromVec ==
  ASSUME VecInv, FromVec
  PROVE  VecInv'
<1> USE DEF VecInv
<1> DEFINE vec == vecs["own"]
<1>1. /\ vec.there /\ ~ vecs["buffer"].there /\ heap' = heap
      /\ vecs' = [vecs EXCEPT !["buffer"] = [vec EXCEPT !.items = <<>>], !["own"] = Absent]
      /\ fate' = Meet(vec, "dropped")
  BY DEF FromVec
<1>2. "own" \in Owners \ {"option"} /\ "buffer" \in Owners \ {"option"} /\ "own" # "buffer"
  BY DEF Owners
<1>3. vec \in VecRecords /\ vec.type \in Types
  BY <1>2, VecFields
<1>4. [vec EXCEPT !.items = <<>>] = ForgetVec(vec, vec.type)
  BY <1>3 DEF ForgetVec, VecRecords
<1>5. /\ vecs["buffer"].block = NoBlock /\ vecs["buffer"].items = <<>> /\ Held("buffer") = {}
      /\ ~ vecs["temp"].there
  BY <1>1, <1>2, AbsentIsEmpty DEF Lent
<1>6. Absent.block = NoBlock /\ Absent.items = <<>> /\ Proper("own", Absent)
  BY <1>2, NewVecs DEF Absent, EmptyVec, Vec
<1>7. SameLayout(vec.type, vec.type)
  BY DEF SameLayout
<1>8. Unmakes("buffer")
  BY <1>1, <1>2, <1>5, NothingUnmade
<1>9. vecs' = [vecs EXCEPT !["buffer"] = ForgetVec(vec, vec.type), !["own"] = Absent]
  BY <1>1, <1>4
<1>10. /\ VecsSound' /\ BlocksSound' /\ vecs'["own"] = Absent
       /\ vecs'["buffer"].items = <<>> /\ vecs'["buffer"].there
       /\ \A q \in Owners \ {"own", "buffer"} : vecs'[q] = vecs[q]
  <2>1. Hands("own", "buffer", vec.type, Absent)
    BY <1>1, <1>3, <1>6, <1>7, <1>8, <1>9 DEF Hands
  <2> QED
    BY <1>2, <2>1, HandsOver
<1>11. Lent'
  <2>1. vecs'["temp"] = vecs["temp"]
    BY <1>10 DEF Owners
  <2> QED
    BY <1>5, <1>10, <2>1 DEF Lent
<1>12. ItemsSound'
  <2>1. OthersKeepItems("own")
    BY <1>5, <1>10 DEF OthersKeepItems
  <2> QED
    BY <1>1, <1>2, <1>6, <1>10, <2>1, ItemsMeet DEF Fates
<1> QED
  BY <1>10, <1>11, <1>12

LEMMA BufferUsed ==
  ASSUME VecInv, NEW type \in Types, UseFor(type)
  PROVE  VecInv'
<1> USE DEF VecInv
<1> DEFINE from == vecs["buffer"]
<1>1. /\ from.there /\ ~ vecs["temp"].there /\ SameLayout(from.type, type) /\ heap' = heap
      /\ vecs' = [vecs EXCEPT !["temp"] = ForgetVec(from, type), !["buffer"] = EmptyVec(from.type)]
      /\ fate' = Meet(from, "lost")
  BY DEF UseFor
<1>2. "temp" \in Owners \ {"option"} /\ "buffer" \in Owners \ {"option"} /\ "temp" # "buffer"
  BY DEF Owners
<1>3. from.type \in Types
  BY <1>2, VecFields
<1>4. vecs["temp"].block = NoBlock /\ vecs["temp"].items = <<>> /\ Held("temp") = {}
  BY <1>1, <1>2, AbsentIsEmpty
<1> DEFINE empty == EmptyVec(from.type)
<1>5. /\ empty.block = NoBlock /\ empty.items = <<>> /\ empty.type = from.type /\ empty.there
      /\ Proper("buffer", empty)
  BY <1>2, <1>3, NewVecs DEF EmptyVec, Vec
<1>6. Unmakes("temp")
  BY <1>1, <1>2, <1>4, NothingUnmade
<1> HIDE DEF empty
<1>7. vecs' = [vecs EXCEPT !["temp"] = ForgetVec(from, type), !["buffer"] = empty]
  BY <1>1 DEF empty
<1>8. /\ VecsSound' /\ BlocksSound' /\ vecs'["buffer"] = empty
      /\ vecs'["temp"].items = <<>> /\ vecs'["temp"].there /\ vecs'["temp"].type = type
      /\ \A q \in Owners \ {"buffer", "temp"} : vecs'[q] = vecs[q]
  <2>1. Hands("buffer", "temp", type, empty)
    BY <1>1, <1>5, <1>6, <1>7 DEF Hands
  <2> QED
    BY <1>2, <2>1, HandsOver
<1>9. Lent'
  BY <1>1, <1>5, <1>8 DEF Lent
<1>10. ItemsSound'
  <2>1. OthersKeepItems("buffer")
    BY <1>4, <1>8 DEF OthersKeepItems
  <2> QED
    BY <1>1, <1>2, <1>5, <1>8, <2>1, ItemsMeet DEF Fates
<1> QED
  BY <1>8, <1>9, <1>10

\* swap_internal_with gives the allocation back as a vector of the buffer's type.
LEMMA TempDropped ==
  ASSUME VecInv, TempDrop
  PROVE  VecInv'
<1> USE DEF VecInv
<1> DEFINE from == vecs["buffer"]
           vec == vecs["temp"]
<1>1. /\ vec.there /\ heap' = GivesBack(from)
      /\ vecs' = [vecs EXCEPT !["buffer"] = ForgetVec(vec, from.type), !["temp"] = Absent]
  BY DEF TempDrop
<1>2. "temp" \in Owners \ {"option"} /\ "buffer" \in Owners \ {"option"} /\ "temp" # "buffer"
  BY DEF Owners
<1>3. from.type \in Types
  BY <1>2, VecFields
<1>4. from.items = <<>> /\ Held("buffer") = {} /\ SameLayout(vec.type, from.type)
  BY <1>1, NothingInEmpty DEF Lent, Held, SameLayout
<1>5. fate' = Meet(vec, "dropped")
  <2>1. fate' = [i \in Items |-> IF i \in ToSet(from.items) THEN "dropped"
                                 ELSE Meet(vec, "dropped")[i]]
    BY DEF TempDrop
  <2>2. \A i \in Items : i \notin ToSet(from.items)
    BY <1>4, NothingInEmpty
  <2>3. fate' = [i \in Items |-> Meet(vec, "dropped")[i]]
    BY <2>1, <2>2
  <2> QED
    BY <2>3 DEF Meet
<1>6. Absent.block = NoBlock /\ Absent.items = <<>> /\ ~ Absent.there /\ Proper("temp", Absent)
  BY <1>2, NewVecs DEF Absent, EmptyVec, Vec
<1>7. Unmakes("buffer")
  BY <1>1, FreeIsRecord DEF Unmakes, GivesBack, BlocksSound
<1>8. /\ VecsSound' /\ BlocksSound' /\ vecs'["temp"] = Absent
      /\ vecs'["buffer"].items = <<>> /\ vecs'["buffer"].there
      /\ \A q \in Owners \ {"temp", "buffer"} : vecs'[q] = vecs[q]
  <2>1. Hands("temp", "buffer", from.type, Absent)
    BY <1>1, <1>3, <1>4, <1>6, <1>7 DEF Hands
  <2> QED
    BY <1>2, <2>1, HandsOver
<1>9. Lent'
  BY <1>6, <1>8 DEF Lent
<1>10. ItemsSound'
  <2>1. OthersKeepItems("temp")
    BY <1>4, <1>8 DEF OthersKeepItems
  <2> QED
    BY <1>2, <1>5, <1>6, <1>8, <2>1, ItemsMeet DEF Fates
<1> QED
  BY <1>8, <1>9, <1>10

\* A TempVec that is forgotten leaks its allocation and its elements.
LEMMA TempForgotten ==
  ASSUME VecInv, TempForget
  PROVE  VecInv'
<1> USE DEF VecInv
<1> DEFINE vec == vecs["temp"]
<1>1. /\ vecs' = [vecs EXCEPT !["temp"] = Absent] /\ fate' = Meet(vec, "lost")
      /\ heap' = [b \in HeapBlocks |-> IF b = vec.block THEN [heap[b] EXCEPT !.state = "leaked"]
                                   ELSE heap[b]]
  BY DEF TempForget
<1>2. "temp" \in Owners
  BY DEF Owners
<1>3. Absent.block = NoBlock /\ Absent.items = <<>> /\ ~ Absent.there /\ Proper("temp", Absent)
  BY <1>2, NewVecs DEF Absent, EmptyVec, Vec
<1>4. VecsSound' /\ vecs'["temp"] = Absent /\ OthersKeep("temp") /\ OthersKeepItems("temp")
  BY <1>1, <1>2, <1>3, OneChanges
<1>5. Lent'
  <2>1. vecs'["buffer"] = vecs["buffer"]
    BY <1>4 DEF OthersKeep, Owners
  <2> QED
    BY <1>3, <1>4, <2>1 DEF Lent
<1>6. BlocksSound'
  <2>1. \A b \in HeapBlocks : /\ [heap[b] EXCEPT !.state = "leaked"] \in HeapRecords
                          /\ [heap[b] EXCEPT !.state = "leaked"].state # "live"
    BY DEF BlocksSound, HeapRecords
  <2>2. heap' \in [HeapBlocks -> HeapRecords]
    BY <1>1, <2>1 DEF BlocksSound
  <2>3. Unmakes("temp")
    BY <1>1, <2>1, <2>2 DEF Unmakes
  <2> QED
    BY <1>2, <1>3, <1>4, <2>3, BlockLeft
<1>7. ItemsSound'
  BY <1>1, <1>2, <1>3, <1>4, ItemsMeet DEF Fates
<1> QED
  BY <1>4, <1>5, <1>6, <1>7

LEMMA Exchanges ==
  ASSUME VecInv, Exchange
  PROVE  VecInv'
<1> USE DEF VecInv
<1>1. /\ vecs["temp"].there /\ vecs["own"].there /\ vecs["temp"].type = vecs["own"].type
      /\ vecs' = [vecs EXCEPT !["temp"] = vecs["own"], !["own"] = vecs["temp"]]
      /\ heap' = heap /\ fate' = fate
  BY DEF Exchange
<1>2. "temp" \in Owners /\ "own" \in Owners /\ "temp" # "own"
  BY DEF Owners
<1>3. Proper("temp", vecs["own"]) /\ Proper("own", vecs["temp"])
  BY <1>2, VecFields DEF Proper
<1>4. /\ VecsSound' /\ vecs'["temp"] = vecs["own"] /\ vecs'["own"] = vecs["temp"]
      /\ \A q \in Owners \ {"temp", "own"} : vecs'[q] = vecs[q]
  <2>1. SetsTwo("temp", vecs["own"], "own", vecs["temp"])
    BY <1>1 DEF SetsTwo
  <2> QED
    BY <1>2, <1>3, <2>1, TwoChange
<1>5. Lent'
  <2>1. vecs'["buffer"] = vecs["buffer"]
    BY <1>4 DEF Owners
  <2> QED
    BY <1>1, <1>4, <2>1 DEF Lent
\* Whose a vector was before.
<1> DEFINE Was(o) == CASE o = "temp" -> "own" [] o = "own" -> "temp" [] OTHER -> o
<1>6. ASSUME NEW o \in Owners
      PROVE  Was(o) \in Owners /\ vecs'[o] = vecs[Was(o)] /\ Was(Was(o)) = o
  <2>1. CASE o = "temp"
    BY <1>2, <1>4, <2>1
  <2>2. CASE o = "own"
    BY <1>2, <1>4, <2>2
  <2>3. CASE o # "temp" /\ o # "own"
    BY <1>4, <2>3
  <2> QED
    BY <2>1, <2>2, <2>3
<1> HIDE DEF Was
<1>7. ASSUME NEW o \in Owners
      PROVE  Made(o)' = Made(Was(o)) /\ Held(o)' = Held(Was(o))
  BY <1>6 DEF Made, Held
<1>8. BlocksSound'
  <2>1. ASSUME NEW o \in Owners, vecs'[o].block # NoBlock
        PROVE  heap'[vecs'[o].block] = Made(o)'
    <3>1. PICK p \in Owners : vecs'[o] = vecs[p] /\ Made(o)' = Made(p)
      BY <1>6, <1>7
    <3>2. heap[vecs[p].block] = Made(p)
      BY <2>1, <3>1 DEF BlocksSound
    <3> QED
      BY <1>1, <3>1, <3>2
  <2>2. ASSUME NEW o \in Owners, NEW p \in Owners, vecs'[o].block = vecs'[p].block
        PROVE  o = p \/ vecs'[o].block = NoBlock
    <3>1. Was(o) = Was(p) \/ vecs'[o].block = NoBlock
      BY <1>6, <2>2 DEF BlocksSound
    <3> QED
      BY <1>6, <3>1
  <2>3. ASSUME NEW b \in HeapBlocks, heap'[b].state = "live"
        PROVE  \E o \in Owners : vecs'[o].block = b
    <3>1. PICK p \in Owners : vecs[p].block = b
      BY <1>1, <2>3 DEF BlocksSound
    <3>2. Was(p) \in Owners /\ vecs'[Was(p)] = vecs[p]
      BY <1>6
    <3> QED
      BY <3>1, <3>2
  <2> QED
    BY <1>1, <2>1, <2>2, <2>3 DEF BlocksSound
<1>9. ItemsSound'
  <2>1. ASSUME NEW o \in Owners
        PROVE  /\ IsInjective(vecs'[o].items)
               /\ \A i \in Held(o)' : fate'[i] = "held" /\ TypeOf[i] = vecs'[o].type
    <3>1. PICK p \in Owners : vecs'[o] = vecs[p] /\ Held(o)' = Held(p)
      BY <1>6, <1>7
    <3>2. \A i \in Held(p) : fate[i] = "held" /\ TypeOf[i] = vecs[p].type
      BY DEF ItemsSound
    <3>3. IsInjective(vecs[p].items)
      BY DEF ItemsSound
    <3>4. IsInjective(vecs'[o].items)
      BY <3>1, <3>3
    <3> QED
      BY <1>1, <3>1, <3>2, <3>4
  <2>2. ASSUME NEW o \in Owners, NEW p \in Owners, NEW i \in Held(o)', i \in Held(p)'
        PROVE  o = p
    <3>1. Was(o) = Was(p)
      BY <1>6, <1>7, <2>2 DEF ItemsSound
    <3> QED
      BY <1>6, <3>1
  <2>3. ASSUME NEW i \in Items, fate'[i] = "held"
        PROVE  \E o \in Owners : i \in Held(o)'
    <3>1. PICK p \in Owners : i \in Held(p)
      BY <1>1, <2>3 DEF ItemsSound
    <3>2. Was(p) \in Owners /\ Held(Was(p))' = Held(p)
      BY <1>6, <1>7
    <3> QED
      BY <3>1, <3>2
  <2> QED
    BY <1>1, <2>1, <2>2, <2>3 DEF ItemsSound
<1> QED
  BY <1>4, <1>5, <1>8, <1>9

------------------------------------------------------------------------------
(* Fill *)

Calls == [mode : Modes \cup {"none"}, on : Owners \ {"buffer"}, room : Int,
          taken : SUBSET Items, cap : Nat,
          running : BOOLEAN, overflow : BOOLEAN, unwound : BOOLEAN]

\* What a call of fill has made of container v so far.
CallFits(c, v) ==
  /\ c \in Calls
  /\ c.running => c.mode # "none" /\ c.overflow /\ ~ c.unwound
  /\ c.mode = "result" => c.on = "own"
  /\ c.mode \in {"vec", "option"} =>
       c.room = v.cap - Len(v.items) /\ c.taken \subseteq ToSet(v.items)
  /\ c.mode \in {"slice", "swap"} =>
       /\ c.room \in 0 .. Len(v.items)
       /\ c.taken = {v.items[k] : k \in 1 .. Len(v.items) - c.room}
  /\ c.mode \notin {"none", "result"} =>
       v.there /\ (~ c.running /\ ~ c.unwound => (c.overflow <=> c.room = 0))
  /\ c.mode = "none" \/ v.cap = c.cap \/ ~ v.there

CallSound == CallFits(call, On)

CallsInv == VecInv /\ CallSound

LEMMA NoCallSound == NoCall \in Calls /\ NoCall.mode = "none" /\ ~ NoCall.running
  BY DEF NoCall, Calls, Owners

LEMMA CallFields ==
  ASSUME CallSound
  PROVE  /\ call.mode \in Modes \cup {"none"} /\ call.on \in Owners \ {"buffer"}
         /\ call.room \in Int /\ call.taken \in SUBSET Items /\ call.cap \in Nat
         /\ call.running \in BOOLEAN /\ call.overflow \in BOOLEAN /\ call.unwound \in BOOLEAN
  BY DEF CallSound, CallFits, Calls

\* An item that is dropped at once leaves everything as it is.
LEMMA ItemDropped ==
  ASSUME VecInv, NEW item \in Items, fate[item] # "held",
         fate' = [fate EXCEPT ![item] = "dropped"], vecs' = vecs, heap' = heap
  PROVE  VecInv'
<1> USE DEF VecInv
<1>1. "own" \in Owners
  BY DEF Owners
<1>2. OthersKeep("own") /\ OthersKeepItems("own")
  BY DEF OthersKeep, OthersKeepItems
<1>3. VecsSound' /\ Lent' /\ BlocksSound'
  BY DEF VecsSound, Lent, BlocksSound, Made
<1>4. /\ fate' \in [Items -> Fates] /\ fate'[item] # "held"
      /\ \A i \in Items : i # item => fate'[i] = fate[i]
  BY DEF ItemsSound, Fates
<1>5. Held("own")' = (Held("own") \ {}) \cup {} /\ IsInjective(vecs'["own"].items)
  BY <1>1 DEF Held, ItemsSound
<1>6. Trades("own", {}, {})
  BY <1>4, <1>5 DEF Trades
<1>7. ItemsSound'
  BY <1>1, <1>2, <1>6, ItemsChange
<1> QED
  BY <1>3, <1>7

LEMMA ReplacesOne ==
  ASSUME VecInv, NEW item \in Items, call.on \in Owners \ {"buffer"},
         NEW place \in 1 .. Len(On.items), place = Len(On.items) - call.room + 1,
         Takes(call.on, item), Replaces(item)
  PROVE  /\ VecInv'
         /\ vecs'[call.on].items = [On.items EXCEPT ![place] = item]
         /\ vecs'[call.on].there = On.there
         /\ vecs'[call.on].cap = On.cap
<1> USE DEF VecInv
<1>1. PICK o \in Owners \ {"buffer"} : o = call.on
  OBVIOUS
<1> DEFINE v == vecs[o]
           s == [v.items EXCEPT ![place] = item]
           w == [v EXCEPT !.items = s]
           old == v.items[place]
<1>2. On = v
  BY <1>1 DEF On
<1>3. /\ vecs' = [vecs EXCEPT ![o] = w] /\ heap' = heap
      /\ \E end \in {"caller", "dropped"} :
           fate' = [fate EXCEPT ![item] = "held", ![old] = end]
  <2>1. /\ vecs' = [vecs EXCEPT ![call.on].items[place] = item] /\ heap' = heap
        /\ fate' = [fate EXCEPT ![item] = "held",
                        ![On.items[place]] = IF call.mode = "swap" THEN "caller" ELSE "dropped"]
    BY DEF Replaces
  <2> QED
    BY <1>1, <1>2, <2>1
<1>4. /\ v \in VecRecords /\ Proper(o, v) /\ v.items \in Seq(Items)
  BY VecFields
<1>5. fate[item] = "caller" /\ TypeOf[item] = v.type
  BY <1>1 DEF Takes
<1>6. item \notin Held(o)
  BY <1>5 DEF ItemsSound
<1>7. /\ s \in Seq(Items) /\ Len(s) = Len(v.items) /\ old \in Held(o)
      /\ ToSet(s) = (Held(o) \ {old}) \cup {item} /\ IsInjective(s)
  <2>1. place \in 1 .. Len(v.items)
    BY <1>2
  <2> QED
    BY <1>4, <1>6, <2>1, WithOneReplaced DEF ItemsSound, Held
<1>8. fate[old] = "held" /\ old \in Items /\ old # item
  BY <1>5, <1>7, HeldAreItems DEF ItemsSound
<1> HIDE DEF s, old
<1>9. /\ w \in VecRecords /\ w.items = s /\ w.block = v.block
      /\ w.cap = v.cap /\ w.type = v.type /\ w.there = v.there
  BY <1>4, <1>7 DEF VecRecords
<1> HIDE DEF w
<1>10. Proper(o, w)
  <2> HIDE DEF v
  <2> QED
    BY <1>4, <1>7, <1>9 DEF Proper
<1>11. VecsSound' /\ vecs'[o] = w /\ OthersKeep(o) /\ OthersKeepItems(o)
  BY <1>3, <1>10, OneChanges
<1>12. Lent'
  BY <1>9, <1>11, LentStays
<1>13. BlocksSound'
  <2>1. vecs'[o].block = vecs[o].block /\ Made(o)' = Made(o)
    BY <1>9, <1>11 DEF Made
  <2> QED
    BY <1>3, <1>11, <2>1, BlocksStay
<1>14. ItemsSound'
  <2>1. /\ fate' \in [Items -> Fates] /\ fate'[item] = "held" /\ fate'[old] # "held"
        /\ \A i \in Items : i # item /\ i # old => fate'[i] = fate[i]
    BY <1>3, <1>8 DEF ItemsSound, Fates
  <2>2. Held(o)' = (Held(o) \ {old}) \cup {item} /\ IsInjective(vecs'[o].items)
    BY <1>7, <1>9, <1>11 DEF Held
  <2>3. vecs'[o].type = vecs[o].type
    BY <1>9, <1>11
  <2>4. Trades(o, {old}, {item})
    BY <1>5, <1>7, <2>1, <2>2, <2>3 DEF Trades
  <2> QED
    BY <1>11, <2>4, ItemsChange
<1> QED
  BY <1>1, <1>2, <1>9, <1>11, <1>12, <1>13, <1>14 DEF s

\* A call that takes no item changes no vector.
LEMMA VecsStay ==
  ASSUME VecInv, UNCHANGED <<vecs, heap, fate>>
  PROVE  VecInv' /\ \A o \in Owners : Held(o)' = Held(o)
  BY DEF VecInv, VecsSound, Lent, BlocksSound, ItemsSound, Made, Held

LEMMA StartSound ==
  ASSUME CallsInv, NEW mode \in Modes, NEW o \in Owners \ {"buffer"}, Start(mode, o),
         mode = "result" => o = "own"
  PROVE  CallsInv'
<1> USE DEF CallsInv
<1> DEFINE v == vecs[o]
<1>1. /\ vecs' = vecs /\ UNCHANGED <<vecs, heap, fate>>
      /\ vecs[o].there \/ mode = "result"
      /\ call' = [NoCall EXCEPT !.mode = mode, !.on = o, !.room = Room(mode, v),
                                !.cap = v.cap, !.running = TRUE, !.overflow = TRUE]
  BY DEF Start
<1>2. VecInv' /\ Held(o)' = Held(o)
  BY <1>1, VecsStay
<1>3. v.cap \in Nat /\ v.items \in Seq(Items) /\ Len(v.items) \in Nat
  BY VecFields DEF VecInv
<1>4. Room(mode, v) \in Int
  BY <1>3 DEF Room
<1>5. /\ call' \in Calls
      /\ call'.mode = mode /\ call'.on = o /\ call'.room = Room(mode, v) /\ call'.taken = {}
      /\ call'.cap = v.cap /\ call'.running /\ call'.overflow /\ ~ call'.unwound
  BY <1>1, <1>3, <1>4, NoCallSound DEF NoCall, Calls
<1>6. On' = v
  BY <1>1, <1>5 DEF On
<1>7. mode # "none"
  BY DEF Modes
<1>8. mode \in {"vec", "option"} =>
        call'.room = v.cap - Len(v.items) /\ call'.taken \subseteq ToSet(v.items)
  BY <1>5 DEF Room
<1>9. mode \in {"slice", "swap"} =>
        /\ call'.room \in 0 .. Len(v.items)
        /\ call'.taken = {v.items[k] : k \in 1 .. Len(v.items) - call'.room}
  <2>1. ASSUME mode \in {"slice", "swap"}
        PROVE  call'.room = Len(v.items)
    BY <1>5, <2>1 DEF Room
  <2>2. ASSUME mode \in {"slice", "swap"}
        PROVE  1 .. Len(v.items) - call'.room = {}
    BY <1>3, <2>1, <2>2
  <2> QED
    BY <1>3, <1>5, <2>1, <2>2
<1> HIDE DEF v
<1>10. CallFits(call', v)
  <2>1. mode = "result" \/ v.there
    BY <1>1 DEF v
  <2> QED
    BY <1>5, <1>7, <1>8, <1>9, <2>1 DEF CallFits
<1> QED
  BY <1>2, <1>6, <1>10 DEF CallSound

\* A call that ends knows whether there was room left.
LEMMA CallEnds ==
  ASSUME CallsInv, PollNone \/ PollPanics \/ Returns
  PROVE  CallsInv'
<1> USE DEF CallsInv
<1>1. /\ UNCHANGED <<vecs, heap, fate>> /\ call.running
  BY DEF PollNone, PollPanics, Returns, Polls
<1>2. VecInv' /\ \A o \in Owners : Held(o)' = Held(o)
  BY <1>1, VecsStay
<1>3. PICK overflow \in BOOLEAN, unwound \in BOOLEAN :
        /\ call' = [call EXCEPT !.running = FALSE, !.overflow = overflow, !.unwound = unwound]
        /\ \/ unwound
           \/ ~ overflow /\ (call.mode # "result" => call.room > 0)
           \/ overflow /\ (call.mode # "result" => ~ (call.room > 0))
  <2>0. call.overflow = TRUE /\ call.unwound = FALSE /\ call \in Calls
    BY <1>1 DEF CallSound, CallFits, Calls
  <2>1. CASE PollNone
    <3>1. call' = [call EXCEPT !.running = FALSE, !.overflow = FALSE, !.unwound = FALSE]
      BY <2>0, <2>1 DEF PollNone, Calls
    <3> QED
      BY <2>1, <3>1 DEF PollNone, Polls
  <2>2. CASE PollPanics
    <3>1. call' = [call EXCEPT !.running = FALSE, !.overflow = TRUE, !.unwound = TRUE]
      BY <2>0, <2>2 DEF PollPanics, Calls
    <3> QED
      BY <3>1
  <2>3. CASE Returns
    <3>1. call' = [call EXCEPT !.running = FALSE, !.overflow = TRUE, !.unwound = FALSE]
      BY <2>0, <2>3 DEF Returns, Calls
    <3> QED
      BY <2>3, <3>1 DEF Returns, Polls
  <2> QED
    BY <2>1, <2>2, <2>3
<1>4. /\ call' \in Calls
      /\ call'.mode = call.mode /\ call'.on = call.on /\ call'.room = call.room
      /\ call'.taken = call.taken /\ call'.cap = call.cap
      /\ ~ call'.running /\ call'.overflow = overflow /\ call'.unwound = unwound
  <2>1. call \in Calls
    BY DEF CallSound, CallFits
  <2> QED
    BY <1>3, <2>1 DEF Calls
<1>5. On' = On /\ On = vecs[call.on] /\ call.on \in Owners
  BY <1>1, <1>4, CallFields DEF On
<1>6. call.mode \notin {"none", "result"} /\ ~ unwound => (overflow <=> call.room = 0)
  <2>1. On.items \in Seq(Items) /\ Len(On.items) \in Nat /\ On.cap \in Nat /\ Len(On.items) <= On.cap
    BY <1>5, VecFields DEF VecInv
  <2>2. call.mode \notin {"none", "result"} => call.room \in Nat
    BY <2>1, CallFields DEF CallSound, CallFits, Modes
  <2> QED
    BY <1>3, <2>2
<1>7. CallFits(call', On)
  <2> HIDE DEF On
  <2> QED
    BY <1>4, <1>6 DEF CallSound, CallFits
<1> QED
  BY <1>2, <1>5, <1>7 DEF CallSound

\* Err(_) takes the container with it.
LEMMA ErrSound ==
  ASSUME CallsInv, PollErr
  PROVE  CallsInv'
<1> USE DEF CallsInv
<1>1. /\ call.mode = "result" /\ call.running /\ Drop(call.on)
      /\ call' = [call EXCEPT !.running = FALSE]
  BY DEF PollErr, Polls
<1>2. call.on = "own" /\ "own" \in Owners /\ "own" # "buffer" /\ call \in Calls
  BY <1>1 DEF CallSound, CallFits, Owners
<1>3. VecInv'
  BY <1>1, <1>2, Drops
<1>4. /\ call' \in Calls /\ call'.mode = "result" /\ call'.on = "own" /\ ~ call'.running
  BY <1>1, <1>2 DEF Calls
<1>5. ~ On'.there
  <2>1. vecs'["own"] = Absent
    BY <1>1, <1>2 DEF Drop, VecInv, VecsSound
  <2> QED
    BY <1>4, <2>1 DEF On, Absent, EmptyVec, Vec
<1>6. CallSound'
  BY <1>4, <1>5 DEF CallSound, CallFits
<1> QED
  BY <1>3, <1>6

LEMMA ItemSound ==
  ASSUME CallsInv, NEW item \in Items, PollItem(item)
  PROVE  CallsInv'
<1> USE DEF CallsInv
<1>1. /\ call.running /\ Takes(call.on, item)
      /\ IF call.mode = "result" THEN On.there ELSE call.room > 0
      /\ call' = [call EXCEPT !.taken = call.taken \cup {item}, !.room = call.room - 1]
  BY DEF PollItem, Polls
<1>2. /\ call' \in Calls
      /\ call'.mode = call.mode /\ call'.on = call.on /\ call'.room = call.room - 1
      /\ call'.taken = call.taken \cup {item} /\ call'.cap = call.cap
      /\ call'.running /\ call'.overflow /\ ~ call'.unwound
  <2>1. call \in Calls /\ call.overflow /\ ~ call.unwound
    BY <1>1 DEF CallSound, CallFits
  <2>2. call.taken \cup {item} \in SUBSET Items /\ call.room - 1 \in Int
    BY CallFields
  <2> QED
    BY <1>1, <2>1, <2>2 DEF Calls
<1>3. PICK o \in Owners \ {"buffer"} : o = call.on
  BY CallFields
<1> DEFINE s == vecs[o].items
           t == vecs'[o].items
           n == Len(s)
<1>4. On = vecs[o] /\ On' = vecs'[o]
  BY <1>2, <1>3 DEF On
<1>5. /\ s \in Seq(Items) /\ n \in Nat
      /\ vecs[o].cap \in Nat /\ n <= vecs[o].cap
      /\ vecs[o].cap <= MaxCap /\ MaxCap \in Nat /\ call.room \in Int
  BY VecFields, CallFields DEF VecInv
<1>6. call.mode # "none" /\ call.mode \in Modes
  BY <1>1, CallFields DEF CallSound, CallFits
<1>7. call.cap = vecs[o].cap \/ ~ vecs[o].there
  BY <1>4, <1>6 DEF CallSound, CallFits
<1>8. CASE call.mode \in {"vec", "option"}
  <2>1. /\ Pushed(o, item) /\ vecs[o].there
        /\ n < vecs[o].cap /\ n < MaxCap
        /\ call.room = vecs[o].cap - n /\ call.taken \subseteq Held(o)
    <3>1. Pushed(o, item)
      BY <1>3, <1>8 DEF PollItem
    <3>2. call.room > 0
      BY <1>1, <1>8
    <3>3. /\ vecs[o].there /\ call.room = vecs[o].cap - n
          /\ call.taken \subseteq Held(o)
      BY <1>4, <1>8 DEF CallSound, CallFits, Held
    <3>4. n < vecs[o].cap /\ n < MaxCap
      <4>1. PICK cap \in Nat : cap = vecs[o].cap
        BY <1>5
      <4>2. PICK room \in Int : room = call.room
        BY <1>5
      <4>3. PICK len \in Nat : len = n
        BY <1>5
      <4>4. len < cap /\ len < MaxCap
        <5>1. cap <= MaxCap /\ room > 0 /\ room = cap - len
          BY <1>5, <3>2, <3>3, <4>1, <4>2, <4>3
        <5> QED
          BY <1>5, <5>1
      <4> QED
        BY <4>1, <4>3, <4>4
    <3> QED
      BY <3>1, <3>3, <3>4
  <2>2. VecInv' /\ vecs'[o].there /\ vecs'[o].cap = vecs[o].cap /\ t = Append(s, item)
    BY <1>1, <1>3, <2>1, Pushes
  <2>3. Len(t) = n + 1 /\ ToSet(t) = Held(o) \cup {item}
    BY <1>5, <2>2, WithOneMore DEF Held
  <2>4. call'.room = vecs'[o].cap - Len(t) /\ call'.taken \subseteq ToSet(t)
    BY <1>2, <1>5, <2>1, <2>2, <2>3
  <2>5. CallFits(call', vecs'[o])
    BY <1>2, <1>7, <1>8, <2>1, <2>2, <2>4 DEF CallFits
  <2> QED
    BY <1>4, <2>2, <2>5 DEF CallSound
<1>9. CASE call.mode \in {"slice", "swap"}
  <2>1. /\ Replaces(item) /\ vecs[o].there
        /\ call.room \in 0 .. n
        /\ call.taken = {s[k] : k \in 1 .. n - call.room}
    BY <1>4, <1>9 DEF PollItem, CallSound, CallFits
  <2>2. PICK place \in 1 .. n : place = n - call.room + 1
    <3>1. call.room > 0
      BY <1>1, <1>9
    <3> QED
      BY <1>5, <2>1, <3>1
  <2>3. /\ VecInv' /\ vecs'[o].there = vecs[o].there /\ vecs'[o].cap = vecs[o].cap
        /\ t = [s EXCEPT ![place] = item]
    BY <1>1, <1>3, <1>4, <2>1, <2>2, ReplacesOne
  <2>4. DOMAIN s = 1 .. n /\ Len(t) = n
    BY <1>5, <2>3, LenProperties, ExceptSeq
  <2>5. /\ call'.room \in 0 .. Len(t)
        /\ Len(t) - call'.room = place
    <3>1. PICK room \in Int : room = call.room
      BY <1>5
    <3>2. call'.room = room - 1 /\ place = n - room + 1
      BY <1>2, <2>2, <3>1
    <3>3. n \in Nat
      BY <1>5
    <3> HIDE DEF n, t
    <3>4. room - 1 \in 0 .. n /\ n - (room - 1) = place
      BY <3>2, <3>3
    <3> QED
      BY <2>4, <3>2, <3>4
  <2>6. call'.taken = {t[k] : k \in 1 .. place}
    <3> DEFINE before == 1 .. n - call.room
    <3>1. 1 .. place = before \cup {place} /\ place \notin before /\ before \subseteq 1 .. n
      <4>1. n - call.room = place - 1
        BY <1>5, <2>1, <2>2
      <4> HIDE DEF n
      <4>2. before = 1 .. place - 1
        BY <4>1
      <4> HIDE DEF before
      <4> QED
        BY <1>5, <2>2, <4>2
    <3> HIDE DEF before
    <3>2. t[place] = item /\ \A k \in before : t[k] = s[k]
      BY <2>2, <2>3, <2>4, <3>1
    <3>3. call'.taken = {s[k] : k \in before} \cup {item}
      BY <1>2, <2>1 DEF before
    <3> HIDE DEF s, t
    <3> DEFINE after == 1 .. place
    <3>0. after = before \cup {place}
      BY <3>1
    <3> HIDE DEF after
    <3>4. {t[k] : k \in after} = {t[k] : k \in before} \cup {t[place]}
      BY <3>0
    <3>5. {t[k] : k \in before} = {s[k] : k \in before}
      BY <3>2
    <3> QED
      BY <3>2, <3>3, <3>4, <3>5 DEF after
  <2>7. CallFits(call', vecs'[o])
    BY <1>2, <1>7, <1>9, <2>1, <2>3, <2>5, <2>6 DEF CallFits
  <2> QED
    BY <1>4, <2>3, <2>7 DEF CallSound
<1>10. CASE call.mode = "result"
  <2>1. vecs[o].there /\ Offers(item) /\ o = "own"
    BY <1>1, <1>3, <1>4, <1>10 DEF PollItem, CallSound, CallFits
  <2>2. VecInv' /\ vecs'[o].cap = vecs[o].cap
    <3>1. CASE Room("vec", On) > 0
      <4>1. /\ Pushed(o, item) /\ n < vecs[o].cap /\ n < MaxCap
        BY <1>3, <1>4, <1>5, <2>1, <3>1 DEF Offers, Room
      <4> QED
        BY <1>1, <1>3, <2>1, <4>1, Pushes
    <3>2. CASE ~ (Room("vec", On) > 0)
      <4>1. fate' = [fate EXCEPT ![item] = "dropped"] /\ vecs' = vecs /\ heap' = heap
        BY <2>1, <3>2 DEF Offers
      <4>2. fate[item] # "held"
        BY <1>1 DEF Takes
      <4> QED
        BY <4>1, <4>2, ItemDropped
    <3> QED
      BY <3>1, <3>2
  <2>3. CallFits(call', vecs'[o])
    BY <1>2, <1>3, <1>7, <1>10, <2>1, <2>2 DEF CallFits
  <2> QED
    BY <1>4, <2>2, <2>3 DEF CallSound
<1> QED
  BY <1>6, <1>8, <1>9, <1>10 DEF Modes

\* What the program does between calls.
LEMMA OtherSound ==
  ASSUME CallsInv, ~ call.running, Other, call' = NoCall
  PROVE  CallsInv'
<1> USE DEF CallsInv
<1>1. {"buffer", "temp", "own", "option"} \subseteq Owners
  BY DEF Owners
<1>2. ASSUME UsesBuffer
      PROVE  VecInv'
  <2>1. ASSUME NEW type \in Types, NEW cap \in 0 .. MaxCap, WithCapacity(type, cap)
        PROVE  VecInv'
    BY <2>1, Creates DEF WithCapacity
  <2>2. ASSUME NEW type \in Types, UseFor(type)
        PROVE  VecInv'
    BY <2>2, BufferUsed
  <2>3. ASSUME FromVec
        PROVE  VecInv'
    BY <2>3, BufferFromVec
  <2>4. ASSUME FromVecPanics
        PROVE  VecInv'
    BY <1>1, <2>4, Drops DEF FromVecPanics
  <2>5. ASSUME TempDrop
        PROVE  VecInv'
    BY <2>5, TempDropped
  <2>6. ASSUME TempDropPanics
        PROVE  VecInv'
    BY <1>1, <2>6, Drops DEF TempDropPanics
  <2>7. ASSUME TempForget
        PROVE  VecInv'
    BY <2>7, TempForgotten
  <2>8. ASSUME BufferDrop
        PROVE  VecInv'
    BY <1>1, <2>8, Drops DEF BufferDrop
  <2> QED
    BY <1>2, <2>1, <2>2, <2>3, <2>4, <2>5, <2>6, <2>7, <2>8 DEF UsesBuffer
<1>3. ASSUME UsesVec
      PROVE  VecInv'
  <2>1. ASSUME NEW type \in Types, NEW cap \in 0 .. MaxCap, Create("own", type, cap)
        PROVE  VecInv'
    BY <2>1, Creates
  <2>2. ASSUME NEW o \in {"own", "temp"}, ShrinkToFit(o)
        PROVE  VecInv'
    BY <2>2, Shrinks
  <2>3. ASSUME NEW o \in {"own", "temp"}, Pop(o)
        PROVE  VecInv'
    BY <1>1, <2>3, Pops
  <2>4. ASSUME NEW o \in {"own", "temp"}, NEW item \in Items, Push(o, item)
        PROVE  VecInv'
    <3>1. o \in Owners \ {"buffer"} /\ o # "option"
      BY <1>1
    <3>2. /\ vecs[o].there /\ Takes(o, item) /\ Len(vecs[o].items) < MaxCap
          /\ Pushed(o, item)
      BY <2>4 DEF Push
    <3> QED
      BY <3>1, <3>2, Pushes
  <2>5. ASSUME Drop("own")
        PROVE  VecInv'
    BY <1>1, <2>5, Drops
  <2>6. ASSUME Exchange
        PROVE  VecInv'
    BY <2>6, Exchanges
  <2> QED
    BY <1>3, <2>1, <2>2, <2>3, <2>4, <2>5, <2>6 DEF UsesVec
<1>4. ASSUME \E type \in Types : Option(type)
      PROVE  VecInv'
  BY <1>4, OptionMade
<1>5. ASSUME Pop("option")
      PROVE  VecInv'
  BY <1>1, <1>5, Pops
<1>6. VecInv'
  BY <1>2, <1>3, <1>4, <1>5 DEF Other
<1>7. CallFits(NoCall, On')
  BY NoCallSound DEF CallFits
<1> QED
  BY <1>6, <1>7 DEF CallSound

LEMMA CallsInitSound == FillInit => CallsInv
<1> SUFFICES ASSUME FillInit
             PROVE  CallsInv
  OBVIOUS
<1>1. /\ vecs = [o \in Owners |-> Absent] /\ heap = [b \in HeapBlocks |-> FreeBlock]
      /\ fate = [i \in Items |-> "caller"] /\ call = NoCall
  BY DEF FillInit, BufferInit
<1>2. \A o \in Owners : vecs[o] = Absent
  BY <1>1
<1>3. Absent.block = NoBlock /\ Absent.items = <<>> /\ ~ Absent.there
  BY DEF Absent, EmptyVec, Vec
<1>4. \A o \in Owners : Proper(o, Absent)
  BY NewVecs
<1>5. VecsSound
  <2>1. "own" \in Owners
    BY DEF Owners
  <2>2. Absent \in VecRecords
    BY <1>4, <2>1 DEF Proper
  <2> QED
    BY <1>1, <1>2, <1>4, <2>2 DEF VecsSound
<1>6. Lent
  <2>1. vecs["buffer"] = Absent /\ vecs["temp"] = Absent
    BY <1>2 DEF Owners
  <2> QED
    BY <1>3, <2>1 DEF Lent
<1>7. BlocksSound
  <2>1. heap \in [HeapBlocks -> HeapRecords] /\ \A b \in HeapBlocks : heap[b].state # "live"
    BY <1>1, FreeIsRecord
  <2> QED
    BY <1>2, <1>3, <2>1 DEF BlocksSound
<1>8. ItemsSound
  <2>1. \A o \in Owners : Held(o) = {} /\ IsInjective(vecs[o].items)
    BY <1>2, <1>3, NothingInEmpty DEF Held
  <2>2. fate \in [Items -> Fates] /\ \A i \in Items : fate[i] # "held"
    BY <1>1 DEF Fates
  <2> QED
    BY <2>1, <2>2 DEF ItemsSound
<1>9. CallFits(call, On)
  BY <1>1, NoCallSound DEF CallFits
<1> QED
  BY <1>5, <1>6, <1>7, <1>8, <1>9 DEF CallsInv, VecInv, CallSound

LEMMA CallsStepSound == CallsInv /\ [FillNext]_fillVars => CallsInv'
<1> SUFFICES ASSUME CallsInv, [FillNext]_fillVars
             PROVE  CallsInv'
  OBVIOUS
<1>1. {"temp", "own", "option"} \subseteq Owners \ {"buffer"}
  BY DEF Owners
<1>2. CASE Filling
  <2>1. ASSUME NEW o \in {"own", "temp"}, NEW mode \in {"vec", "slice", "swap"}, Start(mode, o)
        PROVE  CallsInv'
    <3>1. mode \in Modes /\ mode # "result"
      BY DEF Modes
    <3> QED
      BY <1>1, <2>1, <3>1, StartSound
  <2>2. CASE Start("option", "option")
    BY <1>1, <2>2, StartSound DEF Modes
  <2>3. CASE Start("result", "own")
    BY <1>1, <2>3, StartSound DEF Modes
  <2> QED
    BY <1>2, <2>1, <2>2, <2>3, ItemSound, ErrSound, CallEnds DEF Filling
<1>3. CASE ~ call.running /\ Other /\ call' = NoCall
  BY <1>3, OtherSound
<1>4. CASE UNCHANGED fillVars
  <2>1. UNCHANGED <<vecs, heap, fate>> /\ call' = call
    BY <1>4 DEF fillVars
  <2>2. VecInv'
    BY <2>1, VecsStay DEF CallsInv
  <2> QED
    BY <2>1, <2>2 DEF CallsInv, CallSound, On
<1> QED
  BY <1>2, <1>3, <1>4 DEF FillNext

\* What a call on a result has pulled, and what it tells when it ends.
ResultSound ==
  call.mode = "result" =>
    /\ \A item \in call.taken : item \in ToSet(On.items) \/ LostByResult(item)
    /\ ~ call.running /\ ~ call.unwound => (call.overflow <=> ~ On.there)

FillInv == CallsInv /\ ResultSound

\* An item that finds a place is added, one that does not is lost by a container
\* that is full, and stays so.
LEMMA ResultItemSound ==
  ASSUME FillInv, NEW item \in Items, PollItem(item), call.mode = "result"
  PROVE  ResultSound'
<1> USE DEF FillInv, CallsInv
<1>1. /\ call.running /\ Takes(call.on, item) /\ On.there /\ Offers(item)
      /\ call' = [call EXCEPT !.taken = call.taken \cup {item}, !.room = call.room - 1]
  BY DEF PollItem, Polls
<1>2. /\ call \in Calls /\ call.on = "own" /\ "own" \in Owners
  BY DEF CallSound, CallFits, Owners
<1>3. /\ call'.mode = "result" /\ call'.on = "own" /\ call'.running
      /\ call'.taken = call.taken \cup {item}
  BY <1>1, <1>2 DEF Calls
<1> DEFINE v == vecs["own"]
           w == vecs'["own"]
<1>4. On = v /\ On' = w
  BY <1>2, <1>3 DEF On
<1>5. /\ v.items \in Seq(Items) /\ Len(v.items) \in Nat /\ v.cap \in Nat
      /\ Len(v.items) <= v.cap /\ v.cap <= MaxCap /\ MaxCap \in Nat
  BY <1>2, VecFields DEF VecInv
<1>6. \A i \in call.taken :
        i \in ToSet(v.items) \/ (fate[i] = "dropped" /\ Len(v.items) = v.cap)
  BY <1>1, <1>4 DEF ResultSound, LostByResult
<1>7. fate[item] # "held" /\ DOMAIN fate = Items
  BY <1>1 DEF Takes, VecInv, ItemsSound
<1>8. CASE Room("vec", On) > 0
  <2>1. Pushed("own", item) /\ Len(v.items) < v.cap /\ Len(v.items) < MaxCap
    BY <1>1, <1>2, <1>4, <1>5, <1>8 DEF Offers, Room
  <2>2. w.items = Append(v.items, item)
    BY <1>1, <1>2, <1>4, <2>1, Pushes
  <2>3. ToSet(w.items) = ToSet(v.items) \cup {item}
    BY <1>5, <2>2, WithOneMore
  <2>4. call.taken \subseteq ToSet(v.items)
    BY <1>5, <1>6, <2>1
  <2> HIDE DEF v, w
  <2> QED
    BY <1>3, <1>4, <2>3, <2>4 DEF ResultSound
<1>9. CASE ~ (Room("vec", On) > 0)
  <2>1. fate' = [fate EXCEPT ![item] = "dropped"] /\ vecs' = vecs
    BY <1>1, <1>9 DEF Offers
  <2>2. Len(v.items) = v.cap /\ w = v
    BY <1>4, <1>5, <1>9, <2>1 DEF Room
  <2> HIDE DEF v, w
  <2>3. \A i \in call.taken \cup {item} :
          i \in ToSet(v.items) \/ (fate'[i] = "dropped" /\ Len(v.items) = v.cap)
    <3>1. \A i \in call.taken : i \in Items
      BY <1>2 DEF Calls
    <3> QED
      BY <1>6, <1>7, <2>1, <2>2, <3>1
  <2> QED
    BY <1>3, <1>4, <2>2, <2>3 DEF ResultSound, LostByResult
<1> QED
  BY <1>8, <1>9

\* An error drops all that is in the container.
LEMMA ResultErrSound ==
  ASSUME FillInv, PollErr
  PROVE  ResultSound'
<1> USE DEF FillInv, CallsInv
<1>1. /\ call.mode = "result" /\ call.running /\ Drop(call.on)
      /\ call' = [call EXCEPT !.running = FALSE]
  BY DEF PollErr, Polls
<1>2. call.on = "own" /\ "own" \in Owners /\ call \in Calls /\ call.overflow
  BY <1>1 DEF CallSound, CallFits, Owners
<1>3. /\ call'.mode = "result" /\ call'.on = "own" /\ call'.taken = call.taken
      /\ call'.overflow /\ call.taken \subseteq Items
  BY <1>1, <1>2 DEF Calls
<1>4. vecs'["own"] = Absent /\ fate' = Meet(vecs["own"], "dropped")
  BY <1>1, <1>2 DEF Drop, VecInv, VecsSound
<1>5. ~ On'.there
  BY <1>3, <1>4 DEF On, Absent, EmptyVec, Vec
<1>6. \A i \in call.taken : fate'[i] = "dropped"
  <2>1. \A i \in call.taken : i \in ToSet(vecs["own"].items) \/ fate[i] = "dropped"
    BY <1>1, <1>2 DEF ResultSound, LostByResult, On
  <2> QED
    BY <1>3, <1>4, <2>1 DEF Meet
<1> QED
  BY <1>3, <1>5, <1>6 DEF ResultSound, LostByResult

\* The other ways a call goes on leave the container as it is.
LEMMA ResultEndsSound ==
  ASSUME FillInv, PollNone \/ PollPanics \/ Returns
  PROVE  ResultSound'
<1> USE DEF FillInv, CallsInv
<1>1. UNCHANGED <<vecs, heap, fate>> /\ call.running /\ call \in Calls /\ call.overflow
  BY DEF PollNone, PollPanics, Returns, Polls, CallSound, CallFits
<1>2. /\ call'.mode = call.mode /\ call'.on = call.on /\ call'.taken = call.taken
      /\ ~ call'.running
  BY <1>1 DEF PollNone, PollPanics, Returns, Calls
<1>3. On' = On
  BY <1>1, <1>2 DEF On
<1>4. call.mode = "result" =>
        \/ call'.unwound
        \/ ~ call'.overflow /\ On.there
        \/ call'.overflow /\ ~ On.there
  BY <1>1 DEF PollNone, PollPanics, Returns, Polls, Calls
<1>5. \A i \in call.taken : LostByResult(i)' <=> LostByResult(i)
  BY <1>1, <1>2, <1>3 DEF LostByResult
<1> HIDE DEF On
<1> QED
  BY <1>2, <1>3, <1>4, <1>5 DEF ResultSound

LEMMA FillInitSound == FillInit => FillInv
  BY CallsInitSound DEF FillInit, FillInv, ResultSound, NoCall

LEMMA FillStepSound == FillInv /\ [FillNext]_fillVars => FillInv'
<1> SUFFICES ASSUME FillInv, [FillNext]_fillVars
             PROVE  ResultSound'
  BY CallsStepSound DEF FillInv
<1>1. CASE \E mode \in Modes, o \in Owners : Start(mode, o)
  <2>1. PICK mode \in Modes, o \in Owners : Start(mode, o)
    BY <1>1
  <2>2. call'.taken = {} /\ call'.running
    BY <2>1 DEF Start, NoCall
  <2> QED
    BY <2>2 DEF ResultSound
<1>2. ASSUME NEW item \in Items, PollItem(item)
      PROVE  ResultSound'
  <2>1. CASE call.mode = "result"
    BY <1>2, <2>1, ResultItemSound
  <2>2. CASE call.mode # "result"
    <3>1. call'.mode = call.mode
      BY <1>2 DEF PollItem, FillInv, CallsInv, CallSound, CallFits, Calls
    <3> QED
      BY <2>2, <3>1 DEF ResultSound
  <2> QED
    BY <2>1, <2>2
<1>3. CASE call' = NoCall
  BY <1>3 DEF ResultSound, NoCall
<1>4. CASE UNCHANGED fillVars
  <2>1. On' = On /\ call' = call /\ fate' = fate
    BY <1>4 DEF On, fillVars
  <2> HIDE DEF On
  <2> QED
    BY <2>1 DEF FillInv, ResultSound, LostByResult
<1>5. CASE Filling
  BY <1>1, <1>2, <1>5, ResultErrSound, ResultEndsSound DEF Filling, Modes, Owners
<1> QED
  BY <1>3, <1>4, <1>5 DEF FillNext

\* Every reachable state satisfies the inductive invariant: a TempVec that is
\* there has a buffer to go back to, every allocation in use has one vector, with
\* the layout it was made for, every element held is in one vector, of its type,
\* and what a call has left to do is what the container has room for.
THEOREM BuffersHold == FillSpec => []FillInv
  BY FillInitSound, FillStepSound, PTL DEF FillSpec

\* An allocation in use has one owner, a free or leaked one has none.
LEMMA OneOwner ==
  ASSUME VecsSound, BlocksSound, NEW b \in HeapBlocks
  PROVE  Cardinality({o \in Owners : vecs[o].block = b}) = IF heap[b].state = "live" THEN 1 ELSE 0
<1> DEFINE owners == {o \in Owners : vecs[o].block = b}
<1>1. b # NoBlock
  BY VecBufferAssumption
<1>2. CASE heap[b].state = "live"
  <2>1. PICK o \in Owners : vecs[o].block = b
    BY <1>2 DEF BlocksSound
  <2>2. owners = {o}
    BY <1>1, <2>1 DEF BlocksSound
  <2> QED
    BY <1>2, <2>2, FS_Singleton
<1>3. CASE heap[b].state # "live"
  <2>1. owners = {}
    BY <1>3, FreeIsNobodys
  <2> QED
    BY <1>3, <2>1, FS_EmptySet
<1> QED
  BY <1>2, <1>3

\* So has an element that is in a vector.
LEMMA OneHolder ==
  ASSUME ItemsSound, NEW i \in Items, fate[i] = "held"
  PROVE  Cardinality({o \in Owners : i \in ToSet(vecs[o].items)}) = 1
<1>1. PICK o \in Owners : i \in Held(o)
  BY DEF ItemsSound
<1>2. {p \in Owners : i \in ToSet(vecs[p].items)} = {o}
  BY <1>1 DEF ItemsSound, Held
<1> QED
  BY <1>2, FS_Singleton

\* However often an allocation is lent, taken back, exchanged or leaked, and
\* wherever an element panics as it is dropped, the vector that frees it does so
\* with the layout it was made for, and no element is dropped twice or as
\* another type.
THEOREM BuffersAreSound == FillSpec => []BuffersSound
<1>1. FillInv => BuffersSound
  <2> SUFFICES ASSUME FillInv
               PROVE  BuffersSound
    OBVIOUS
  <2> USE DEF FillInv, CallsInv, VecInv
  <2>1. BuffersTypeOK
    BY DEF BuffersTypeOK, VecsSound, BlocksSound, ItemsSound, VecRecords, HeapRecords, Fates
  <2>2. AllocationsOwned
    <3>1. \A o \in Owners : vecs[o].block # NoBlock =>
            heap[vecs[o].block] = BlockOf(vecs[o].type, vecs[o].cap)
      BY DEF BlocksSound, Made
    <3> QED
      BY <3>1, OneOwner DEF AllocationsOwned
  <2>3. ElementsOwned
    <3>1. \A o \in Owners : /\ IsInjective(vecs[o].items)
                            /\ \A i \in ToSet(vecs[o].items) :
                                 fate[i] = "held" /\ TypeOf[i] = vecs[o].type
      BY DEF ItemsSound, Held
    <3> QED
      BY <3>1, OneHolder DEF ElementsOwned
  <2>4. BufferEmpty
    BY DEF Lent, BufferEmpty
  <2> QED
    BY <2>1, <2>2, <2>3, <2>4 DEF BuffersSound
<1> QED
  BY <1>1, BuffersHold, PTL

\* Wherever the iterator ends, fails or panics, fill keeps what it pulled, and a
\* result loses an item only where there is no room for it; no container is made
\* to reallocate; and checked_fill is right about the container being full.
THEOREM FillIsSound == FillSpec => []FillSound
<1>1. FillInv => FillSound
  <2> SUFFICES ASSUME FillInv
               PROVE  FillSound
    OBVIOUS
  <2> USE DEF FillInv, CallsInv
  <2>1. PICK o \in Owners : o = call.on /\ On = vecs[o]
    BY CallFields DEF On
  <2>2. /\ On.items \in Seq(Items) /\ Len(On.items) \in Nat
        /\ On.cap \in Nat /\ Len(On.items) <= On.cap /\ IsInjective(On.items)
    BY <2>1, VecFields DEF VecInv, ItemsSound
  <2>3. CallFits(call, On) /\ call.mode \in Modes \cup {"none"} /\ call.room \in Int
    BY CallFields DEF CallSound
  <2> HIDE DEF On
  <2>4. ASSUME call.mode \in {"slice", "swap"}
        PROVE  /\ call.taken \subseteq ToSet(On.items)
               /\ ToSet(On.items) = call.taken <=> call.room = 0
    <3>1. PICK left \in 0 .. Len(On.items) :
            left = call.room /\ call.taken = {On.items[k] : k \in 1 .. Len(On.items) - left}
      BY <2>3, <2>4 DEF CallFits
    <3>2. \A k \in 1 .. Len(On.items) - left : On.items[k] \in ToSet(On.items)
      BY <2>2, InSequence DEF ToSet
    <3> QED
      BY <2>2, <3>1, <3>2, AllOfThem
  <2>5. ASSUME call.mode \in {"vec", "option"}
        PROVE  /\ call.taken \subseteq ToSet(On.items)
               /\ Len(On.items) = On.cap <=> call.room = 0
    BY <2>2, <2>3, <2>5 DEF CallFits
  <2>6. KeepsWhatItPulls
    BY <2>3, <2>4, <2>5 DEF KeepsWhatItPulls, ResultSound, Modes
  <2>7. NeverReallocates
    BY <2>3 DEF NeverReallocates, CallFits
  <2>8. CheckedFillTells
    <3>1. ASSUME call.mode \notin {"none", "result"}
          PROVE  CheckedFillTells
      BY <2>3, <2>4, <2>5, <3>1 DEF CheckedFillTells, IsFull, CallFits, Modes
    <3> QED
      BY <3>1 DEF CheckedFillTells, IsFull, ResultSound
  <2> QED
    BY <2>6, <2>7, <2>8 DEF FillSound
<1> QED
  BY <1>1, BuffersHold, PTL
==============================================================================

------------------------- MODULE UnsyncBumpProofs -------------------------
(***************************************************************************)
(* The single-threaded arena for every size of a header, every memory and  *)
(* all layouts: it lies in its memory, its blocks are safe there and after *)
(* the memory went to its owner and came back, and its answers are true.   *)
(***************************************************************************)
EXTENDS UnsyncBump, TLAPS

Arithmetic == INSTANCE ArenaProofs WITH Base <- 0, Length <- 0

------------------------------------------------------------------------------
(* Addresses *)

\* What ArenaProofs says of padding, at any address.
LEMMA Padding ==
  ASSUME NEW addr \in Nat, NEW n \in Nat \ {0}
  PROVE  /\ AlignOffset(addr, n) \in 0 .. n - 1
         /\ (addr + AlignOffset(addr, n)) % n = 0
         /\ \A m \in Nat : m >= addr /\ m % n = 0
              => m >= addr + AlignOffset(addr, n)
<1>1. Arithmetic!ArenaAssumption
  BY UnsyncAssumption DEF Arithmetic!ArenaAssumption
<1>2. Arithmetic!AlignOffset(addr, n) = AlignOffset(addr, n)
  BY DEF AlignOffset, Addresses!AlignOffset, Arithmetic!AlignOffset
<1> QED
  BY <1>1, <1>2, Arithmetic!PaddingAligns

\* What is aligned already needs no padding.
LEMMA NoPadding ==
  ASSUME NEW addr \in Nat, NEW n \in Nat \ {0}, addr % n = 0
  PROVE  AlignOffset(addr, n) = 0
<1>1. addr >= addr + AlignOffset(addr, n)
  BY Padding
<1> QED
  BY <1>1, Padding

\* A number of whole n.
LEMMA Multiple ==
  ASSUME NEW n \in Nat \ {0}, NEW q \in Nat
  PROVE  (n * q) % n = 0
<1>1. Arithmetic!ArenaAssumption
  BY UnsyncAssumption DEF Arithmetic!ArenaAssumption
<1>2. 0 \in 0 .. n - 1 /\ n * q \in Nat
  OBVIOUS
<1>3. (n * q + 0) % n = 0
  BY <1>1, <1>2, Arithmetic!DivisionUnique
<1> QED
  BY <1>2, <1>3

\* A multiple of the header's size behind a header needs no padding either.
LEMMA BehindHeader ==
  ASSUME NEW n \in Nat \ {0}, NEW a \in Nat, a % n = 0
  PROVE  (n + a) % n = 0
<1> DEFINE q == a \div n
<1>1. q \in Nat /\ a = n * q
  OBVIOUS
<1> HIDE DEF q
<1>2. q + 1 \in Nat /\ n + a = n * (q + 1)
  BY <1>1
<1> QED
  BY <1>2, Multiple

\* Rounding down: to a multiple, by less than n.
LEMMA RoundDown ==
  ASSUME NEW n \in Nat \ {0}, NEW a \in Nat
  PROVE  /\ a - (a % n) \in Nat
         /\ a - (a % n) <= a
         /\ (a - (a % n)) % n = 0
<1> DEFINE q == a \div n
           r == a % n
<1>1. q \in Nat /\ r \in Nat /\ a = n * q + r
  OBVIOUS
<1> HIDE DEF q, r
<1>2. n * q \in Nat /\ a - r = n * q
  BY <1>1
<1>3. a - r \in Nat /\ a - r <= a /\ (a - r) % n = 0
  <2>1. (n * q) % n = 0
    BY <1>1, Multiple
  <2> QED
    BY <1>1, <1>2, <2>1
<1> QED
  BY <1>3 DEF r

------------------------------------------------------------------------------
(* The layout of an arena *)

Rounded(a) == a.start % HeaderSize = 0 /\ a.length % HeaderSize = 0

\* The padded size covers the header and the storage.
LEMMA SizeCovers ==
  ASSUME NEW a \in Arenas
  PROVE  SizeOf(a) \in Nat /\ SizeOf(a) >= HeaderSize + a.length
<1>1. HeaderSize \in Nat \ {0} /\ a.length \in Nat
  BY UnsyncAssumption DEF Arenas
<1>2. AlignOffset(HeaderSize + a.length, HeaderSize) \in Nat
  BY <1>1, Padding
<1> QED
  BY <1>1, <1>2 DEF SizeOf, PadToAlign

\* A rounded arena has no padding.
LEMMA RoundedSize ==
  ASSUME NEW a \in Arenas, Rounded(a)
  PROVE  SizeOf(a) = HeaderSize + a.length
<1>1. HeaderSize \in Nat \ {0} /\ a.length \in Nat
  BY UnsyncAssumption DEF Arenas
<1>2. (HeaderSize + a.length) % HeaderSize = 0
  BY <1>1, BehindHeader DEF Rounded
<1> QED
  BY <1>1, <1>2, NoPadding DEF SizeOf, PadToAlign

\* reinterpret_aligned_mem stays within the memory.
LEMMA ReinterpretFits ==
  ASSUME NEW m \in Slices, m.start % HeaderSize = 0, m.len >= HeaderSize
  PROVE  /\ Reinterpret(m) \in Arenas
         /\ Reinterpret(m).made = "from_mem"
         /\ Reinterpret(m).start = m.start
         /\ Rounded(Reinterpret(m))
         /\ SizeOf(Reinterpret(m)) <= m.len
<1> DEFINE a == Reinterpret(m)
           d == m.len - HeaderSize
<1>1. HeaderSize \in Nat \ {0} /\ m.start \in Nat /\ m.len \in Nat /\ d \in Nat
  BY UnsyncAssumption DEF Slices
<1>2. /\ d - (d % HeaderSize) \in Nat
      /\ d - (d % HeaderSize) <= d
      /\ (d - (d % HeaderSize)) % HeaderSize = 0
  BY <1>1, RoundDown
<1>3. a = [made |-> "from_mem", start |-> m.start, length |-> d - (d % HeaderSize)]
  BY DEF Reinterpret
<1>4. a \in Arenas /\ Rounded(a) /\ a.made = "from_mem" /\ a.start = m.start
  BY <1>1, <1>2, <1>3 DEF Arenas, Rounded
<1> HIDE DEF a
<1>5. SizeOf(a) <= m.len
  <2>1. SizeOf(a) = HeaderSize + a.length
    BY <1>4, RoundedSize
  <2> QED
    BY <1>1, <1>2, <1>3, <2>1
<1> QED
  BY <1>4, <1>5 DEF a

\* The memory of a rounded arena becomes that arena again.
LEMMA ReinterpretReturned ==
  ASSUME NEW a \in Arenas, a.made = "from_mem", Rounded(a)
  PROVE  Reinterpret([start |-> a.start, len |-> SizeOf(a)]) = a
<1>1. HeaderSize \in Nat \ {0} /\ a.length \in Nat
  BY UnsyncAssumption DEF Arenas
<1>2. SizeOf(a) - HeaderSize = a.length
  BY <1>1, RoundedSize
<1>3. a.length - (a.length % HeaderSize) = a.length
  BY <1>1 DEF Rounded
<1>4. Reinterpret([start |-> a.start, len |-> SizeOf(a)])
        = [made |-> "from_mem", start |-> a.start, length |-> a.length]
  BY <1>2, <1>3 DEF Reinterpret
<1> QED
  BY <1>4 DEF Arenas

\* Aligning the front of the memory.
LEMMA AlignedFront ==
  ASSUME NEW m \in Slices, Aligned(m).len >= HeaderSize
  PROVE  /\ Aligned(m) \in Slices
         /\ Aligned(m).start % HeaderSize = 0
         /\ m.start <= Aligned(m).start
         /\ EndOfSlice(Aligned(m)) = EndOfSlice(m)
<1> DEFINE p == AlignOffset(m.start, HeaderSize)
<1>1. HeaderSize \in Nat \ {0} /\ m.start \in Nat /\ m.len \in Nat
  BY UnsyncAssumption DEF Slices
<1>2. p \in 0 .. HeaderSize - 1 /\ (m.start + p) % HeaderSize = 0
  <2> HIDE DEF p
  <2> QED
    BY <1>1, Padding DEF p
<1>3. Aligned(m) = [start |-> m.start + p, len |-> m.len - p]
  BY DEF Aligned
<1> HIDE DEF p
<1> QED
  BY <1>1, <1>2, <1>3 DEF Slices, EndOfSlice

------------------------------------------------------------------------------
(* Blocks *)

\* BlocksSafe of any arena, level and set of blocks.
SafeIn(a, level, bs) ==
  /\ level <= a.length
  /\ \A b \in bs :
       /\ Storage(a) <= b.start
       /\ b.start <= b.data
       /\ b.data + b.size <= Storage(a) + level
       /\ b.data % b.align = 0
       /\ \A c \in bs \ {b} : \/ b.data + b.size <= c.start
                              \/ c.data + c.size <= b.start

LEMMA SafeHome == BlocksSafe <=> (Home # Nil => SafeIn(Home, index, blocks))
  BY DEF BlocksSafe, SafeIn

LEMMA BlockFields ==
  ASSUME NEW b \in Blocks
  PROVE  b.start \in Nat /\ b.data \in Nat /\ b.size \in Nat \ {0} /\ b.align \in Nat \ {0}
  BY DEF Blocks

\* A new block above the level.
LEMMA SafeAlloc ==
  ASSUME NEW a \in Arenas, NEW level \in Nat, NEW next \in Nat,
         NEW bs \in SUBSET Blocks, NEW new \in Blocks,
         SafeIn(a, level, bs), new.data = new.start, new.data % new.align = 0,
         Storage(a) + level <= new.start,
         new.data + new.size = Storage(a) + next, next <= a.length
  PROVE  SafeIn(a, next, bs \cup {new})
<1>1. Storage(a) \in Nat /\ a.length \in Nat
  BY UnsyncAssumption DEF Storage, Arenas
<1>2. level < next
  BY <1>1, BlockFields
<1>3. ASSUME NEW b \in bs
      PROVE  /\ Storage(a) <= b.start /\ b.start <= b.data
             /\ b.data + b.size <= Storage(a) + next
             /\ b.data % b.align = 0
             /\ b.data + b.size <= new.start
  BY <1>1, <1>2, <1>3, BlockFields DEF SafeIn
<1>4. Storage(a) <= new.start /\ new.data + new.size <= Storage(a) + next
  BY <1>1, BlockFields
<1>5. ASSUME NEW b \in bs \cup {new}, NEW c \in (bs \cup {new}) \ {b}
      PROVE  b.data + b.size <= c.start \/ c.data + c.size <= b.start
  <2>1. CASE b \in bs /\ c \in bs
    BY <1>5, <2>1 DEF SafeIn
  <2>2. CASE b = new \/ c = new
    BY <1>3, <1>5, <2>2
  <2> QED
    BY <2>1, <2>2
<1> QED
  BY <1>3, <1>4, <1>5, BlockFields DEF SafeIn

\* A block that shrinks within its bounds.
LEMMA SafeShrink ==
  ASSUME NEW a \in Arenas, NEW level \in Nat, NEW bs \in SUBSET Blocks,
         NEW old \in bs, NEW new \in Blocks,
         SafeIn(a, level, bs), old.data = old.start, new.start = old.start,
         new.start <= new.data, new.data + new.size <= old.data + old.size,
         new.data % new.align = 0
  PROVE  SafeIn(a, level, (bs \ {old}) \cup {new})
<1> DEFINE bs2 == (bs \ {old}) \cup {new}
<1>1. Storage(a) \in Nat /\ a.length \in Nat
  BY UnsyncAssumption DEF Storage, Arenas
<1>2. /\ old \in Blocks
      /\ Storage(a) <= new.start
      /\ new.data + new.size <= Storage(a) + level
  BY <1>1, BlockFields DEF SafeIn
<1>3. ASSUME NEW c \in bs \ {old}
      PROVE  new.data + new.size <= c.start \/ c.data + c.size <= new.start
  <2>1. old.data + old.size <= c.start \/ c.data + c.size <= old.start
    BY <1>3 DEF SafeIn
  <2> QED
    BY <1>2, <1>3, <2>1, BlockFields
<1>4. ASSUME NEW b \in bs2, NEW c \in bs2 \ {b}
      PROVE  b.data + b.size <= c.start \/ c.data + c.size <= b.start
  <2>1. CASE b = new \/ c = new
    BY <1>3, <1>4, <2>1
  <2>2. CASE b \in bs \ {old} /\ c \in bs \ {old}
    BY <1>4, <2>2 DEF SafeIn
  <2> QED
    BY <1>4, <2>1, <2>2
<1>5. level <= a.length
  BY DEF SafeIn
<1>6. ASSUME NEW b \in bs2
      PROVE  /\ Storage(a) <= b.start /\ b.start <= b.data
             /\ b.data + b.size <= Storage(a) + level
             /\ b.data % b.align = 0
  BY <1>2, <1>6 DEF SafeIn
<1> HIDE DEF bs2
<1>7. SafeIn(a, level, bs2)
  BY <1>4, <1>5, <1>6 DEF SafeIn
<1> QED
  BY <1>7 DEF bs2

LEMMA LayoutFields ==
  ASSUME NEW layout \in Layouts
  PROVE  layout.size \in Nat \ {0} /\ layout.align \in Nat \ {0}
  BY UnsyncAssumption

\* The exhaustion test of try_alloc_at is right, and no assertion behind it fails.
LEMMA TestIsRight ==
  ASSUME arena \in Arenas, NEW layout \in Layouts, NEW level \in 0 .. arena.length
  PROVE  /\ Offset(level, layout) \in Nat
         /\ (Storage(arena) + level + Offset(level, layout)) % layout.align = 0
         /\ ~ Exhausted(level, layout) =>
              /\ level + Offset(level, layout) + layout.size <= arena.length
              /\ AssertsPass(level, layout)
         /\ Exhausted(level, layout) => ~ RoomIn(level, layout)
<1> DEFINE p == Offset(level, layout)
           base == Storage(arena)
<1>1. base \in Nat /\ arena.length \in Nat /\ level \in Nat /\ level <= arena.length
  BY UnsyncAssumption DEF Storage, Arenas
<1>2. layout.size \in Nat \ {0} /\ layout.align \in Nat \ {0}
  BY LayoutFields
<1>3. /\ p \in 0 .. layout.align - 1
      /\ (base + level + p) % layout.align = 0
      /\ \A m \in Nat : m >= base + level /\ m % layout.align = 0 => m >= base + level + p
  <2>1. base + level \in Nat
    BY <1>1
  <2> HIDE DEF base
  <2> QED
    BY <1>2, <2>1, Padding DEF Offset, base
<1>4. p \in Nat
  BY <1>2, <1>3
<1>5. /\ Exhausted(level, layout) <=> \/ p > arena.length - level
                                      \/ layout.size > arena.length - level - p
      /\ AssertsPass(level, layout) <=> /\ p < arena.length - level
                                        /\ level + p + layout.size <= arena.length
                                        /\ level + p < arena.length
  BY DEF Exhausted, AssertsPass
<1> HIDE DEF p
<1>6. ASSUME Exhausted(level, layout), RoomIn(level, layout)
      PROVE  FALSE
  <2>1. PICK s \in level .. arena.length : /\ (base + s) % layout.align = 0
                                           /\ s + layout.size <= arena.length
    BY <1>6 DEF RoomIn
  <2>2. base + s >= base + level + p
    BY <1>1, <1>3, <2>1
  <2> HIDE DEF base
  <2> QED
    BY <1>1, <1>2, <1>4, <1>5, <1>6, <2>1, <2>2
<1>7. ~ Exhausted(level, layout) =>
        level + p + layout.size <= arena.length /\ AssertsPass(level, layout)
  BY <1>1, <1>2, <1>4, <1>5
<1> QED
  BY <1>3, <1>4, <1>6, <1>7 DEF p

------------------------------------------------------------------------------
(* The invariant *)

\* Between into_mem and from_mem_unchecked there is exactly the memory of one
\* rounded arena, and from_mem makes no other arenas than rounded ones.
PlacesSound ==
  /\ arena # Nil /\ arena.made = "from_mem" => Rounded(arena)
  /\ returned # Nil => released # Nil
  /\ released # Nil =>
       /\ arena = Nil
       /\ released.made = "from_mem"
       /\ Rounded(released)
       /\ returned = [start |-> released.start, len |-> SizeOf(released)]

UnsyncInv == TypeOK /\ PlacesSound /\ StructInMemory /\ BlocksSafe

LEMMA InvAtStart == Init => UnsyncInv
  BY DEF Init, UnsyncInv, TypeOK, PlacesSound, StructInMemory, BlocksSafe, Home, Answers, Says

\* No answer that a call gives for itself has the wrong type.
LEMMA SaysAnswer ==
  ASSUME NEW result \in {"none", "ok", "mismatch", "panic"}
  PROVE  Says(result) \in Answers
  BY DEF Says, Answers

\* A fresh arena, rounded unless it was made otherwise, and within its memory.
LEMMA PlaceKeeps ==
  ASSUME UnsyncInv, NEW a \in Arenas, NEW m \in Slices, Place(a, m),
         a.made = "from_mem" => Rounded(a),
         a.made # "from_memory" => Inside(a, m)
  PROVE  UnsyncInv'
<1>1. /\ arena' = a /\ given' = m /\ index' = 0 /\ blocks' = {}
      /\ returned' = Nil /\ released' = Nil /\ held' = held /\ answer' = Says("none")
  BY DEF Place
<1>2. TypeOK'
  BY <1>1, SaysAnswer DEF UnsyncInv, TypeOK
<1>3. PlacesSound'
  BY <1>1 DEF PlacesSound, Rounded
<1>4. StructInMemory'
  BY <1>1 DEF StructInMemory, Inside, SizeOf, PadToAlign, EndOfSlice
<1>5. BlocksSafe'
  <2>1. a.length \in Nat
    BY DEF Arenas
  <2> QED
    BY <1>1, <2>1 DEF BlocksSafe, Home
<1> QED
  BY <1>2, <1>3, <1>4, <1>5 DEF UnsyncInv

LEMMA FromMemKeeps ==
  ASSUME UnsyncInv, NEW m \in Memories, FromMem(m)
  PROVE  UnsyncInv'
<1> DEFINE a == Reinterpret(Aligned(m))
<1>1. m \in Slices
  BY UnsyncAssumption DEF Slices
<1>2. Aligned(m).len >= HeaderSize /\ Place(a, m)
  BY DEF FromMem
<1>3. /\ Aligned(m) \in Slices
      /\ Aligned(m).start % HeaderSize = 0
      /\ m.start <= Aligned(m).start
      /\ EndOfSlice(Aligned(m)) = EndOfSlice(m)
  BY <1>1, <1>2, AlignedFront
<1>4. /\ a \in Arenas /\ a.made = "from_mem" /\ a.start = Aligned(m).start
      /\ Rounded(a) /\ SizeOf(a) <= Aligned(m).len
  BY <1>2, <1>3, ReinterpretFits
<1>5. Inside(a, m)
  <2>1. SizeOf(a) \in Nat
    BY <1>4, SizeCovers
  <2>2. a.start + SizeOf(a) <= EndOfSlice(Aligned(m))
    <3> HIDE DEF a
    <3> QED
      BY <1>3, <1>4, <2>1 DEF Slices, EndOfSlice
  <2> QED
    BY <1>3, <1>4, <2>2 DEF Inside
<1> HIDE DEF a
<1> QED
  BY <1>1, <1>2, <1>4, <1>5, PlaceKeeps

LEMMA NewKeeps ==
  ASSUME UnsyncInv, NEW m \in Memories, New(m)
  PROVE  UnsyncInv'
<1>1. m \in Slices
  BY UnsyncAssumption DEF Slices
<1>2. PICK length \in 0 .. m.len :
        LET a == [made |-> "new", start |-> m.start, length |-> length]
        IN  SizeOf(a) = m.len /\ Place(a, m)
  BY DEF New
<1> DEFINE a == [made |-> "new", start |-> m.start, length |-> length]
<1>3. a \in Arenas
  BY <1>1 DEF Arenas, Slices
<1>4. Inside(a, m)
  <2>1. m.start % HeaderSize = 0 /\ a.start = m.start /\ SizeOf(a) = m.len
    BY <1>2 DEF New
  <2> QED
    BY <1>1, <2>1 DEF Inside, EndOfSlice, Slices
<1>5. Place(a, m) /\ a.made = "new"
  BY <1>2
<1> HIDE DEF a
<1> QED
  BY <1>1, <1>3, <1>4, <1>5, PlaceKeeps

LEMMA FromMemoryKeeps ==
  ASSUME UnsyncInv, NEW m \in Memories, FromMemory(m)
  PROVE  UnsyncInv'
<1> DEFINE a == [made |-> "from_memory", start |-> Aligned(m).start,
                 length |-> Aligned(m).len - HeaderSize]
<1>1. m \in Slices
  BY UnsyncAssumption DEF Slices
<1>2. Aligned(m).len >= HeaderSize /\ Place(a, m)
  BY DEF FromMemory
<1>3. Aligned(m) \in Slices
  BY <1>1, <1>2, AlignedFront
<1>4. a \in Arenas /\ a.made = "from_memory"
  BY <1>2, <1>3, UnsyncAssumption DEF Arenas, Slices
<1> HIDE DEF a
<1> QED
  BY <1>1, <1>2, <1>4, PlaceKeeps

LEMMA IntoMemKeeps ==
  ASSUME UnsyncInv, IntoMem
  PROVE  UnsyncInv'
<1>1. /\ arena # Nil /\ arena.made = "from_mem" /\ arena \in Arenas
      /\ returned' = [start |-> arena.start, len |-> SizeOf(arena)]
      /\ released' = arena /\ arena' = Nil /\ answer' = Says("none")
      /\ given' = given /\ index' = index /\ blocks' = blocks /\ held' = held
  BY DEF IntoMem, UnsyncInv, TypeOK
<1>2. returned' \in Slices
  <2>1. SizeOf(arena) \in Nat /\ arena.start \in Nat
    BY <1>1, SizeCovers DEF Arenas
  <2> QED
    BY <1>1, <2>1 DEF Slices
<1>3. TypeOK'
  BY <1>1, <1>2, SaysAnswer DEF UnsyncInv, TypeOK
<1>4. PlacesSound'
  BY <1>1 DEF UnsyncInv, PlacesSound, Rounded, SizeOf, PadToAlign
<1>5. StructInMemory'
  BY <1>1 DEF StructInMemory
<1>6. BlocksSafe'
  <2>1. Home = arena /\ Home' = arena
    BY <1>1 DEF Home
  <2>2. SafeIn(arena, index, blocks)
    BY <1>1, <2>1, SafeHome DEF UnsyncInv
  <2> QED
    BY <1>1, <2>1, <2>2 DEF BlocksSafe, SafeIn, Storage
<1> QED
  BY <1>3, <1>4, <1>5, <1>6 DEF UnsyncInv

\* The arena that comes back is the one that was taken apart.
LEMMA ReturnedIsReleased ==
  ASSUME UnsyncInv, released # Nil
  PROVE  Reinterpret(returned) = released
  BY ReinterpretReturned DEF UnsyncInv, TypeOK, PlacesSound

LEMMA FromMemUncheckedKeeps ==
  ASSUME UnsyncInv, FromMemUnchecked
  PROVE  UnsyncInv'
<1>1. /\ arena = Nil /\ released # Nil /\ released \in Arenas /\ returned \in Slices
      /\ released.made = "from_mem" /\ Rounded(released)
      /\ returned = [start |-> released.start, len |-> SizeOf(released)]
  BY DEF FromMemUnchecked, UnsyncInv, TypeOK, PlacesSound
<1>2. /\ arena' = released /\ given' = returned /\ returned' = Nil /\ released' = Nil
      /\ answer' = Says("none") /\ index' = index /\ blocks' = blocks /\ held' = held
  BY <1>1, ReturnedIsReleased DEF FromMemUnchecked
<1>3. TypeOK'
  BY <1>1, <1>2, SaysAnswer DEF UnsyncInv, TypeOK
<1>4. PlacesSound'
  BY <1>1, <1>2 DEF PlacesSound, Rounded
<1>5. StructInMemory'
  <2>1. released.start + SizeOf(released) <= EndOfSlice(returned)
    <3>1. SizeOf(released) \in Nat /\ released.start \in Nat
      BY <1>1, SizeCovers DEF Arenas
    <3> QED
      BY <1>1, <3>1 DEF EndOfSlice
  <2>2. Inside(released, returned)
    BY <1>1, <2>1 DEF Inside, Rounded, Arenas
  <2> QED
    BY <1>2, <2>2 DEF StructInMemory, Inside, SizeOf, PadToAlign, EndOfSlice
<1>6. BlocksSafe'
  <2>1. Home = released /\ Home' = released
    BY <1>1, <1>2 DEF Home
  <2>2. SafeIn(released, index, blocks)
    BY <1>1, <2>1, SafeHome DEF UnsyncInv
  <2> QED
    BY <1>2, <2>1, <2>2 DEF BlocksSafe, SafeIn, Storage
<1> QED
  BY <1>3, <1>4, <1>5, <1>6 DEF UnsyncInv

LEMMA DiscardKeeps ==
  ASSUME UnsyncInv, Discard
  PROVE  UnsyncInv'
<1>1. /\ arena' = Nil /\ answer' = Says("none") /\ released = Nil /\ returned = Nil
      /\ UNCHANGED <<given, index, returned, released, blocks, held>>
  BY DEF Discard, UnsyncInv, PlacesSound
<1>2. TypeOK'
  BY <1>1, SaysAnswer DEF UnsyncInv, TypeOK
<1> QED
  BY <1>1, <1>2 DEF UnsyncInv, PlacesSound, StructInMemory, BlocksSafe, Home

\* Where the arena is does not change and only index and blocks may: what is
\* left to show is that the blocks are safe.
LEMMA InPlaceKeeps ==
  ASSUME UnsyncInv, InUse, UNCHANGED place, index' \in Nat, held' \in Nat,
         blocks' \subseteq Blocks, answer' \in Answers, SafeIn(arena, index', blocks')
  PROVE  UnsyncInv'
<1>1. arena' = arena /\ given' = given /\ returned' = returned /\ released' = released
  BY DEF place
<1>2. TypeOK'
  BY <1>1 DEF UnsyncInv, TypeOK
<1>3. PlacesSound'
  BY <1>1 DEF UnsyncInv, PlacesSound, Rounded, SizeOf, PadToAlign
<1>4. StructInMemory'
  BY <1>1 DEF UnsyncInv, StructInMemory, Inside, SizeOf, PadToAlign, EndOfSlice
<1>5. BlocksSafe'
  <2>1. Home' = arena
    BY <1>1 DEF InUse, Home
  <2> QED
    BY <2>1 DEF BlocksSafe, SafeIn, Storage
<1> QED
  BY <1>2, <1>3, <1>4, <1>5 DEF UnsyncInv

\* What an arena in use may rely on.
LEMMA InUseSound ==
  ASSUME UnsyncInv, InUse
  PROVE  /\ arena \in Arenas
         /\ index \in 0 .. arena.length
         /\ held \in Nat
         /\ blocks \subseteq Blocks
         /\ SafeIn(arena, index, blocks)
<1>1. arena \in Arenas /\ index \in Nat /\ held \in Nat /\ blocks \subseteq Blocks
  BY DEF UnsyncInv, TypeOK, InUse
<1>2. SafeIn(arena, index, blocks)
  BY SafeHome DEF UnsyncInv, InUse, Home
<1> QED
  BY <1>1, <1>2 DEF SafeIn, Arenas

LEMMA TryAllocAtKeeps ==
  ASSUME UnsyncInv, NEW layout \in Layouts, NEW expect \in Nat, TryAllocAt(layout, expect)
  PROVE  UnsyncInv'
<1> DEFINE p == Offset(expect, layout)
           b == BlockAt(expect, layout)
           base == Storage(arena)
<1>1. /\ InUse /\ expect <= arena.length /\ ~ Exhausted(expect, layout)
      /\ index = expect /\ index' = expect + p + layout.size
      /\ blocks' = blocks \cup {b} /\ answer' = Says("ok")
      /\ UNCHANGED place /\ held' = held
  BY DEF TryAllocAt
<1>2. /\ arena \in Arenas /\ index \in 0 .. arena.length /\ held \in Nat
      /\ blocks \subseteq Blocks /\ SafeIn(arena, index, blocks)
  BY <1>1, InUseSound
<1>3. /\ p \in Nat
      /\ (base + expect + p) % layout.align = 0
      /\ expect + p + layout.size <= arena.length
  <2> HIDE DEF p, base
  <2> QED
    BY <1>1, <1>2, TestIsRight DEF p, base
<1>4. /\ layout.size \in Nat \ {0} /\ layout.align \in Nat \ {0}
      /\ base \in Nat /\ arena.length \in Nat
  BY <1>2, LayoutFields, UnsyncAssumption DEF Storage, Arenas
<1>5. b = [start |-> base + expect + p, size |-> layout.size, align |-> layout.align,
           data |-> base + expect + p]
  BY DEF BlockAt
<1> HIDE DEF p, b
<1>6. b \in Blocks
  <2>1. base + expect + p \in Nat
    BY <1>3, <1>4
  <2> HIDE DEF base
  <2> QED
    BY <1>4, <1>5, <2>1 DEF Blocks
<1>7. /\ b.data = b.start
      /\ b.data % b.align = 0
      /\ base + index <= b.start
      /\ b.data + b.size = base + index'
      /\ index' \in Nat /\ index' <= arena.length
  <2> HIDE DEF base
  <2> QED
    BY <1>1, <1>3, <1>4, <1>5
<1>8. SafeIn(arena, index', blocks')
  BY <1>1, <1>2, <1>6, <1>7, SafeAlloc
<1> QED
  BY <1>1, <1>2, <1>6, <1>7, <1>8, InPlaceKeeps, SaysAnswer

\* A call that fails changes nothing.
LEMMA TryAllocAtFailsKeeps ==
  ASSUME UnsyncInv, NEW layout \in Layouts, NEW expect \in Nat,
         TryAllocAtFails(layout, expect)
  PROVE  UnsyncInv'
<1>1. /\ InUse /\ UNCHANGED place
      /\ index' = index /\ blocks' = blocks /\ held' = held
  BY DEF TryAllocAtFails
<1>2. answer' \in Answers
  BY SaysAnswer DEF TryAllocAtFails, Answers
<1> QED
  BY <1>1, <1>2, InUseSound, InPlaceKeeps

LEMMA LearnKeeps ==
  ASSUME UnsyncInv, Learn
  PROVE  UnsyncInv'
<1>1. /\ InUse /\ UNCHANGED place
      /\ index' = index /\ blocks' = blocks /\ held' = index /\ answer' = Says("ok")
  BY DEF Learn
<1> QED
  BY <1>1, InUseSound, InPlaceKeeps, SaysAnswer

LEMMA ResetKeeps ==
  ASSUME UnsyncInv, Reset
  PROVE  UnsyncInv'
<1>1. /\ InUse /\ UNCHANGED place
      /\ index' = 0 /\ blocks' = {} /\ held' = held /\ answer' = Says("none")
  BY DEF Reset
<1>2. SafeIn(arena, 0, {})
  BY <1>1, InUseSound DEF SafeIn, Arenas
<1> QED
  BY <1>1, <1>2, InUseSound, InPlaceKeeps, SaysAnswer

LEMMA ShrinkKeeps ==
  ASSUME UnsyncInv, NEW b \in blocks, NEW layout \in Layouts, Shrink(b, layout)
  PROVE  UnsyncInv'
<1> DEFINE p == AlignOffset(b.start, layout.align)
           new == [start |-> b.start, size |-> layout.size, align |-> layout.align,
                   data |-> b.start + p]
<1>1. /\ InUse /\ UNCHANGED place /\ b.data = b.start /\ layout.size + p <= b.size
      /\ blocks' = (blocks \ {b}) \cup {new}
      /\ index' = index /\ held' = held /\ answer' = Says("ok")
  BY DEF Shrink
<1>2. /\ arena \in Arenas /\ index \in 0 .. arena.length /\ held \in Nat
      /\ blocks \subseteq Blocks /\ SafeIn(arena, index, blocks)
  BY <1>1, InUseSound
<1>3. /\ layout.size \in Nat \ {0} /\ layout.align \in Nat \ {0}
      /\ b.start \in Nat /\ b.size \in Nat
  BY <1>2, LayoutFields, BlockFields
<1>4. p \in 0 .. layout.align - 1 /\ (b.start + p) % layout.align = 0
  <2> HIDE DEF p
  <2> QED
    BY <1>3, Padding DEF p
<1>5. new \in Blocks
  <2>1. b.start + p \in Nat
    <3> HIDE DEF p
    <3> QED
      BY <1>3, <1>4
  <2> QED
    BY <1>3, <2>1 DEF Blocks
<1>6. /\ new.start = b.start
      /\ new.start <= new.data
      /\ new.data + new.size <= b.data + b.size
      /\ new.data % new.align = 0
  <2> HIDE DEF p
  <2> QED
    BY <1>1, <1>3, <1>4
<1> HIDE DEF p, new
<1>7. SafeIn(arena, index', blocks')
  BY <1>1, <1>2, <1>5, <1>6, SafeShrink
<1> QED
  BY <1>1, <1>2, <1>5, <1>7, InPlaceKeeps, SaysAnswer

LEMMA NextKeeps ==
  ASSUME UnsyncInv, [Next]_vars
  PROVE  UnsyncInv'
<1>1. ASSUME NEW m \in Memories, FromMem(m) \/ New(m) \/ FromMemory(m)
      PROVE  UnsyncInv'
  BY <1>1, FromMemKeeps, NewKeeps, FromMemoryKeeps
<1>2. CASE IntoMem \/ FromMemUnchecked \/ Discard
  BY <1>2, IntoMemKeeps, FromMemUncheckedKeeps, DiscardKeeps
<1>3. ASSUME NEW layout \in Layouts, Alloc(layout) \/ AllocAt(layout)
      PROVE  UnsyncInv'
  <2>1. index \in Nat /\ held \in Nat
    BY DEF UnsyncInv, TypeOK
  <2> QED
    BY <1>3, <2>1, TryAllocAtKeeps, TryAllocAtFailsKeeps DEF Alloc, AllocAt
<1>4. CASE Learn \/ Reset
  BY <1>4, LearnKeeps, ResetKeeps
<1>5. ASSUME NEW b \in blocks, NEW layout \in Layouts, Shrink(b, layout)
      PROVE  UnsyncInv'
  BY <1>5, ShrinkKeeps
<1>6. CASE UNCHANGED vars
  BY <1>6 DEF vars, place, UnsyncInv, TypeOK, PlacesSound, StructInMemory, BlocksSafe,
              Inside, Rounded, Home, Storage, SizeOf, PadToAlign, EndOfSlice
<1> QED
  BY <1>1, <1>2, <1>3, <1>4, <1>5, <1>6 DEF Next

THEOREM UnsyncInvariant == Spec => []UnsyncInv
<1>1. Init => UnsyncInv
  BY InvAtStart
<1>2. UnsyncInv /\ [Next]_vars => UnsyncInv'
  BY NextKeeps
<1> QED
  BY <1>1, <1>2, PTL DEF Spec

\* Type correctness: neither the length of an arena nor what is given back ever
\* underflows, which from_mem and reinterpret_aligned_mem compute by subtraction.
THEOREM UnsyncTypeCorrect == Spec => []TypeOK
<1>1. UnsyncInv => TypeOK
  BY DEF UnsyncInv
<1> QED
  BY <1>1, UnsyncInvariant, PTL

\* The struct of every arena of from_mem, from_mem_unchecked and new lies within
\* its memory, padding included (reinterpret_aligned_mem).
THEOREM UnsyncStructInMemory == Spec => []StructInMemory
<1>1. UnsyncInv => StructInMemory
  BY DEF UnsyncInv
<1> QED
  BY <1>1, UnsyncInvariant, PTL

\* Blocks are apart, aligned and below the level, while there is an arena and
\* while its memory is with the caller (try_alloc_at, shrink_in_place, into_mem).
THEOREM UnsyncBlocksSafe == Spec => []BlocksSafe
<1>1. UnsyncInv => BlocksSafe
  BY DEF UnsyncInv
<1> QED
  BY <1>1, UnsyncInvariant, PTL

\* into_mem followed by from_mem_unchecked is the identity.
THEOREM UnsyncRoundTrip == Spec => []RoundTrip
<1>1. UnsyncInv => RoundTrip
  BY ReturnedIsReleased DEF RoundTrip
<1> QED
  BY <1>1, UnsyncInvariant, PTL

------------------------------------------------------------------------------
(* Answers *)

\* Answers that AnswersTrue says nothing about.
LEMMA PlainAnswer ==
  ASSUME NEW result \in {"none", "ok", "mismatch"}, answer' = Says(result)
  PROVE  AnswersTrue'
  BY DEF Says, AnswersTrue

LEMMA FailureTrue ==
  ASSUME UnsyncInv, NEW layout \in Layouts, NEW expect \in {index, held},
         TryAllocAtFails(layout, expect)
  PROVE  AnswersTrue'
<1>1. /\ arena \in Arenas /\ index \in 0 .. arena.length /\ held \in Nat
      /\ arena' = arena /\ index' = index /\ held' = held
  BY InUseSound DEF TryAllocAtFails, place
<1>2. arena.length \in Nat /\ expect \in Nat
  BY <1>1 DEF Arenas
<1>3. CASE expect > arena.length
  <2>1. held > arena.length /\ answer' = Says("panic")
    BY <1>1, <1>2, <1>3 DEF TryAllocAtFails
  <2> QED
    BY <1>1, <2>1 DEF Says, AnswersTrue
<1>4. CASE expect <= arena.length /\ Exhausted(expect, layout)
  <2>1. answer' = [result |-> "exhausted", layout |-> layout, level |-> expect]
    BY <1>2, <1>4 DEF TryAllocAtFails
  <2>2. ~ RoomIn(expect, layout)
    BY <1>1, <1>2, <1>4, TestIsRight
  <2>3. expect <= index => ~ RoomIn(index, layout)
    <3>1. expect <= index => index .. arena.length \subseteq expect .. arena.length
      BY <1>1, <1>2
    <3> QED
      BY <2>2, <3>1 DEF RoomIn
  <2> QED
    BY <1>1, <2>1, <2>3 DEF AnswersTrue, RoomIn, Storage
<1>5. CASE expect <= arena.length /\ ~ Exhausted(expect, layout)
  <2>1. AssertsPass(expect, layout)
    BY <1>1, <1>2, <1>5, TestIsRight
  <2>2. answer' = Says("mismatch")
    BY <1>2, <1>5, <2>1 DEF TryAllocAtFails
  <2> QED
    BY <2>2, PlainAnswer
<1> QED
  BY <1>2, <1>3, <1>4, <1>5

\* An exhaustion is reported only where no aligned place is left, and no assertion
\* of try_alloc_at fails but for a level beyond the storage.
THEOREM UnsyncAnswersTrue == Spec => []AnswersTrue
<1>1. Init => AnswersTrue
  BY DEF Init, AnswersTrue, Says
<1>2. ASSUME UnsyncInv, AnswersTrue, [Next]_vars
      PROVE  AnswersTrue'
  <2>1. CASE UNCHANGED vars
    BY <1>2, <2>1 DEF vars, place, AnswersTrue, RoomIn, Storage
  <2>2. ASSUME NEW layout \in Layouts, Alloc(layout) \/ AllocAt(layout)
        PROVE  AnswersTrue'
    <3>1. CASE TryAllocAt(layout, index) \/ TryAllocAt(layout, held)
      BY <3>1, PlainAnswer DEF TryAllocAt
    <3>2. CASE TryAllocAtFails(layout, index) \/ TryAllocAtFails(layout, held)
      BY <1>2, <3>2, FailureTrue
    <3> QED
      BY <2>2, <3>1, <3>2 DEF Alloc, AllocAt
  <2>3. ASSUME NEW m \in Memories, FromMem(m) \/ New(m) \/ FromMemory(m)
        PROVE  AnswersTrue'
    <3>1. answer' = Says("none")
      BY <2>3 DEF FromMem, New, FromMemory, Place
    <3> QED
      BY <3>1, PlainAnswer
  <2>4. CASE IntoMem \/ FromMemUnchecked \/ Discard \/ Learn \/ Reset
    BY <2>4, PlainAnswer DEF IntoMem, FromMemUnchecked, Discard, Learn, Reset
  <2>5. ASSUME NEW b \in blocks, NEW layout \in Layouts, Shrink(b, layout)
        PROVE  AnswersTrue'
    BY <2>5, PlainAnswer DEF Shrink
  <2> QED
    BY <1>2, <2>1, <2>2, <2>3, <2>4, <2>5 DEF Next
<1> QED
  BY <1>1, <1>2, UnsyncInvariant, PTL DEF Spec

------------------------------------------------------------------------------
(* What follows for the memory, and how far it fails *)

ArenaHasMemory == arena # Nil => given \in Slices

LEMMA MemoryIsGiven == Spec => []ArenaHasMemory
<1>1. Init => ArenaHasMemory
  BY DEF Init, ArenaHasMemory
<1>2. ASSUME UnsyncInv, ArenaHasMemory, [Next]_vars
      PROVE  ArenaHasMemory'
  <2>1. ASSUME arena' = arena \/ arena' = Nil, given' = given
        PROVE  ArenaHasMemory'
    BY <1>2, <2>1 DEF ArenaHasMemory
  <2>2. ASSUME NEW m \in Memories, FromMem(m) \/ New(m) \/ FromMemory(m)
        PROVE  ArenaHasMemory'
    BY <2>2, UnsyncAssumption DEF ArenaHasMemory, FromMem, New, FromMemory, Place, Slices
  <2>3. CASE FromMemUnchecked
    BY <1>2, <2>3 DEF ArenaHasMemory, FromMemUnchecked, UnsyncInv, TypeOK
  <2>4. CASE IntoMem \/ Discard
    BY <2>1, <2>4 DEF IntoMem, Discard
  <2>5. ASSUME NEW layout \in Layouts, Alloc(layout) \/ AllocAt(layout)
        PROVE  ArenaHasMemory'
    BY <2>1, <2>5 DEF Alloc, AllocAt, TryAllocAt, TryAllocAtFails, place
  <2>6. CASE Learn \/ Reset
    BY <2>1, <2>6 DEF Learn, Reset, place
  <2>7. ASSUME NEW b \in blocks, NEW layout \in Layouts, Shrink(b, layout)
        PROVE  ArenaHasMemory'
    BY <2>1, <2>7 DEF Shrink, place
  <2>8. CASE UNCHANGED vars
    BY <2>1, <2>8 DEF vars, place
  <2> QED
    BY <1>2, <2>2, <2>3, <2>4, <2>5, <2>6, <2>7, <2>8 DEF Next
<1> QED
  BY <1>1, <1>2, UnsyncInvariant, PTL DEF Spec

\* The caller's memory is all that is ever handed out: every block lies in what
\* from_mem, from_mem_unchecked or new was given.
BlocksInMemory ==
  arena # Nil /\ arena.made # "from_memory" =>
    \A b \in blocks : given.start <= b.start /\ b.data + b.size <= EndOfSlice(given)

\* The struct is in the memory and the blocks are in its storage, for any header
\* and any length of memory, rounded or not.
THEOREM UnsyncBlocksInMemory == Spec => []BlocksInMemory
<1>1. ASSUME UnsyncInv, ArenaHasMemory, arena # Nil, arena.made # "from_memory",
             NEW b \in blocks
      PROVE  given.start <= b.start /\ b.data + b.size <= EndOfSlice(given)
  <2>1. /\ b \in Blocks /\ given \in Slices \cup {Nil}
        /\ Inside(arena, given) /\ SafeIn(arena, index, blocks)
        /\ arena \in Arenas /\ index \in Nat
    BY <1>1, SafeHome DEF UnsyncInv, TypeOK, StructInMemory, Home
  <2>2. /\ given.start <= arena.start
        /\ arena.start + SizeOf(arena) <= EndOfSlice(given)
        /\ arena.start + HeaderSize <= b.start
        /\ b.data + b.size <= arena.start + HeaderSize + index
        /\ index <= arena.length
    BY <2>1 DEF Inside, SafeIn, Storage
  <2>3. /\ SizeOf(arena) \in Nat /\ SizeOf(arena) >= HeaderSize + arena.length
        /\ HeaderSize \in Nat /\ arena.start \in Nat /\ arena.length \in Nat
        /\ index \in Nat
        /\ b.start \in Nat /\ b.data \in Nat /\ b.size \in Nat
    BY <2>1, SizeCovers, BlockFields, UnsyncAssumption DEF Arenas
  <2>4. given.start \in Int /\ EndOfSlice(given) \in Int
    BY <1>1 DEF ArenaHasMemory, Slices, EndOfSlice
  <2>5. given.start <= b.start
    BY <2>2, <2>3, <2>4
  <2>6. arena.start + HeaderSize + index <= EndOfSlice(given)
    BY <2>2, <2>3, <2>4
  <2> QED
    BY <2>2, <2>3, <2>4, <2>5, <2>6
<1>2. UnsyncInv /\ ArenaHasMemory => BlocksInMemory
  BY <1>1 DEF BlocksInMemory
<1> QED
  BY <1>2, UnsyncInvariant, MemoryIsGiven, PTL

\* How far SyncStructInMemory fails: the synchronized from_memory puts header and
\* storage into the memory and aligns them; only the padding of the struct may lie
\* behind it, and that is less than one header.
OverrunIsPadding ==
  arena # Nil /\ arena.made = "from_memory" =>
    /\ given.start <= arena.start
    /\ arena.start % HeaderSize = 0
    /\ Storage(arena) + arena.length = EndOfSlice(given)
    /\ arena.start + SizeOf(arena) < EndOfSlice(given) + HeaderSize

\* No byte the arena could ever hand out is out of bounds.
THEOREM UnsyncOverrunIsPadding == Spec => []OverrunIsPadding
<1>1. Init => OverrunIsPadding
  BY DEF Init, OverrunIsPadding
<1>2. ASSUME NEW m \in Memories, FromMemory(m)
      PROVE  OverrunIsPadding'
  <2> DEFINE a == [made |-> "from_memory", start |-> Aligned(m).start,
                   length |-> Aligned(m).len - HeaderSize]
  <2>1. m \in Slices /\ Aligned(m).len >= HeaderSize /\ arena' = a /\ given' = m
    BY <1>2, UnsyncAssumption DEF FromMemory, Place, Slices
  <2>2. /\ Aligned(m) \in Slices
        /\ Aligned(m).start % HeaderSize = 0
        /\ m.start <= Aligned(m).start
        /\ EndOfSlice(Aligned(m)) = EndOfSlice(m)
    BY <2>1, AlignedFront
  <2>3. a.start = Aligned(m).start /\ a.length = Aligned(m).len - HeaderSize
    OBVIOUS
  <2> HIDE DEF a
  <2>4. /\ HeaderSize \in Nat \ {0} /\ a.start \in Nat /\ a.length \in Nat
        /\ a.start + HeaderSize + a.length = EndOfSlice(m)
    BY <2>1, <2>2, <2>3, UnsyncAssumption DEF Slices, EndOfSlice
  <2>5. AlignOffset(HeaderSize + a.length, HeaderSize) \in 0 .. HeaderSize - 1
    <3>1. HeaderSize + a.length \in Nat
      BY <2>4
    <3> QED
      BY <2>4, <3>1, Padding
  <2>6. a.start + SizeOf(a) < EndOfSlice(m) + HeaderSize
    BY <2>4, <2>5 DEF SizeOf, PadToAlign
  <2>7. Storage(a) + a.length = EndOfSlice(m)
    BY <2>4 DEF Storage
  <2>8. m.start <= a.start /\ a.start % HeaderSize = 0
    BY <2>2, <2>3
  <2> QED
    BY <2>1, <2>6, <2>7, <2>8 DEF OverrunIsPadding, Storage, SizeOf, PadToAlign, EndOfSlice
<1>3. ASSUME UnsyncInv, OverrunIsPadding, [Next]_vars
      PROVE  OverrunIsPadding'
  <2>1. ASSUME arena' = arena, given' = given
        PROVE  OverrunIsPadding'
    BY <1>3, <2>1 DEF OverrunIsPadding, Storage, SizeOf, PadToAlign, EndOfSlice
  <2>2. ASSUME arena' # Nil => arena'.made # "from_memory"
        PROVE  OverrunIsPadding'
    BY <2>2 DEF OverrunIsPadding
  <2>3. ASSUME NEW m \in Memories, FromMem(m) \/ New(m)
        PROVE  OverrunIsPadding'
    <3>1. CASE FromMem(m)
      BY <2>2, <3>1 DEF FromMem, Place, Reinterpret
    <3>2. CASE New(m)
      BY <2>2, <3>2 DEF New, Place
    <3> QED
      BY <2>3, <3>1, <3>2
  <2>4. CASE IntoMem \/ FromMemUnchecked \/ Discard
    BY <2>2, <2>4 DEF IntoMem, FromMemUnchecked, Discard, Reinterpret
  <2>5. ASSUME NEW layout \in Layouts, Alloc(layout) \/ AllocAt(layout)
        PROVE  OverrunIsPadding'
    BY <2>1, <2>5 DEF Alloc, AllocAt, TryAllocAt, TryAllocAtFails, place
  <2>6. CASE Learn \/ Reset
    BY <2>1, <2>6 DEF Learn, Reset, place
  <2>7. ASSUME NEW b \in blocks, NEW layout \in Layouts, Shrink(b, layout)
        PROVE  OverrunIsPadding'
    BY <2>1, <2>7 DEF Shrink, place
  <2>8. CASE UNCHANGED vars
    BY <2>1, <2>8 DEF vars, place
  <2> QED
    BY <1>2, <1>3, <2>3, <2>4, <2>5, <2>6, <2>7, <2>8 DEF Next
<1> QED
  BY <1>1, <1>3, UnsyncInvariant, PTL DEF Spec

\* How far ShrunkFits fails: the bytes are away from the pointer only if the
\* pointer is not aligned for the layout the block was shrunk to.
MovedOnlyToAlign == \A b \in blocks : b.start % b.align = 0 => b.data = b.start

\* shrink_in_place to the same or a smaller alignment is sound.
THEOREM UnsyncMovedOnlyToAlign == Spec => []MovedOnlyToAlign
<1>1. Init => MovedOnlyToAlign
  BY DEF Init, MovedOnlyToAlign
<1>2. ASSUME UnsyncInv, MovedOnlyToAlign, NEW b \in blocks, NEW layout \in Layouts, Shrink(b, layout)
      PROVE  MovedOnlyToAlign'
  <2> DEFINE new == [start |-> b.start, size |-> layout.size, align |-> layout.align,
                     data |-> b.start + AlignOffset(b.start, layout.align)]
  <2>1. blocks' = (blocks \ {b}) \cup {new}
    BY <1>2 DEF Shrink
  <2>2. b.start \in Nat /\ layout.align \in Nat \ {0}
    BY <1>2, LayoutFields, BlockFields DEF UnsyncInv, TypeOK
  <2>3. new.start % new.align = 0 => new.data = new.start
    BY <2>2, NoPadding
  <2> HIDE DEF new
  <2> QED
    BY <1>2, <2>1, <2>3 DEF MovedOnlyToAlign
<1>3. ASSUME UnsyncInv, MovedOnlyToAlign, [Next]_vars
      PROVE  MovedOnlyToAlign'
  <2>1. ASSUME blocks' \subseteq blocks
        PROVE  MovedOnlyToAlign'
    BY <1>3, <2>1 DEF MovedOnlyToAlign
  <2>2. ASSUME NEW layout \in Layouts, NEW expect, TryAllocAt(layout, expect)
        PROVE  MovedOnlyToAlign'
    BY <1>3, <2>2 DEF MovedOnlyToAlign, TryAllocAt, BlockAt
  <2>3. ASSUME NEW layout \in Layouts, NEW expect, TryAllocAtFails(layout, expect)
        PROVE  MovedOnlyToAlign'
    BY <2>1, <2>3 DEF TryAllocAtFails
  <2>4. ASSUME NEW m \in Memories, FromMem(m) \/ New(m) \/ FromMemory(m)
        PROVE  MovedOnlyToAlign'
    BY <2>1, <2>4 DEF FromMem, New, FromMemory, Place
  <2>5. CASE IntoMem \/ FromMemUnchecked \/ Discard \/ Learn \/ Reset \/ UNCHANGED vars
    BY <2>1, <2>5 DEF IntoMem, FromMemUnchecked, Discard, Learn, Reset, vars
  <2> QED
    BY <1>2, <1>3, <2>2, <2>3, <2>4, <2>5 DEF Next, Alloc, AllocAt
<1> QED
  BY <1>1, <1>3, UnsyncInvariant, PTL DEF Spec

=============================================================================

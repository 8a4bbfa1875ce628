----------------------------- MODULE UnsyncBump -----------------------------
(***************************************************************************)
(* static-alloc/src/unsync/bump.rs: the single-threaded arena, placed into *)
(* memory of the caller, taken out again and reopened there; and with it   *)
(* what the allocator bridge does to its blocks, allocator_api2.rs.        *)
(*                                                                         *)
(* All addresses are absolute, because the arena moves.  Its index is kept *)
(* in a header at the start of the memory it uses, and is still there when *)
(* the memory comes back.  Nothing here is Sync.                           *)
(***************************************************************************)
EXTENDS Integers

CONSTANTS
  HeaderSize,  \* size and alignment of a Header, that is, of a usize
  Memories,    \* pieces of memory the caller may use for an arena
  Layouts,     \* the layouts a caller may ask for
  Nil          \* no arena, no memory

\* Only for AlignOffset, which takes an address.
Addresses == INSTANCE Arena WITH Base <- 0, Length <- 0

AlignOffset(addr, align) == Addresses!AlignOffset(addr, align)

ASSUME UnsyncAssumption ==
  /\ HeaderSize \in Nat \ {0}
  /\ Memories \subseteq [start : Nat, len : Nat]
  /\ Layouts \subseteq [size : Nat \ {0}, align : Nat \ {0}]
  /\ Nil \notin [start : Nat, len : Nat]

VARIABLES
  arena,     \* the BumpSlice in use: how it was made, its address and length
  given,     \* history: the memory it was made from
  index,     \* Header::index
  returned,  \* the memory into_mem gave back, untouched since
  released,  \* history: the arena into_mem took apart
  blocks,    \* history: the blocks handed out and not forgotten
  held,      \* a Level that was learnt some time ago
  answer     \* history: what the call that just returned said

place == <<arena, given, returned, released>>
vars == <<place, index, blocks, held, answer>>

Slices == [start : Nat, len : Nat]

Arenas == [made : {"from_mem", "new", "from_memory"}, start : Nat, length : Nat]

\* data is where the bytes of a block are, start where its owner looks for them.
Blocks == [start : Nat, size : Nat \ {0}, align : Nat \ {0}, data : Nat]

Answers ==
  [result : {"none", "ok", "mismatch", "panic"}]
    \cup [result : {"exhausted"}, layout : Layouts, level : Nat]

Says(result) == [result |-> result]

------------------------------------------------------------------------------
(* Layout of an arena *)

EndOfSlice(m) == m.start + m.len

\* The storage follows the header.
Storage(a) == a.start + HeaderSize

PadToAlign(size) == size + AlignOffset(size, HeaderSize)

\* Layout::for_value of a BumpSlice: header and storage, padded.
SizeOf(a) == PadToAlign(HeaderSize + a.length)

\* Mutation: uses all of the memory behind the header.
ReinterpretUnrounded(m) ==
  [made |-> "from_mem", start |-> m.start, length |-> m.len - HeaderSize]

\* reinterpret_aligned_mem
Reinterpret(m) ==
  LET datasize == m.len - HeaderSize
  IN  [made |-> "from_mem", start |-> m.start,
       length |-> datasize - (datasize % HeaderSize)]

Aligned(m) ==
  LET offset == AlignOffset(m.start, HeaderSize)
  IN  [start |-> m.start + offset, len |-> m.len - offset]

------------------------------------------------------------------------------
(* Making an arena *)

\* A fresh arena in memory whose former contents are nobody's.
Place(a, m) ==
  /\ arena' = a
  /\ given' = m
  /\ index' = 0
  /\ blocks' = {}
  /\ returned' = Nil
  /\ released' = Nil
  /\ answer' = Says("none")
  /\ UNCHANGED held

\* from_mem, when the memory is large enough.
FromMem(m) ==
  /\ arena = Nil
  /\ Aligned(m).len >= HeaderSize
  /\ Place(Reinterpret(Aligned(m)), m)

\* BumpSlice::new and unsync::Bump: memory for exactly this arena, aligned.
New(m) ==
  /\ arena = Nil
  /\ m.start % HeaderSize = 0
  /\ \E length \in 0 .. m.len :
       LET a == [made |-> "new", start |-> m.start, length |-> length]
       IN  SizeOf(a) = m.len /\ Place(a, m)

\* BumpSlice::from_memory of the synchronized arena: boxes a header in a
\* temporary arena over all of the memory.  It can do nothing else here.
FromMemory(m) ==
  /\ arena = Nil
  /\ Aligned(m).len >= HeaderSize
  /\ Place([made |-> "from_memory", start |-> Aligned(m).start,
            length |-> Aligned(m).len - HeaderSize], m)

\* Mutation: gives the memory back without the header.
IntoMemBare ==
  /\ arena # Nil
  /\ arena.made = "from_mem"
  /\ returned' = [start |-> Storage(arena), len |-> SizeOf(arena) - HeaderSize]
  /\ released' = arena
  /\ arena' = Nil
  /\ answer' = Says("none")
  /\ UNCHANGED <<given, index, blocks, held>>

\* into_mem: gives back what the arena occupies, index and blocks in it.
IntoMem ==
  /\ arena # Nil
  /\ arena.made = "from_mem"
  /\ returned' = [start |-> arena.start, len |-> SizeOf(arena)]
  /\ released' = arena
  /\ arena' = Nil
  /\ answer' = Says("none")
  /\ UNCHANGED <<given, index, blocks, held>>

\* from_mem_unchecked: "only [...] from into_mem", and untouched.
FromMemUnchecked ==
  /\ arena = Nil
  /\ returned # Nil
  /\ arena' = Reinterpret(returned)
  /\ given' = returned
  /\ returned' = Nil
  /\ released' = Nil
  /\ answer' = Says("none")
  /\ UNCHANGED <<index, blocks, held>>

\* The arena is dropped; the borrow of its memory ends.
Discard ==
  /\ arena # Nil
  /\ arena' = Nil
  /\ answer' = Says("none")
  /\ UNCHANGED <<given, index, returned, released, blocks, held>>

------------------------------------------------------------------------------
(* Allocating *)

InUse == arena # Nil /\ arena.made # "from_memory"

Offset(level, layout) == AlignOffset(Storage(arena) + level, layout.align)

\* Mutation: refuses the last byte.
ExhaustedEarly(level, layout) ==
  layout.size >= arena.length - level - Offset(level, layout)

\* Some(requested) > available.checked_sub(offset): None is less than that.
Exhausted(level, layout) ==
  \/ Offset(level, layout) > arena.length - level
  \/ layout.size > arena.length - level - Offset(level, layout)

\* What is asserted behind that test, there and in bump.
AssertsPass(level, layout) ==
  LET at_aligned == level + Offset(level, layout)
  IN  /\ Offset(level, layout) < arena.length - level
      /\ at_aligned + layout.size <= arena.length
      /\ at_aligned < arena.length

\* The block would end within the storage: what the test is measured against.
RoomIn(level, layout) ==
  \E s \in level .. arena.length :
    /\ (Storage(arena) + s) % layout.align = 0
    /\ s + layout.size <= arena.length

BlockAt(level, layout) ==
  LET start == Storage(arena) + level + Offset(level, layout)
  IN  [start |-> start, size |-> layout.size, align |-> layout.align, data |-> start]

\* Mutation: only the padding is counted, not what is behind it.
TryAllocAtShort(layout, expect) ==
  /\ InUse
  /\ expect <= arena.length
  /\ ~ Exhausted(expect, layout)
  /\ AssertsPass(expect, layout)
  /\ index = expect
  /\ index' = expect + layout.size
  /\ blocks' = blocks \cup {BlockAt(expect, layout)}
  /\ answer' = Says("ok")
  /\ UNCHANGED <<place, held>>

\* try_alloc_at, when it succeeds.
TryAllocAt(layout, expect) ==
  /\ InUse
  /\ expect <= arena.length
  /\ ~ Exhausted(expect, layout)
  /\ AssertsPass(expect, layout)
  /\ index = expect
  /\ index' = expect + Offset(expect, layout) + layout.size
  /\ blocks' = blocks \cup {BlockAt(expect, layout)}
  /\ answer' = Says("ok")
  /\ UNCHANGED <<place, held>>

\* When it does not: no room, another level, or an assertion.
TryAllocAtFails(layout, expect) ==
  /\ InUse
  /\ \/ /\ expect > arena.length
        /\ answer' = Says("panic")
     \/ /\ expect <= arena.length
        /\ Exhausted(expect, layout)
        /\ answer' = [result |-> "exhausted", layout |-> layout, level |-> expect]
     \/ /\ expect <= arena.length
        /\ ~ Exhausted(expect, layout)
        /\ ~ AssertsPass(expect, layout)
        /\ answer' = Says("panic")
     \/ /\ expect <= arena.length
        /\ ~ Exhausted(expect, layout)
        /\ AssertsPass(expect, layout)
        /\ index # expect
        /\ answer' = Says("mismatch")
  /\ UNCHANGED <<place, index, blocks, held>>

\* alloc, get, bump_box, bump_array, Allocator::allocate: at the own level.
Alloc(layout) == TryAllocAt(layout, index) \/ TryAllocAtFails(layout, index)

\* alloc_at, get_at
AllocAt(layout) == TryAllocAt(layout, held) \/ TryAllocAtFails(layout, held)

\* level()
Learn ==
  /\ InUse
  /\ held' = index
  /\ answer' = Says("ok")
  /\ UNCHANGED <<place, index, blocks>>

\* reset(&mut self)
Reset ==
  /\ InUse
  /\ index' = 0
  /\ blocks' = {}
  /\ answer' = Says("none")
  /\ UNCHANGED <<place, held>>

\* shrink_in_place: moves the bytes to the next aligned address, and returns the
\* pointer it was given.
Shrink(b, layout) ==
  /\ InUse
  /\ b.data = b.start
  /\ layout.size <= b.size
  /\ LET offset == AlignOffset(b.start, layout.align)
     IN  /\ layout.size + offset <= b.size
         /\ blocks' = (blocks \ {b}) \cup
              {[start |-> b.start, size |-> layout.size, align |-> layout.align,
                data |-> b.start + offset]}
  /\ answer' = Says("ok")
  /\ UNCHANGED <<place, index, held>>

------------------------------------------------------------------------------
Init ==
  /\ arena = Nil
  /\ given = Nil
  /\ index = 0
  /\ returned = Nil
  /\ released = Nil
  /\ blocks = {}
  /\ held = 0
  /\ answer = Says("none")

Next ==
  \/ \E m \in Memories : FromMem(m) \/ New(m) \/ FromMemory(m)
  \/ IntoMem \/ FromMemUnchecked \/ Discard
  \/ \E layout \in Layouts : Alloc(layout) \/ AllocAt(layout)
  \/ Learn \/ Reset
  \/ \E b \in blocks, layout \in Layouts : Shrink(b, layout)

Spec == Init /\ [][Next]_vars

------------------------------------------------------------------------------
(* Properties *)

TypeOK ==
  /\ arena \in Arenas \cup {Nil}
  /\ released \in Arenas \cup {Nil}
  /\ given \in Slices \cup {Nil}
  /\ returned \in Slices \cup {Nil}
  /\ index \in Nat
  /\ held \in Nat
  /\ blocks \subseteq Blocks
  /\ answer \in Answers

Inside(a, m) ==
  /\ m.start <= a.start
  /\ a.start + SizeOf(a) <= EndOfSlice(m)
  /\ a.start % HeaderSize = 0

\* "The whole struct will occupy memory according to its natural alignment": the
\* arena lies in the memory it was made from, padding included, and its header
\* is aligned.
StructInMemory == arena # Nil /\ arena.made # "from_memory" => Inside(arena, given)

\* The same of an arena the synchronized from_memory makes.
SyncStructInMemory == arena # Nil /\ arena.made = "from_memory" => Inside(arena, given)

\* The arena that blocks belong to, also while its memory is with the caller.
Home == IF arena # Nil THEN arena ELSE released

\* Blocks lie behind the header and below the level, overlap neither it nor each
\* other, and their bytes are aligned, through shrinking and across into_mem and
\* from_mem_unchecked.
BlocksSafe ==
  Home # Nil =>
    /\ index <= Home.length
    /\ \A b \in blocks :
         /\ Storage(Home) <= b.start
         /\ b.start <= b.data
         /\ b.data + b.size <= Storage(Home) + index
         /\ b.data % b.align = 0
         /\ \A c \in blocks \ {b} : \/ b.data + b.size <= c.start
                                    \/ c.data + c.size <= b.start

\* The memory that into_mem gives back, reopened, is the arena that was taken
\* apart: at its place, no longer and no shorter, so that every byte offset means
\* the same.
RoundTrip == released # Nil => Reinterpret(returned) = released

\* A call that reports exhaustion is right about it, unless it asked at a Level
\* that does not exist any more; and only a Level of a longer arena panics.
AnswersTrue ==
  /\ answer.result = "exhausted" /\ answer.level <= index
       => ~ RoomIn(index, answer.layout)
  /\ answer.result = "panic" => held > arena.length

\* shrink_in_place: "in-place" means that the owner, who gets a pointer back,
\* finds the bytes there, aligned for the new layout.
ShrunkFits == \A b \in blocks : b.data = b.start
==============================================================================

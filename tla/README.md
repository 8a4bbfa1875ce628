# A verification development for static-alloc

TLA+ models of the crates in this repository, TLC configurations that check
them on small instances, and TLAPS proofs for every value of the constants.
Everything is translated from the Rust source; paths below are relative to the
repository, and `PROJECT.json` maps each definition to the lines it stands for.

The repository is a family of `no_std` crates about memory that nobody frees:
bump arenas that hand out bytes and never take one back, and containers that
live in memory they do not own. Two things make it hard to test. The arena is
shared between threads through a single atomic counter. And everything else is
about *who drops a value*: a length, an offset, a counter or a link in a list
is all that stands between a value and being dropped twice, or never, while
destructors run, panic, and call back.

## Inventory

### static-alloc

**The synchronized arena** (`static-alloc/src/bump.rs`: `Bump`, `BumpSlice`,
`BumpView`). State: the storage and one `AtomicUsize`, `consumed`, the *level*.
Operations: `alloc`, `get`, `leak`, `get_layout` and the `GlobalAlloc` methods,
all of which end in `try_alloc`: load the level, compute padding, test for
exhaustion, `compare_exchange`, and start again from the observed level if that
failed. `alloc_at`, `get_at`, `leak_at` and `get_layout_at` make one attempt at
a `Level` the caller learnt earlier and report `Mismatch` otherwise. `realloc`
stays in place when it can, else allocates and copies; `dealloc` frees nothing;
`reset` needs unique access. Hard: two threads at one level; an exhaustion
decided from a level that is old by then; a `Level` (a bare number) that
outlives a reset or comes from another arena; the last byte; addresses that
need padding although the offset looks aligned. Correct when no byte is handed
out twice, the ledger is accurate, every answer is true when it is given, and
every call returns.

**The single-threaded arena** (`unsync/bump.rs`: `unsync::Bump`,
`unsync::BumpSlice`). The same placement behind a `Cell`; `bump_box` and
`bump_array` give out boxes; `from_mem` puts an arena, header first, into
somebody's memory, `into_mem` gives that memory back, `from_mem_unchecked` reopens
it. Hard: the header must be aligned and the padding behind the storage is part of
the struct; the index survives in memory that is nobody's arena. Correct when the
struct lies in its memory, a reopened arena is the one that was taken apart, and
blocks are safe all along.

**Chained arenas** (`unsync/chain.rs`: `Chain`, `Link`). State: a pointer to the
newest link, and in every link a pointer to the one below and an arena.
Operations: `new`, `bump_box` (newest link only), `chain`, which puts the newest
link of another chain on top and frees the links below that one, `capacity`,
`remaining_capacity` and `Drop`. Hard: the loops read pointers out of the very
memory they free, while boxes of the chain are borrowed. Correct when every
link is freed exactly once, none is leaked, and no box loses its memory.

**Borrowed boxes** (`leaked.rs`: `LeakBox`, `Alloca`). A pointer to a value that
is dropped with the box but never deallocated. State: the pointer, and in its type
whether there is a value. Operations: `from_raw`, `into_raw`, `leak`, `take`,
`into_pin`, `write`, `assume_init`, `Drop`, the conversions from `Uninit`; `Alloca`
places one on the stack, in an arena of the smallest of several sizes. Hard: each
way in and out decides anew who drops the value, and nothing at run time says.
Correct when a value that a pointer leads to is there, under that pointer only, and
one that no pointer leads to was dropped or given up on purpose.

**The allocator bridge** (`allocator_api2.rs`). `Allocator` for the arenas,
`shrink_in_place`, and `WithAllocationInfo`. State of the latter: two cells, with
the start of the last allocation and the level observed by it. Hard: others allocate
meanwhile, so that neither can be read off the arena afterwards. Correct when both
belong to the handle's own call.

`inline_vec.rs` is not part of the crate: no module includes it.

### exit-stack

**The exit stack** (`exit-stack/src/lib.rs`: `ExitStack`, `Slot`, `PinSlot`).
State: an arena, the head of a list, and a link in every slot. Operations:
`slot` reserves memory, `Slot::pin` moves a value in and puts the slot on the
list, dropping a `Slot` releases it; `pop_all`, `set` and `Drop` walk the list,
drop each value and reset the arena. Hard: slots may be filled in another order
than they were reserved, and a destructor may panic in the middle of the walk.
Correct when the list leads to exactly the values that are to be dropped, a
pinned value keeps its memory until it is dropped, the newest goes first, and
the `unreachable!` in `set` is one.

### without-alloc

**Reference counting** (`rc.rs`: `Rc`, `Weak`). State: a strong and a weak
counter behind the value, in memory of the caller. Operations: `new`, `clone`,
`downgrade`, `upgrade`, both `try_unwrap`s, `into_raw`, `from_raw`, the two
destructors. Hard: the value's destructor, and Weak pointers that the value
itself owns, run in the middle of the last `Rc`'s destructor.

**The fixed vector** (`fixed_vec.rs`: `FixedVec`, `Drain`). State: a view on
memory and a length; a `Drain` has four offsets, a pointer and a borrow of that
length. Operations: `push`, `pop`, `truncate`, `clear`, `fill`, `extend`,
`split_borrowed`, `split_and_shrink_to`, `drain`, and the destructors. Hard:
destructors and iterators panic in the middle of loops; a Drain may be dropped
early or forgotten; the bytes of moved elements stay where they were.

**Memory views** (`uninit.rs`: `Uninit`, `UninitView`). State: a pointer with a type
and the number of bytes behind it. Operations: casts between types, slices and
untyped memory, splits at a byte, an index, for a layout, for the first or last
element, each of which leaves the view a part and returns the rest. Hard: the
length and the type say different things about the same bytes, pointer arithmetic
counts in units of the type unless the pointer was cast to bytes before, sizes of
zero, and the padding in front of an aligned part. Correct when a pointer is aligned and long
enough for its type, no byte is in two views, and none gets lost in a split.

**Box** (`boxed.rs`): a view with a value in it, dropped in place. **Allocation
traits** (`alloc.rs`): one allocation from an arena and one constructor, with the
unwraps in between. Correct when the unwraps cannot fail.

### The small crates

**`fill`** fills containers from an iterator as far as there is room. State: none of
its own. Hard: each container has its own idea of room, and the iterator may end or
panic at any item. Correct when a container is not reallocated, every item that
was pulled is in it, and `checked_fill` says whether it is full; a `Result`, which pulls
more than it can hold, must not lose what it has room for.

**`same-alloc`** (`VecBuffer`, `TempVec`, `SameLayout`) lends the allocation of a
vector to vectors of other types with the same layout. State: an empty vector. Hard:
the allocation must be freed with the layout it was made for, elements that panic
as they are dropped, a `TempVec` whose vector was exchanged or is forgotten. Correct
when each allocation has one owner who can free it, each element one of its type.

`alloc-traits` declares the `LocalAlloc` trait and non-empty layouts. `unsize` is
pointer coercion without state.

### How they interact

`LocalAlloc for Bump` gives memory as `Uninit` to the `without-alloc`
containers, which borrow it for the lifetime of the arena; nothing flows back.
`ExitStack` holds an `unsync::Bump` and resets it; `Chain` holds the arenas and
frees them; `LeakBox` is what `bump_box` returns, and `Uninit` converts to and from
it; `TempVec` is filled as the vector it derefs to. Callbacks are destructors and
iterators. Only `bump.rs` is concurrent. Nothing is persisted.

## Modules

| module | models | how |
|---|---|---|
| `Arena` | the placement all arenas share | operators on addresses and levels |
| `BumpSpec` | what an arena promises | each call takes effect at one instant between call and return |
| `Bump` | `bump.rs` | the load, the attempt, the exchange as separate steps of each thread |
| `AllocationInfo` | `WithAllocationInfo` | what a handle works out of the answers of `Bump`'s steps |
| `ExitStack` | `exit-stack/src/lib.rs` | one step per destructor, which returns or panics |
| `RcSpec` | what `Rc` promises | who points where, no counters |
| `Rc` | `rc.rs` | the two counters, one step per operation, two for the last drop |
| `Chain` | `unsync/chain.rs` | one step per link that is freed |
| `UnsyncBump` | `unsync/bump.rs`, `shrink_in_place`, the synchronized `from_memory` | absolute addresses, since the arena moves |
| `VecSpec` | what `FixedVec` promises | bounded sequences, a Drain cuts one in three |
| `FixedVec` | `fixed_vec.rs` | slots with stale bytes, lengths, offsets; one step per element in each loop |
| `UninitView` | `uninit.rs`, its arithmetic | operators on a pointer, a length and a layout |
| `Boxes` | `uninit.rs`, `boxed.rs`, `alloc.rs`, `leaked.rs` | handles on the bytes of one arena, one step per operation |
| `VecBuffer` | `same-alloc/src/vec.rs`, `lib.rs` | vectors with allocation and elements, their types by name and layout |
| `Fill` | `fill/src/fill.rs` | one step per item polled |

`MC*` instantiate a module for TLC where values need definitions, and `MCReuse` puts
three of them side by side; `rc_drop` runs `Rc` as it is. `*Proofs` hold the theorems. `Arena` is extended by `BumpSpec`,
`ExitStack`, `Chain` and `UninitView`, and `UnsyncBump` takes its padding from it;
`Bump` extends `BumpSpec` and `Rc` extends `RcSpec`, adding the variables of the implementation to those of the promise and
conjoining their steps, so that the refinement mapping is the identity and
`AtomicSpec` and `OwnedSpec` are properties of the runs. `FixedVec` has no
sequences: it implements `VecSpec` by `INSTANCE ... WITH`, its property is
`SequenceSpec`.

**`Bump`.** `consumed` is `Header::consumed`. `pc` and `expect` are where a
thread is and its local `expect_consumed`. `Load`, `Exhaust`, `AssertFails`,
`Swap`, `Retry` and `ReportMismatch` are the loop of `try_alloc` around
`try_alloc_at`. All orderings in the code are `SeqCst`, so that steps interleave.
What a thread computes between two accesses of the counter touches nothing shared
and is merged with the access after it. `blocks`, `count`, `epoch` and `held` are
history: what was handed out, and the `Level` each thread learnt last, which it
may use in any later call. `ForeignLevels` are offsets learnt from another
arena. Methods are grouped by what they do with the ledger.

**`AllocationInfo`** adds no variables to `Bump`. A handle is not `Sync`, so that the
thread stands for it; what it stores in its cells is a function of what `try_alloc`
returned, which is `held'` or `expect` in the step that returns.

**`ExitStack`.** `consumed` and `at` are the arena, `top` and `link` the list,
`chain` is `flag.chain` of the running call. `DropNext` and `DropPanics` are the
two ends a destructor can come to. `entries` is history: the order in which values
were pinned.

**`Rc`.** `strong` and `weak` are the counters; `rcs`, `weaks` and `own` count
the handles there really are, `own` those stored in the value. Dropping the last
`Rc` is two steps, `RcDrop` and `DropReturns`, and anything that safe code can
do through a `Weak` may happen between them.

**`Chain`.** `root`, `next` and `level` are as in the code. `chain` and `Drop`
start a loop, `Free` is one turn of it, `Finish` is what follows. `Link`'s
destructor empties the list below a link before the link itself is freed; the
model frees that link first. Nothing runs in between that could tell.

**`UnsyncBump`.** `index` is `Header::index`; it is a variable of its own because
it stays in memory while there is no arena. `arena` is the `BumpSlice`: address and
slice length, with the way it was made, and `returned` the memory `into_mem` gave
back, until somebody writes to it. `given`, `released`, `blocks` and `answer` are
history; a block has the pointer its owner got and the address its bytes are at.
`alloc`, `get`, `bump_box`, `bump_array` and `allocate` all come to `try_alloc_at` at
the own level, which is `Alloc`; `AllocAt` is the same at a `Level` learnt earlier,
from this arena, from before a reset, or from another arena that was here.

**`FixedVec`.** `mem` is what was last *written* to each slot; reading or dropping
an element leaves it there, as in the code. `vecs` is `uninit` and `length` of each
vector, with the vector it borrows its memory from; `drains` is the `Drain`;
`call` is the loop that runs with its local variables, so that the length of a
vector in `truncate` is stale just as it is in the code until `SetLenOnDrop`
writes it. `inside` and `lost` are history. A panic makes `mode` "panicking":
then only destructors run, until the caller catches it; a second panic aborts.

**`Boxes`.** A handle is a variable of the program with one of the pointer types in it;
`kind` and `many` say which, `ptr`, `len` and `type` are `UninitView`'s fields. `holds`
is the value a pointer is known to lead to and `place` where each value really is:
both both are history, for the types stand for them in the code. `broken` becomes true
when an unwrap or an assertion fails that the code has for itself; a request that
`Alloca::run` refuses by a panic, because it is too large for any stack slot or for
nothing, is a refusal and not one of these. A type is its layout, as in all
the tests the code makes. Addresses are those of the arena. `unsafe` constructors
(`from_raw`, `assume_init`) are called as their documentation asks.

Where the code adds to a pointer it matters which pointer. `split_at` casts to bytes
first: `Behind` begins *n* bytes on. `split_at_byte` does not: `Back` begins *n* values
of the view's type on, which for an untyped view is where it began. `split_layout` asks
an untyped pointer how far it is to the next aligned address: `UnitOffset` is nothing
or `usize::MAX`. `strayed` becomes true when a second half does not begin where the
first ends; what is claimed then is less (see the findings).

**`VecBuffer` and `Fill`.** `vecs` has the vector in the `VecBuffer`, the one in the
`TempVec`, one of the program's own and an option; `heap` is what the allocator knows
of each allocation and `fate` where each element is. `Vec` of the standard library is
external: created, pushed, popped, shrunk, dropped, and exchanged with the content of
the `TempVec`. An element may panic when it is dropped. `Fill` adds `call`: the `Take`
or the iterator over a slice, and the overflow flag of `checked_fill`.

## Runs

| run | states | question |
|---|---|---|
| `bump` | 226,133 | Does the loop implement an atomic allocator, and are its answers true? |
| `exit_stack` | 41,591 | Are pinned values safe, in every order and with a panic? |
| `exit_stack_panic` | violation | Are values below a panicking one still dropped, as the comment says? |
| `rc_drop` | violation | Is the memory kept while its value is being dropped? |
| `chain` | 74,811 | Is every link freed once, and no box with it? |
| `unsync_from_memory` | violation | Does the synchronized one? |
| `unsync_shrink` | violation | Are the bytes of a shrunk block where its pointer says? |
| `fixed_vec` | 505,919 | Is every element dropped or handed out once, in sequence order? |
| `boxes` | 368,657 | Does every pointer lead to memory, and to a value, of its own, but for `split_at_byte`? |
| `boxes_split` | violation | And with it? |
| `boxes_align` | violation | Does a split for a layout find the aligned part? |
| `reuse` | 1,333,609 | Do two counters implement ownership; does an arena stay within memory and survive a round trip; does an allocation survive being lent, and no item get lost? |

**`bump`** `Disjoint`, `LedgerAccurate`: no byte twice, also across deallocation
and reallocation in place. `AtomicSpec`: refinement. `ExhaustedIsFinal`: when a
call says exhausted, there is no room at the moment it returns, although it
decided by an older level. `MismatchMeansProgress`: the reported level is above
the one asked for. `Succession`: success at a `Level` proves that nothing came in
between. `OnlyForeignLevelsPanic`: the assertions never fire for a level this
arena reported, not even before a reset. `InfoBelongsToCall`: what a
`WithAllocationInfo` records delimits the block of its own call, however many others
came in between. `Terminates`: every call returns.
*Bounds.* Two threads: a race is between the one that wins and one that loses,
and the loser cannot tell by how many it was beaten. Four bytes at an odd base
with layouts of size 2 and of alignment 2: a block that needs padding, one that
ends exactly at the end, padding that leaves the storage, and up to three blocks.
`MaxResets = 1`: Levels from before and after a reset. One foreign level, above
the storage, is the only kind that can reach an assertion.

**`exit_stack`** `ListIsStack`, `PinGuarantee`, `RoomForOne`, `DropsNewestFirst`,
`PopsEnd`. *Bounds.* Four words; values of size 4, 2 and 1, so that the stack is
full with one, and holds the other three with one word to spare, whether or not
they are reserved in the order they are pinned in; two of the largest type, so
that `set` replaces one with the other; one value that panics, below, between or
above others.

**`chain`** `EachLinkOnce`, `BoxesSafe`, `LoopsEnd`. *Bounds.* Three chains over
three links: the shortest list with a middle, chained in every order; two bytes
per link with boxes of one and two, so that a link holds two boxes or is full.

The type invariants of `ExitStack`, `Chain` and `UnsyncBump` are theorems and are not
run beside the properties that imply them.

**`fixed_vec`** `OwnedOnce`, `NothingLost`, `SequenceSpec`, `LoopsShrink`.
*Bounds.* Three slots and three elements: a range with something before and
behind it. Two vectors, split from one another. Two elements that may panic: the
least for an abort. Symmetry in the names of those two and of the vectors; no
liveness is checked in that run, and no property names one of them.

**`boxes`** `ViewsValid`: a pointer is aligned, has the bytes of its type, and they
are the arena's. `Disjoint`: no byte is in two views. `SplitsConserve`: a split loses
none. `ValuesSafe`: a pointer that leads to a value leads to a whole one, alone; a value
has a pointer until it is moved, dropped or given up. `ChecksHold`. All but `ChecksHold`
are stated up to `strayed`: the place of a view, `Disjoint` and `ValuesSafe` until a
pointer strayed, `SplitsConserve` of every split but the one that strays. `boxes_split`
and `boxes_align` check without that reservation what the code's comments say. *Bounds.* Two
handles: what a split can confuse is its two halves, and all memory that is neither
of them was forgotten. Two values of one and two bytes. Types of size 0, 1 and 2,
aligned to 1 and 2, also the aligned one of no size, in four bytes at an odd address:
padding, a slice of two, a rest too small for its type. `MaxUsize = 7`, above all
addresses, so that products overflow. Slices and indices up to 2. Stack sizes 2 and 4,
so that some requests are refused. Symmetry in the handles, which no property names.
`PointersOnly`: once a pointer strayed no value is moved in, since nothing is claimed
of values then; the proofs have no such bound.

**`reuse`** checks three components that share no state, side by side: whichever
moves first, moves alone, so that its states are those of the three together and no
product of them. *`Rc`.* `SoleOwner`, `CountsAccurate`, `OwnedSpec`, `DropsLiveValue`,
`RcTypeOK`. *Bounds.* `MaxHandles = 5` of each kind. The code tells counts of 0, 1 and
more apart.

*The arena.* `StructInMemory`: header, storage and padding lie in the memory the
arena was made from. `BlocksSafe`: blocks are aligned, apart, behind the header and
below the level, through shrinking and across `into_mem`. `RoundTrip`: what
`into_mem` gives back reopens as the same arena. `AnswersTrue`: an exhaustion is a
true one, unless asked at a Level that is gone; only a foreign Level panics.
*Bounds.* A header of two bytes; memory at 2 and at 3 of 1 to 8 bytes: none, exactly
and just more than enough for a header, with even and odd rest. Storage of up to six
bytes for layouts 1/1, 3/1, 2/2 and 1/4 (size/alignment): up to six blocks,
alignments below, at and above the header's.

*Lent buffers.* `BuffersSound`: each allocation in use is in one vector and has the
layout that vector would free it with; each element is in one vector of its type; the
buffer is empty when it is lent. `FillSound`: what is pulled is inserted, but that a
`Result` loses items when its container is full or replaced by an error, and only then;
no vector is reallocated; `checked_fill` tells whether the container is full, but that
it may exhaust the iterator of a full `Result`. *Bounds.* Two types
that share a layout and one of the same size and another alignment; three elements,
two of one type; two allocations of up to two elements: the least for an exchange, for
a vector that has room for one more, and for a slice of which one element is replaced.
Symmetry in the allocations and in two elements of one type.

The violation runs have the bounds of the passing run of their module (`rc_drop`: two handles of each kind). `CHECK_DEADLOCK FALSE` is said where the program may stop: a stack that was
dropped, a memory that is handed back for good, a process that was aborted, every
name in use.

### Fairness

`Bump`: weak fairness of the steps of each thread that is in a call, since
threads are scheduled preemptively; none for making a call. That is enough
although the loop is only lock-free: each lost race raises the level, which the
storage bounds (`BumpCallsAdvance`). `ExitStack` and `Chain`: weak fairness of the loop that runs;
these crates are single-threaded, and a destructor returns or panics.
`FixedVec` assumes none: `LoopsShrink` says instead that each turn of a loop brings
a bounded measure closer to zero and nothing else runs meanwhile, which is proved.

## Findings

* `exit_stack_panic`: `pop_all` takes the rest of the list *out of* the guard
  that is meant to drop it (`exit-stack/src/lib.rs:205`), so a destructor that panics
  loses all values below it. The comment at line 181 says that they are still
  dropped. Memory stays safe (`ListIsStack` holds after a panic), but `PinGuarantee`
  does not: a later `set` reuses memory of values that were pinned and never
  dropped. `PinGuarantee` is therefore stated for stacks on which no
  destructor panicked.
* `rc_drop`: the destructor of the last `Rc` gives up its share of the weak count
  before it drops the value (`without-alloc/src/rc.rs:525`), so a `Weak` in reach of
  the destructor can take the memory away under it. `DropReturns` and all
  counters stay sound in the model, which does not follow what the new owner of the
  memory writes there: `Put` waits for the destructor.

* `unsync_from_memory`: the synchronized `BumpSlice::from_memory` does not round the
  length of its storage down to the header's alignment (`static-alloc/src/bump.rs:1021`),
  so that the padded struct ends behind its memory; `from_mem` rounds, and
  `unsync/bump.rs:258` says why. No block is ever there, but a `&mut BumpSlice`
  covers those bytes.
* `unsync_shrink`: `shrink_in_place` copies the bytes to the address that is aligned for
  the new layout and returns the old one (`allocator_api2.rs:146`). `BlocksSafe`
  holds nevertheless: the copy stays within the block.

* `boxes_split`: `split_at_byte` adds the number of bytes to a `*mut T`
  (`without-alloc/src/uninit.rs:641`), which counts in values of `T`. The second half of
  an untyped `Uninit` begins where the first half does: two owners of the same bytes,
  where `init` relies on a view being "unaliased" (lines 324-326). The second half of a
  view of a larger type begins too far on and may end behind the memory. `split_to_fit`
  has the same fault. `split_at`, which casts to `u8` first, does not.
* `boxes_align`: `split_layout` calls `align_offset` on a `*mut ()` (`uninit.rs:566`),
  which is 0 for an aligned pointer and `usize::MAX` for any other. `split_cast`,
  `split_slice` and `FixedVec::from_unaligned` thus never skip any padding: they refuse
  memory that is not aligned, resp. make an empty vector of it, where line 74 says that
  "`Uninit` does that for us". A split that is refused leaves everything as it was.

How far each of them goes is proved. `BoxesStrayOnlyAtByte`: the first pointer that
strays comes out of `split_at_byte` behind at least one byte, or of `split_to_fit` for a
type of more than one byte, and never out of a view of single bytes; up to that step
no two pointers share a byte (`BoxesDisjoint`). `BoxesRefuseOnlyUnaligned`: of the memory
with room for a layout exactly that is refused which is not aligned already. `ExitForgetsOnlyByPanic`: no value leaves the list
undropped without a panic. `RcTakenByLastWeak`: only `try_unwrap` of the last `Weak`
takes the memory from under a destructor, and nothing points to it any more then.
`UnsyncOverrunIsPadding`: header and storage are inside the memory, and what is behind
it is padding of less than a header. `UnsyncMovedOnlyToAlign`: bytes are misplaced
only when the old pointer is not aligned for the new layout.

### Seen on the way

These contradict no comment or test, or leave what the models cover.

* After `Uninit<[T]>::split_at` the first half's slice pointer keeps its length while
  `len` shrinks (`without-alloc/src/uninit.rs:838`). Its own operations go by `len`,
  and so does `Boxes`; `as_mut` and `into_mut` go by the pointer and would reach into
  the second half.
* `copy_slice` of elements of no size returns an empty slice.
* `Alloca::run` panics for a request of no size, by `bump_array`'s assertion
  (`unsync/bump.rs:579`), and for one above a megabyte (`leaked.rs:93`): both are
  refusals in `RunAlloca`. `Alloca::new` computes `len + 1` unchecked.
* A `Result` is polled on when its container is full, and each item is lost
  (`fill/src/fill.rs:187`); the crate's documentation says that a container *should* not
  and what follows when one does. `FillSound` bounds the loss.
* A forgotten `TempVec` leaks the allocation, not only its elements. That is safe.
* `Chain::capacity` counts the newest link only.

## Proofs

All proofs are checked by tlapm with Z3, Zenon and LS4 only, for any
constants that satisfy the named assumptions: `ArenaAssumption` (layouts have a
positive size and alignment), `BumpAssumption`, `ExitStackAssumption`,
`RcAssumption`, `ChainAssumption`, `UnsyncAssumption`, `VecBufferAssumption`
(there is a type, and types have a size), for `FixedVec`
`FixedVecAssumption` and `NilAssumption` (the absence of a vector, a Drain or an
element is none of them), and for `Boxes` `ViewAssumption` (the size of a type is a multiple of its alignment, no allocation
reaches the end of the address space), `BoxesAssumption`, `CountAssumption`.

* `ArenaProofs`: alignment arithmetic from division up. `FitsIsRoom`: the
  code's saturating test accepts a layout exactly when some aligned place above
  the level has room for it. `RoomShrinks`: what does not fit now fits at no higher
  level, which is why a decision from an old level stands.
* `BumpProofs`: `PromiseInv` is inductive for the atomic allocator. Beside the
  properties it says that a `Level` is never ahead of the ledger and determines how
  many blocks there were when it was learnt (`LevelsTruthful`), without which
  `Succession` is not inductive, and that a block being reallocated stays with its
  thread (`CallsSound`). For the code, `BumpInv` adds what local variables say about
  the ledger (`LocalsSound`: an expected level of `try_alloc` is never above the
  current one). `BumpIsAtomic` maps each step of the code to a step of the promise or
  to none; the four answers (`BumpAnswers`) are then inherited. `BumpInfoBelongs`
  follows a call from its answer to the handle that records it.
* `ExitStackProofs`: `ExitInv` adds `NoneLost` (while nobody panicked, each live
  value has an entry) and `PopsAlone` (no slot is out while the list is walked).
* `ReuseProofs` is about memory that is used again. For `Rc`, `RcInv` adds that
  `into_raw` leaves both counters at 1 behind. The refinement `RcImplementsOwnership`
  is a corollary of the guards being equivalent under `CountsAccurate`.
  For `VecBuffer` and `Fill`, `FillInv` is inductive. `BuffersSound` is not: it does
  not say that while there is a `TempVec` there is a buffer to take the allocation back,
  of a type with that layout (`Lent`), so that `TempDrop` could give a block a type it
  was not made for. `FillInv` says besides that a vector has an allocation exactly if it
  has room, an option never (`Proper`), and, for each kind of container, what a running call has left to
  do in terms of what is in it (`CallFits`): `FillSound` alone says too little of a
  call that still runs; `ResultSound` says what a `Result` has pulled and lost. Cardinalities are replaced by "no two owners have it" and "some owner
  has it", and put back at the end (`OneOwner`, `OneHolder`). Each step is then a change
  of allocations (`BlockMade`, `BlockLeft`, `BlockMoves`) and a change of elements
  (`ItemsChange`), which know nothing of each other.
* `ChainProofs`: `below`, the set of links each link leads to, is a history variable
  that stands in for "reachable by next", so that no induction over the list is
  needed; `BelowClosed` says that it is closed, `RootsSound` who has a root when.
* `UnsyncBumpProofs` uses `ArenaProofs` at base 0, since its addresses are absolute.
  `UnsyncInv` adds `PlacesSound`: an arena of `from_mem` is a whole number of headers
  long, and so is what `into_mem` gives back, which is why it reopens without losing
  its last bytes. `TestIsRight` relates the exhaustion test, with its `None` that
  compares as less, to whether an aligned place is left. `UnsyncBlocksInMemory` puts
  `BlocksSafe` and `StructInMemory` together: no block leaves the caller's memory.
* `FixedVecProofs`: `FixedVecInv` says who has which memory (`Shape`) and what is in it
  (`Contents`). Two vectors have memory apart, or the one borrows it, directly or not,
  from behind the elements of the other (`Nested`); `Borrowers` is the least set closed
  under borrowing, given as an intersection so that no induction over loans is needed.
  A vector that lends has no Drain and no loop, which is why its length never grows
  into what it lent. `Contents`: the slots that something will drop hold exactly what is
  inside and not lost, each once. Elements then leave, arrive or move between slots
  (`SlotsLeave`, `ElementArrives`, `ElementsMove`), and each action is one of these.
  `FixedVecIsSequences` shows for each action what becomes of the sequences it reads:
  a step leaves others alone because it writes to no slot of theirs (`KeepsAside`), and
  stretches of memory are cut and joined as sequences are (`CellsCut`, `CellsJoin`).
* `BoxesProofs`: `BoxesInv` says of the pointers that they are well formed (`Formed`:
  aligned, long enough, no longer than the arena), wherever they lead, and, until one
  strays, that they are in the arena and apart (`InPlace`). `Shape` is both; each split
  and conversion is a cut or a relabelling of one handle (`ShapeCuts`, `ShapeNarrows`).
  `Calm`: no check failed, since each unwrap follows from `Formed`, for whatever sizes
  and lengths; this is why `ChecksHold` needs no reservation. `Spots`: values are where
  handles say, and apart, until a pointer strays. A write through a handle destroys no other value
  because the handles are apart (`WriteApart`), a new allocation because it is above
  the level (`AllocatedApart`). `BoxesRefuseOnlyUnaligned` needs only `Formed`
  (`AlignedRoom`), `BoxesStrayOnlyAtByte` the sizes on both sides of a cut.

**Only model-checked**: the liveness properties `Terminates`, `PopsEnd` and `LoopsEnd`,
which need fairness and are beyond the prover. What is special to the code in them is
proved as action properties, from the invariants above: `BumpCallsAdvance` (a call that
goes round again has a higher level, within the storage), `ExitPopsAdvance` (a step
of `pop_all` leaves one value less to drop, or ends it), `ChainLoopsAdvance` (the loops
free one link after the other of those they set out to free). What TLC adds is that a
step is enabled while a call runs, and that the scheduler takes it.
**Neither**: memory orderings weaker than the code's, counter wrap-around
in `Rc` (2^32 forgotten handles at least), zero-sized types in `FixedVec` and
`VecBuffer`, and what `unsafe` callers may do in breach of a documented contract.

## Not modelled

* Calls with a layout of size zero in `UnsyncBump`: an assertion stops them before
  they do anything. `get_unchecked` changes no state.
* In `uninit.rs`: the borrows as `UninitView`, which own nothing, and `copy_dst`, which
  needs an unstable feature. In `leaked.rs`: `unsize`, which only adds metadata.
* In `fill`: `()` as a container; `VecDeque` is filled as `Vec` is.
* In `same-alloc`: `boxed.rs` and `deinit_box`, the same trade for one value.
* `alloc-traits` and `unsize` keep no state: default methods that compose one
  allocation with one call, and metadata in types.
* `inline_vec.rs` is dead code.

## Plan

In order, most important first; all are modelled.

1. `Arena`, `BumpSpec`, `Bump` with refinement and proofs.
2. `ExitStack` with proofs, over `Arena`.
3. `RcSpec`, `Rc` with refinement and proofs.
4. `Chain` with proofs, over `Arena`.
5. `VecSpec`, `FixedVec` with refinement and proofs.
6. `UnsyncBump` with proofs, over `Arena`.
7. `UninitView`, `Boxes` with proofs, over `Arena`.
8. `AllocationInfo` over the steps of `Bump`, with its proof.
9. `VecBuffer`, `Fill` with proofs.

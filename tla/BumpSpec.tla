------------------------------ MODULE BumpSpec ------------------------------
(***************************************************************************)
(* What a bump allocator promises to its callers: every operation takes    *)
(* effect at one instant between its call and its return.  An allocation   *)
(* either claims the bytes directly above everything claimed before it, or *)
(* is refused because they do not suffice; an allocation at a Level also   *)
(* requires that nothing was claimed since that Level was learnt.          *)
(*                                                                         *)
(* Bump implements this with a load, a computation and a compare_exchange. *)
(***************************************************************************)
EXTENDS Arena, FiniteSets

CONSTANTS
  Threads,        \* the threads sharing the arena
  Nobody,         \* owner of a block its thread has given back
  ForeignLevels,  \* offsets of Levels learnt from some other arena
  MaxResets       \* bound: how often the arena is reset

ASSUME BumpAssumption ==
  /\ Nobody \notin Threads
  /\ ForeignLevels \subseteq Nat
  /\ MaxResets \in Nat

VARIABLES
  consumed,  \* the ledger: Header::consumed
  blocks,    \* history: the blocks handed out since the last reset
  count,     \* history: how many were handed out since the last reset
  epoch,     \* history: how many resets there were
  req,       \* the call each thread is in, with its arguments
  outcome,   \* what came of its last call, "busy" while it runs
  held       \* the Level each thread learnt last

promised == <<consumed, blocks, count, epoch, req, outcome, held>>

------------------------------------------------------------------------------
(* Values *)

\* Level is a bare byte offset; epoch and nth are history: when it was
\* learnt, and how many blocks of that epoch existed then.
Levels == [at : Nat, epoch : Nat, nth : Nat]
Foreign == [at : ForeignLevels, epoch : {MaxResets + 1}, nth : {0}]

Blocks == [start : Nat, size : Nat \ {0}, align : Nat \ {0},
           owner : Threads \cup {Nobody}]

\* The calls, by what they do with the ledger: alloc stands for every
\* method that ends in try_alloc, alloc_at for those ending in try_alloc_at,
\* level for level() and for getting a zero-sized value or slice, zst_at for
\* getting a zero-sized value at a Level.
Requests ==
  [op : {"alloc"}, layout : Layouts]
    \cup [op : {"alloc_at"}, layout : Layouts, level : Levels]
    \cup [op : {"level"}]
    \cup [op : {"zst_at"}, level : Levels]
    \cup [op : {"realloc"}, layout : Layouts, block : Blocks]
    \cup [op : {"none"}]

NoRequest == [op |-> "none"]

Outcomes == {"idle", "busy", "ok", "exhausted", "mismatch", "panic"}

Here == [at |-> consumed, epoch |-> epoch, nth |-> count]

EndOfBlock(b) == b.start + b.size

------------------------------------------------------------------------------
(* Effects, shared with the implementation *)

\* Mutation: does not look at the alignment of the old pointer.
FitsInPlaceUnaligned(b, layout) == b.size >= layout.size

\* LocalAlloc::realloc hands the old memory out again when it suffices.
FitsInPlace(b, layout) ==
  /\ (Base + b.start) % layout.align = 0
  /\ b.size >= layout.size

\* Does this call have to claim fresh bytes at whatever the level is?
Claims(r) ==
  \/ r.op = "alloc"
  \/ r.op = "realloc" /\ ~ FitsInPlace(r.block, r.layout)

\* The calling thread receives a block at the first aligned byte above
\* level; a realloc gives its old block up.
BlockAt(t, level) ==
  [start |-> StartOf(level, req[t].layout), size |-> req[t].layout.size,
   align |-> req[t].layout.align, owner |-> t]

Resized(b, layout) ==
  [start |-> b.start, size |-> layout.size, align |-> layout.align,
   owner |-> b.owner]

GivenUp(b) == [b EXCEPT !.owner = Nobody]

Return(t, result) ==
  /\ outcome' = [outcome EXCEPT ![t] = result]
  /\ req' = [req EXCEPT ![t] = NoRequest]

GrantAt(t, level) ==
  /\ consumed' = EndOf(level, req[t].layout)
  /\ blocks' = IF req[t].op = "realloc"
               THEN (blocks \ {req[t].block})
                      \cup {GivenUp(req[t].block), BlockAt(t, level)}
               ELSE blocks \cup {BlockAt(t, level)}
  /\ count' = count + 1
  /\ held' = IF req[t].op = "realloc" THEN held
             ELSE [held EXCEPT ![t] = [at |-> EndOf(level, req[t].layout),
                                       epoch |-> epoch, nth |-> count + 1]]
  /\ Return(t, "ok")
  /\ UNCHANGED epoch

\* The call ends without touching the arena; the caller may learn the level.
ReturnWith(t, result) ==
  /\ Return(t, result)
  /\ UNCHANGED <<consumed, blocks, count, epoch>>

\* Mutation: the Mismatch carries the level that was asked for.
LearningRequested(t) ==
  held' = [held EXCEPT ![t] = IF req[t].op = "level" THEN Here ELSE req[t].level]

Learning(t) == held' = [held EXCEPT ![t] = Here]

ReallocInPlace(t) ==
  /\ req[t].op = "realloc"
  /\ FitsInPlace(req[t].block, req[t].layout)
  /\ blocks' = (blocks \ {req[t].block})
                 \cup {Resized(req[t].block, req[t].layout)}
  /\ Return(t, "ok")
  /\ UNCHANGED <<consumed, count, epoch, held>>

------------------------------------------------------------------------------
(* The operations, each at one instant *)

\* A call is made with arguments the caller can have: a Level learnt by any
\* thread or brought from elsewhere, a block the caller owns.
Callable(t) ==
  [op : {"alloc"}, layout : Layouts]
    \cup [op : {"alloc_at"}, layout : Layouts,
          level : {held[u] : u \in Threads} \cup Foreign]
    \cup [op : {"level"}]
    \cup [op : {"zst_at"}, level : {held[u] : u \in Threads}]
    \cup [op : {"realloc"}, layout : Layouts,
          block : {b \in blocks : b.owner = t}]

Invoke(t, r) ==
  /\ outcome[t] # "busy"
  /\ r \in Callable(t)
  /\ req' = [req EXCEPT ![t] = r]
  /\ outcome' = [outcome EXCEPT ![t] = "busy"]
  /\ UNCHANGED <<consumed, blocks, count, epoch, held>>

Grant(t) ==
  /\ outcome[t] = "busy"
  /\ \/ Claims(req[t])
     \/ req[t].op = "alloc_at" /\ req[t].level.at = consumed
  /\ Fits(consumed, req[t].layout)
  /\ GrantAt(t, consumed)

InPlace(t) == outcome[t] = "busy" /\ ReallocInPlace(t)

Refuse(t) ==
  /\ outcome[t] = "busy"
  /\ \/ Claims(req[t]) /\ ~ Fits(consumed, req[t].layout)
     \/ /\ req[t].op = "alloc_at"
        /\ req[t].level.at <= Length
        /\ ~ Fits(req[t].level.at, req[t].layout)
  /\ ReturnWith(t, "exhausted")
  /\ UNCHANGED held

Miss(t) ==
  /\ outcome[t] = "busy"
  /\ req[t].op \in {"alloc_at", "zst_at"}
  /\ req[t].level.at # consumed
  /\ ReturnWith(t, "mismatch")
  /\ Learning(t)

Observe(t) ==
  /\ outcome[t] = "busy"
  /\ \/ req[t].op = "level"
     \/ req[t].op = "zst_at" /\ req[t].level.at = consumed
  /\ ReturnWith(t, "ok")
  /\ Learning(t)

Panic(t) ==
  /\ outcome[t] = "busy"
  /\ req[t].op = "alloc_at"
  /\ req[t].level.at > Length
  /\ ReturnWith(t, "panic")
  /\ UNCHANGED held

\* Deallocating returns nothing to the arena.
Dealloc(t, b) ==
  /\ outcome[t] # "busy"
  /\ b \in blocks
  /\ b.owner = t
  /\ blocks' = (blocks \ {b}) \cup {GivenUp(b)}
  /\ UNCHANGED <<consumed, count, epoch, req, outcome, held>>

\* reset(&mut self): no call is running and no block is borrowed any more.
\* Levels are plain values and survive it.
Reset ==
  /\ epoch < MaxResets
  /\ \A t \in Threads : outcome[t] # "busy"
  /\ consumed' = 0
  /\ blocks' = {}
  /\ count' = 0
  /\ epoch' = epoch + 1
  /\ outcome' = [t \in Threads |-> "idle"]
  /\ UNCHANGED <<req, held>>

AtomicInit ==
  /\ consumed = 0
  /\ blocks = {}
  /\ count = 0
  /\ epoch = 0
  /\ req = [t \in Threads |-> NoRequest]
  /\ outcome = [t \in Threads |-> "idle"]
  /\ held = [t \in Threads |-> [at |-> 0, epoch |-> 0, nth |-> 0]]

AtomicNext ==
  \/ \E t \in Threads : \E r \in Callable(t) : Invoke(t, r)
  \/ \E t \in Threads : Grant(t) \/ InPlace(t) \/ Refuse(t) \/ Miss(t)
                          \/ Observe(t) \/ Panic(t)
  \/ \E t \in Threads : \E b \in blocks : Dealloc(t, b)
  \/ Reset

AtomicSpec == AtomicInit /\ [][AtomicNext]_promised
------------------------------------------------------------------------------
(* Properties of the promise *)

PromiseTypeOK ==
  /\ consumed \in 0 .. Length
  /\ blocks \subseteq Blocks
  /\ count \in Nat
  /\ epoch \in 0 .. MaxResets
  /\ req \in [Threads -> Requests]
  /\ outcome \in [Threads -> Outcomes]
  /\ held \in [Threads -> Levels]

OwnLevel(level) == level.epoch = epoch

Returns(t, result) == outcome[t] = "busy" /\ outcome'[t] = result

\* No byte is handed out twice between two resets, also not after its block
\* was deallocated, moved or shrunk ("at most one thread gets a pointer to
\* each chunk of data", the justification of Sync for Bump).
Disjoint ==
  \A b, c \in blocks :
    b # c => EndOfBlock(b) <= c.start \/ EndOfBlock(c) <= b.start

\* The header is "an accurate ledger for the use of its associated memory
\* region": every block lies below the level, inside the storage, and has the
\* alignment its current layout promises, also after a realloc in place.
LedgerAccurate ==
  /\ consumed <= Length
  /\ \A b \in blocks : /\ EndOfBlock(b) <= consumed
                       /\ (Base + b.start) % b.align = 0

\* A call that reports exhaustion is right about it at the moment it returns,
\* although it decided by a level other threads may have moved since.
ExhaustedIsFinal ==
  [][\A t \in Threads :
       /\ Returns(t, "exhausted")
       /\ req[t].op = "alloc_at" => OwnLevel(req[t].level)
       => ~ RoomAbove(consumed, req[t].layout)]_promised

\* The level a Mismatch reports is above the one that was asked for ("the
\* observed level is monotonically increasing"), so retrying with it makes
\* progress.
MismatchMeansProgress ==
  [][\A t \in Threads :
       Returns(t, "mismatch") /\ OwnLevel(req[t].level)
         => held'[t].at > req[t].level.at]_promised

\* A call at a Level succeeds only if nothing was allocated since the Level
\* was learnt: "that multiple allocations happened in succession without other
\* intermediate allocations".
Succession ==
  [][\A t \in Threads :
       Returns(t, "ok") /\ req[t].op \in {"alloc_at", "zst_at"}
         /\ OwnLevel(req[t].level)
         => count = req[t].level.nth]_promised

\* The assertions of try_alloc_at and bump fire for no level this arena ever
\* reported, in whichever epoch.
OnlyForeignLevelsPanic ==
  [][\A t \in Threads :
       Returns(t, "panic")
         => req[t].op = "alloc_at" /\ req[t].level \in Foreign]_promised
------------------------------------------------------------------------------
(* The inductive invariant behind them *)

\* A level learnt from this arena is never ahead of it, and pins down how many
\* blocks there were: claiming bytes always raises the level.
Truthful(level) ==
  /\ level.epoch <= epoch
  /\ level.at <= Length
  /\ OwnLevel(level) => /\ level.at <= consumed
                        /\ level.at = consumed => level.nth = count

LevelsTruthful ==
  \A t \in Threads :
    /\ Truthful(held[t])
    /\ req[t].op \in {"alloc_at", "zst_at"}
         => Truthful(req[t].level) \/ req[t].level \in Foreign

\* A block being reallocated stays with its thread meanwhile.
CallsSound ==
  \A t \in Threads :
    /\ outcome[t] = "busy" <=> req[t].op # "none"
    /\ req[t].op = "realloc"
         => req[t].block \in blocks /\ req[t].block.owner = t

PromiseInv ==
  PromiseTypeOK /\ Disjoint /\ LedgerAccurate /\ LevelsTruthful /\ CallsSound
==============================================================================

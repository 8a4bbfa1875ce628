----------------------------- MODULE BumpProofs -----------------------------
(***************************************************************************)
(* The promise of BumpSpec is kept by every behavior of AtomicSpec, for    *)
(* any number of threads, any storage and any layouts: PromiseInv is       *)
(* inductive, and the action properties follow from it.                    *)
(*                                                                         *)
(* Bump implements BumpSpec: every step of the compare_exchange loop is a  *)
(* step of the atomic promise, or changes nothing a caller can see.  All   *)
(* that holds of the promise then holds of Bump.  The mapping is the       *)
(* identity on the variables the modules share.  What needs an argument is *)
(* the exhaustion test, which looks at a level that may be old, and the    *)
(* assertions, which the promise knows nothing of.                         *)
(***************************************************************************)
EXTENDS AllocationInfo, ArenaProofs

------------------------------------------------------------------------------
(* The promise *)

\* The block a call receives, and what it does to the level.
LEMMA GrantedBlock ==
  ASSUME PromiseInv, NEW t \in Threads, req[t].layout \in Layouts,
         Fits(consumed, req[t].layout)
  PROVE  /\ BlockAt(t, consumed) \in Blocks
         /\ BlockAt(t, consumed).start >= consumed
         /\ BlockAt(t, consumed).owner = t
         /\ (Base + BlockAt(t, consumed).start) % BlockAt(t, consumed).align = 0
         /\ EndOfBlock(BlockAt(t, consumed)) = EndOf(consumed, req[t].layout)
         /\ EndOf(consumed, req[t].layout) \in 0 .. Length
         /\ EndOf(consumed, req[t].layout) > consumed
<1> DEFINE layout == req[t].layout
<1>1. layout.size \in Nat \ {0} /\ layout.align \in Nat \ {0}
  BY LayoutFields
<1>2. consumed \in 0 .. Length /\ consumed \in Nat
  BY DEF PromiseInv, PromiseTypeOK
<1>3. /\ StartOf(consumed, layout) \in Nat
      /\ StartOf(consumed, layout) >= consumed
      /\ EndOf(consumed, layout) \in Nat
      /\ EndOf(consumed, layout) > StartOf(consumed, layout)
      /\ (Base + StartOf(consumed, layout)) % layout.align = 0
  BY <1>2, Placement
<1>4. EndOf(consumed, layout) <= Length
  BY <1>2, FitsIsEnd
<1>5. BlockAt(t, consumed) = [start |-> StartOf(consumed, layout),
                              size |-> layout.size, align |-> layout.align,
                              owner |-> t]
  BY DEF BlockAt
<1>6. BlockAt(t, consumed) \in Blocks
  BY <1>1, <1>3, <1>5 DEF Blocks
<1>7. EndOfBlock(BlockAt(t, consumed)) = EndOf(consumed, layout)
  BY <1>5 DEF EndOfBlock, EndOf
<1>8. Length \in Nat
  BY ArenaAssumption
<1> QED
  BY <1>2, <1>3, <1>4, <1>5, <1>6, <1>7, <1>8

\* What Disjoint and LedgerAccurate say of the blocks, for any set and level.
SoundAt(S, level) ==
  /\ S \subseteq Blocks
  /\ \A b, c \in S : b # c => EndOfBlock(b) <= c.start \/ EndOfBlock(c) <= b.start
  /\ \A b \in S : EndOfBlock(b) <= level /\ (Base + b.start) % b.align = 0

LEMMA BlocksSound ==
  ASSUME PromiseInv
  PROVE  SoundAt(blocks, consumed)
  BY DEF PromiseInv, PromiseTypeOK, Disjoint, LedgerAccurate, SoundAt

LEMMA BlockFields ==
  ASSUME NEW b \in Blocks
  PROVE  /\ b.start \in Nat /\ b.size \in Nat \ {0} /\ b.align \in Nat \ {0}
         /\ b.owner \in Threads \cup {Nobody}
         /\ EndOfBlock(b) \in Nat /\ EndOfBlock(b) > b.start
  BY DEF Blocks, EndOfBlock

\* A block may give way to one inside it.
LEMMA ReplacedSound ==
  ASSUME NEW S, NEW level \in Nat, SoundAt(S, level),
         NEW old \in S, NEW new \in Blocks,
         new.start = old.start, new.size <= old.size,
         (Base + new.start) % new.align = 0
  PROVE  SoundAt((S \ {old}) \cup {new}, level)
<1>1. /\ S \subseteq Blocks /\ old \in Blocks
      /\ \A b \in S : EndOfBlock(b) <= level /\ (Base + b.start) % b.align = 0
      /\ \A b, c \in S : b # c => EndOfBlock(b) <= c.start \/ EndOfBlock(c) <= b.start
  BY DEF SoundAt
<1>2. \A b \in Blocks : b.start \in Nat /\ b.size \in Nat /\ EndOfBlock(b) \in Nat
  BY BlockFields
<1>3. EndOfBlock(new) <= EndOfBlock(old)
  BY <1>1, <1>2 DEF EndOfBlock
<1>4. EndOfBlock(new) <= level
  BY <1>1, <1>2, <1>3
<1>5. ASSUME NEW b \in S \ {old}
      PROVE  EndOfBlock(b) <= new.start \/ EndOfBlock(new) <= b.start
  <2>1. EndOfBlock(b) <= old.start \/ EndOfBlock(old) <= b.start
    BY <1>1
  <2> QED
    BY <1>1, <1>2, <1>3, <2>1
<1> QED
  BY <1>1, <1>4, <1>5 DEF SoundAt

\* A block may be added above the level.
LEMMA AddedSound ==
  ASSUME NEW S, NEW level \in Nat, SoundAt(S, level),
         NEW new \in Blocks, new.start >= level,
         (Base + new.start) % new.align = 0
  PROVE  SoundAt(S \cup {new}, EndOfBlock(new))
<1>1. /\ S \subseteq Blocks
      /\ \A b \in S : EndOfBlock(b) <= level /\ (Base + b.start) % b.align = 0
      /\ \A b, c \in S : b # c => EndOfBlock(b) <= c.start \/ EndOfBlock(c) <= b.start
  BY DEF SoundAt
<1>2. \A b \in Blocks : b.start \in Nat /\ EndOfBlock(b) \in Nat /\ EndOfBlock(b) > b.start
  BY BlockFields
<1>3. \A b \in S : EndOfBlock(b) <= new.start
  BY <1>1, <1>2
<1>4. \A b \in S : EndOfBlock(b) <= EndOfBlock(new)
  BY <1>1, <1>2, <1>3
<1> QED
  BY <1>1, <1>2, <1>3, <1>4 DEF SoundAt

\* Giving a block up keeps its place.
LEMMA GivenUpFields ==
  ASSUME NEW b \in Blocks
  PROVE  /\ GivenUp(b) \in Blocks
         /\ GivenUp(b).start = b.start
         /\ GivenUp(b).size = b.size
         /\ GivenUp(b).align = b.align
         /\ GivenUp(b).owner = Nobody
  BY DEF Blocks, GivenUp

\* The call a busy thread is in.
LEMMA RequestFields ==
  ASSUME NEW r \in Requests
  PROVE  /\ r.op \in {"alloc", "alloc_at", "level", "zst_at", "realloc", "none"}
         /\ r.op \in {"alloc", "alloc_at", "realloc"} => r.layout \in Layouts
         /\ r.op \in {"alloc_at", "zst_at"} => r.level \in Levels
         /\ r.op = "realloc" => r.block \in Blocks
  BY DEF Requests

LEMMA CallableTyped ==
  ASSUME PromiseInv, NEW t \in Threads, NEW r \in Callable(t)
  PROVE  /\ r \in Requests
         /\ r.op # "none"
         /\ r.op \in {"alloc_at", "zst_at"} => Truthful(r.level) \/ r.level \in Foreign
         /\ r.op = "realloc" => r.block \in blocks /\ r.block.owner = t
<1>1. \A u \in Threads : held[u] \in Levels /\ Truthful(held[u])
  BY DEF PromiseInv, PromiseTypeOK, LevelsTruthful
<1>2. ASSUME NEW f \in Foreign
      PROVE  f \in Levels
  <2>1. ForeignLevels \subseteq Nat /\ MaxResets + 1 \in Nat /\ 0 \in Nat
    BY BumpAssumption
  <2> QED
    BY <2>1 DEF Foreign, Levels
<1>3. blocks \subseteq Blocks
  BY DEF PromiseInv, PromiseTypeOK
<1> QED
  BY <1>1, <1>2, <1>3 DEF Callable, Requests

------------------------------------------------------------------------------
(* PromiseInv is inductive *)

LEMMA PromiseInit == AtomicInit => PromiseInv
<1> SUFFICES ASSUME AtomicInit
             PROVE  PromiseInv
  OBVIOUS
<1> USE DEF AtomicInit
<1>1. Length \in Nat /\ MaxResets \in Nat
  BY ArenaAssumption, BumpAssumption
<1>2. NoRequest \in Requests /\ NoRequest.op = "none"
  BY DEF NoRequest, Requests
<1>3. [at |-> 0, epoch |-> 0, nth |-> 0] \in Levels
  BY DEF Levels
<1>4. PromiseTypeOK
  BY <1>1, <1>2, <1>3 DEF PromiseTypeOK, Outcomes
<1>5. Disjoint /\ LedgerAccurate
  BY <1>1 DEF Disjoint, LedgerAccurate
<1>6. LevelsTruthful
  BY <1>1, <1>2 DEF LevelsTruthful, Truthful, OwnLevel
<1>7. CallsSound
  BY <1>2 DEF CallsSound
<1> QED
  BY <1>4, <1>5, <1>6, <1>7 DEF PromiseInv

LEMMA PromiseInvoke ==
  ASSUME PromiseInv, NEW t \in Threads, NEW r \in Callable(t), Invoke(t, r)
  PROVE  PromiseInv'
<1> USE DEF Invoke
<1>1. /\ r \in Requests
      /\ r.op # "none"
      /\ r.op \in {"alloc_at", "zst_at"} => Truthful(r.level) \/ r.level \in Foreign
      /\ r.op = "realloc" => r.block \in blocks /\ r.block.owner = t
  BY CallableTyped
<1>2. PromiseTypeOK'
  BY <1>1 DEF PromiseInv, PromiseTypeOK, Outcomes
<1>3. Disjoint' /\ LedgerAccurate'
  BY DEF PromiseInv, Disjoint, LedgerAccurate, EndOfBlock
<1>4. \A u \in Threads : req'[u] = IF u = t THEN r ELSE req[u]
  BY DEF PromiseInv, PromiseTypeOK
<1>5. \A u \in Threads : outcome'[u] = IF u = t THEN "busy" ELSE outcome[u]
  BY DEF PromiseInv, PromiseTypeOK
<1>6. LevelsTruthful'
  BY <1>1, <1>4 DEF PromiseInv, LevelsTruthful, Truthful, OwnLevel
<1>7. CallsSound'
  BY <1>1, <1>4, <1>5 DEF PromiseInv, CallsSound
<1> QED
  BY <1>2, <1>3, <1>6, <1>7 DEF PromiseInv

\* A call that returns without moving the level; its thread learns at most the
\* level the arena is at.
LEMMA PromiseReturn ==
  ASSUME PromiseInv, NEW t \in Threads, NEW result \in Outcomes \ {"busy"},
         ReturnWith(t, result), Learning(t) \/ UNCHANGED held
  PROVE  PromiseInv'
<1> USE DEF ReturnWith, Return
<1>1. NoRequest \in Requests /\ NoRequest.op = "none"
  BY DEF NoRequest, Requests
<1>2. /\ Here \in Levels
      /\ Truthful(Here)
  BY ArenaAssumption, BumpAssumption
     DEF PromiseInv, PromiseTypeOK, Here, Levels, Truthful, OwnLevel
<1>3. held' \in [Threads -> Levels]
  BY <1>2 DEF PromiseInv, PromiseTypeOK, Learning
<1>4. PromiseTypeOK'
  BY <1>1, <1>3 DEF PromiseInv, PromiseTypeOK
<1>5. Disjoint' /\ LedgerAccurate'
  BY DEF PromiseInv, Disjoint, LedgerAccurate, EndOfBlock
<1>6. \A u \in Threads : req'[u] = IF u = t THEN NoRequest ELSE req[u]
  BY DEF PromiseInv, PromiseTypeOK
<1>7. \A u \in Threads : outcome'[u] = IF u = t THEN result ELSE outcome[u]
  BY DEF PromiseInv, PromiseTypeOK
<1>8. \A u \in Threads : held'[u] = held[u] \/ held'[u] = Here
  BY DEF PromiseInv, PromiseTypeOK, Learning
<1>9. LevelsTruthful'
  BY <1>1, <1>2, <1>6, <1>8 DEF PromiseInv, LevelsTruthful, Truthful, OwnLevel
<1>10. CallsSound'
  BY <1>1, <1>6, <1>7 DEF PromiseInv, CallsSound
<1> QED
  BY <1>4, <1>5, <1>9, <1>10 DEF PromiseInv

\* Deallocating and reallocating in place put a block for one of the thread's
\* own; no other thread is reallocating that one.
LEMMA OthersKeepBlocks ==
  ASSUME PromiseInv, NEW t \in Threads, NEW old \in blocks, old.owner = t,
         NEW S, blocks \ {old} \subseteq S
  PROVE  \A u \in Threads \ {t} :
           req[u].op = "realloc" => req[u].block \in S /\ req[u].block.owner = u
  BY DEF PromiseInv, CallsSound

LEMMA PromiseDealloc ==
  ASSUME PromiseInv, NEW t \in Threads, NEW b \in blocks, Dealloc(t, b)
  PROVE  PromiseInv'
<1> USE DEF Dealloc
<1>1. consumed \in Nat /\ b \in Blocks
  BY DEF PromiseInv, PromiseTypeOK
<1>2. SoundAt(blocks', consumed)
  <2>1. (Base + GivenUp(b).start) % GivenUp(b).align = 0
    BY <1>1, GivenUpFields, BlocksSound DEF SoundAt
  <2>2. GivenUp(b).size <= b.size
    BY <1>1, GivenUpFields, BlockFields
  <2> QED
    BY <1>1, <2>1, <2>2, GivenUpFields, BlocksSound, ReplacedSound
<1>3. PromiseTypeOK'
  BY <1>2 DEF PromiseInv, PromiseTypeOK, SoundAt
<1>4. Disjoint' /\ LedgerAccurate'
  BY <1>2 DEF PromiseInv, Disjoint, LedgerAccurate, SoundAt, EndOfBlock
<1>5. LevelsTruthful'
  BY DEF PromiseInv, LevelsTruthful, Truthful, OwnLevel
<1>6. req[t].op # "realloc"
  BY DEF PromiseInv, CallsSound
<1>7. CallsSound'
  BY <1>6, OthersKeepBlocks DEF PromiseInv, CallsSound
<1> QED
  BY <1>3, <1>4, <1>5, <1>7 DEF PromiseInv

LEMMA PromiseReset ==
  ASSUME PromiseInv, Reset
  PROVE  PromiseInv'
<1> USE DEF Reset
<1>1. Length \in Nat /\ MaxResets \in Nat
  BY ArenaAssumption, BumpAssumption
<1>2. PromiseTypeOK'
  BY <1>1 DEF PromiseInv, PromiseTypeOK, Outcomes
<1>3. Disjoint' /\ LedgerAccurate'
  BY <1>1 DEF Disjoint, LedgerAccurate
<1>4. \A t \in Threads : req[t].op = "none"
  BY DEF PromiseInv, CallsSound
<1>5. LevelsTruthful'
  <2>1. \A t \in Threads : held[t].epoch \in Nat /\ held[t].epoch <= epoch
                             /\ held[t].at <= Length
    BY DEF PromiseInv, PromiseTypeOK, LevelsTruthful, Truthful, Levels
  <2>2. epoch \in Nat
    BY <1>1 DEF PromiseInv, PromiseTypeOK
  <2> QED
    BY <1>4, <2>1, <2>2 DEF LevelsTruthful, Truthful, OwnLevel
<1>6. CallsSound'
  BY <1>4 DEF PromiseInv, CallsSound
<1> QED
  BY <1>2, <1>3, <1>5, <1>6 DEF PromiseInv

LEMMA PromiseInPlace ==
  ASSUME PromiseInv, NEW t \in Threads, ReallocInPlace(t)
  PROVE  PromiseInv'
<1> DEFINE old == req[t].block
           layout == req[t].layout
           new == Resized(old, layout)
<1>1. /\ req[t].op = "realloc" /\ FitsInPlace(old, layout)
      /\ blocks' = (blocks \ {old}) \cup {new}
      /\ outcome' = [outcome EXCEPT ![t] = "ok"]
      /\ req' = [req EXCEPT ![t] = NoRequest]
      /\ UNCHANGED <<consumed, count, epoch, held>>
  BY DEF ReallocInPlace, Return
<1>2. /\ old \in blocks /\ old \in Blocks /\ old.owner = t
      /\ layout \in Layouts /\ consumed \in Nat /\ req[t] \in Requests
  BY <1>1, RequestFields DEF PromiseInv, PromiseTypeOK, CallsSound
<1>3. /\ new \in Blocks /\ new.start = old.start
      /\ new.size = layout.size /\ new.align = layout.align
  BY <1>2, LayoutFields DEF Blocks, Resized
<1>4. NoRequest \in Requests /\ NoRequest.op = "none"
  BY DEF NoRequest, Requests
<1> HIDE DEF old, layout, new
<1>5. new.size <= old.size /\ (Base + new.start) % new.align = 0
  BY <1>1, <1>2, <1>3, LayoutFields, BlockFields DEF FitsInPlace
<1>6. SoundAt(blocks', consumed)
  BY <1>1, <1>2, <1>3, <1>5, BlocksSound, ReplacedSound
<1>7. PromiseTypeOK'
  BY <1>1, <1>4, <1>6 DEF PromiseInv, PromiseTypeOK, SoundAt, Outcomes
<1>8. Disjoint' /\ LedgerAccurate'
  BY <1>1, <1>6 DEF PromiseInv, Disjoint, LedgerAccurate, SoundAt, EndOfBlock
<1>9. \A u \in Threads : /\ req'[u] = IF u = t THEN NoRequest ELSE req[u]
                         /\ outcome'[u] = IF u = t THEN "ok" ELSE outcome[u]
  BY <1>1 DEF PromiseInv, PromiseTypeOK
<1>10. LevelsTruthful'
  BY <1>1, <1>4, <1>9 DEF PromiseInv, LevelsTruthful, Truthful, OwnLevel
<1>11. CallsSound'
  <2>1. \A u \in Threads \ {t} :
          req[u].op = "realloc" => req[u].block \in blocks' /\ req[u].block.owner = u
    BY <1>1, <1>2, OthersKeepBlocks
  <2> QED
    BY <1>4, <1>9, <2>1 DEF PromiseInv, CallsSound
<1> QED
  BY <1>7, <1>8, <1>10, <1>11 DEF PromiseInv

\* The central case: claiming the bytes above the level.
LEMMA PromiseGrant ==
  ASSUME PromiseInv, NEW t \in Threads, outcome[t] = "busy",
         req[t].op \in {"alloc", "alloc_at", "realloc"},
         Fits(consumed, req[t].layout), GrantAt(t, consumed)
  PROVE  PromiseInv'
<1> DEFINE layout == req[t].layout
           new == BlockAt(t, consumed)
           top == EndOf(consumed, layout)
           learnt == [at |-> top, epoch |-> epoch, nth |-> count + 1]
<1>1. layout \in Layouts /\ consumed \in Nat /\ consumed \in 0 .. Length
  BY RequestFields DEF PromiseInv, PromiseTypeOK
<1>2. /\ new \in Blocks
      /\ new.start >= consumed
      /\ (Base + new.start) % new.align = 0
      /\ EndOfBlock(new) = top
      /\ top \in 0 .. Length /\ top > consumed
  BY <1>1, GrantedBlock
<1>3. /\ consumed' = top /\ count' = count + 1 /\ epoch' = epoch
      /\ outcome' = [outcome EXCEPT ![t] = "ok"]
      /\ req' = [req EXCEPT ![t] = NoRequest]
      /\ held' = held \/ held' = [held EXCEPT ![t] = learnt]
  BY DEF GrantAt, Return
<1>4. NoRequest \in Requests /\ NoRequest.op = "none"
  BY DEF NoRequest, Requests
<1>5. SoundAt(blocks', top) /\ \A u \in Threads \ {t} :
        req[u].op = "realloc" => req[u].block \in blocks' /\ req[u].block.owner = u
  <2>1. CASE req[t].op # "realloc"
    <3>1. blocks' = blocks \cup {new}
      BY <2>1 DEF GrantAt
    <3> HIDE DEF new, top, layout
    <3> QED
      BY <1>1, <1>2, <3>1, BlocksSound, AddedSound DEF PromiseInv, CallsSound
  <2>2. CASE req[t].op = "realloc"
    <3> DEFINE old == req[t].block
               kept == (blocks \ {old}) \cup {GivenUp(old)}
    <3>1. old \in blocks /\ old \in Blocks /\ old.owner = t
      BY <2>2 DEF PromiseInv, PromiseTypeOK, CallsSound
    <3>2. blocks' = kept \cup {new}
      BY <2>2 DEF GrantAt
    <3>3. SoundAt(kept, consumed)
      <4>1. (Base + GivenUp(old).start) % GivenUp(old).align = 0
        BY <3>1, GivenUpFields, BlocksSound DEF SoundAt
      <4>2. GivenUp(old).size <= old.size
        BY <3>1, GivenUpFields, BlockFields
      <4> QED
        BY <1>1, <3>1, <4>1, <4>2, GivenUpFields, BlocksSound, ReplacedSound
    <3> HIDE DEF new, top, layout
    <3>4. SoundAt(kept \cup {new}, top)
      <4> HIDE DEF kept
      <4> QED
        BY <1>1, <1>2, <3>3, AddedSound
    <3> QED
      BY <3>1, <3>2, <3>4, OthersKeepBlocks
  <2> QED
    BY <2>1, <2>2
<1>6. learnt \in Levels
  BY <1>2, BumpAssumption DEF Levels, PromiseInv, PromiseTypeOK
<1> HIDE DEF new, top, layout
<1>7. PromiseTypeOK'
  BY <1>2, <1>3, <1>4, <1>5, <1>6
     DEF PromiseInv, PromiseTypeOK, SoundAt, Outcomes
<1>8. Disjoint' /\ LedgerAccurate'
  BY <1>2, <1>3, <1>5 DEF Disjoint, LedgerAccurate, SoundAt, EndOfBlock
<1>9. \A u \in Threads : /\ req'[u] = IF u = t THEN NoRequest ELSE req[u]
                         /\ outcome'[u] = IF u = t THEN "ok" ELSE outcome[u]
                         /\ held'[u] = held[u] \/ held'[u] = learnt
  BY <1>3 DEF PromiseInv, PromiseTypeOK
<1>10. ASSUME NEW level \in Levels, Truthful(level)
       PROVE  Truthful(level)'
  <2>1. level.at \in Nat
    BY DEF Levels
  <2> QED
    BY <1>1, <1>2, <1>3, <1>10, <2>1 DEF Truthful, OwnLevel
<1>11. /\ learnt.epoch <= epoch' /\ learnt.at <= Length
       /\ learnt.at <= consumed' /\ learnt.nth = count'
  BY <1>2, <1>3, BumpAssumption DEF PromiseInv, PromiseTypeOK
<1>12. LevelsTruthful'
  <2>1. \A u \in Threads : /\ held[u] \in Levels
                           /\ req[u].op \in {"alloc_at", "zst_at"}
                                => req[u].level \in Levels
    BY RequestFields DEF PromiseInv, PromiseTypeOK
  <2> USE DEF Truthful, OwnLevel
  <2>2. ASSUME NEW u \in Threads
        PROVE  Truthful(held[u])'
    <3>1. Truthful(held[u])
      BY DEF PromiseInv, LevelsTruthful
    <3>2. CASE held'[u] = held[u]
      BY <1>10, <2>1, <3>1, <3>2
    <3>3. CASE held'[u] = learnt
      BY <1>11, <3>3
    <3> QED
      BY <1>9, <3>2, <3>3
  <2>3. ASSUME NEW u \in Threads, (req[u].op \in {"alloc_at", "zst_at"})'
        PROVE  Truthful(req[u].level)' \/ (req[u].level \in Foreign)'
    <3>1. req'[u] = req[u]
      BY <1>4, <1>9, <2>3
    <3>2. Truthful(req[u].level) \/ req[u].level \in Foreign
      BY <2>3, <3>1 DEF PromiseInv, LevelsTruthful
    <3> QED
      BY <1>10, <2>1, <2>3, <3>1, <3>2 DEF Foreign
  <2> QED
    BY <2>2, <2>3 DEF LevelsTruthful
<1>13. CallsSound'
  BY <1>4, <1>5, <1>9 DEF PromiseInv, CallsSound
<1> QED
  BY <1>7, <1>8, <1>12, <1>13 DEF PromiseInv

LEMMA PromiseNext == PromiseInv /\ [AtomicNext]_promised => PromiseInv'
<1> SUFFICES ASSUME PromiseInv, [AtomicNext]_promised
             PROVE  PromiseInv'
  OBVIOUS
<1>1. ASSUME NEW t \in Threads, NEW r \in Callable(t), Invoke(t, r)
      PROVE  PromiseInv'
  BY <1>1, PromiseInvoke
<1>2. ASSUME NEW t \in Threads, Grant(t)
      PROVE  PromiseInv'
  <2>1. req[t].op \in {"alloc", "alloc_at", "realloc"}
    BY <1>2 DEF Grant, Claims
  <2> QED
    BY <1>2, <2>1, PromiseGrant DEF Grant
<1>3. ASSUME NEW t \in Threads, InPlace(t)
      PROVE  PromiseInv'
  BY <1>3, PromiseInPlace DEF InPlace
<1>4. ASSUME NEW t \in Threads, Refuse(t)
      PROVE  PromiseInv'
  BY <1>4, PromiseReturn DEF Refuse, Outcomes
<1>5. ASSUME NEW t \in Threads, Miss(t)
      PROVE  PromiseInv'
  BY <1>5, PromiseReturn DEF Miss, Outcomes
<1>6. ASSUME NEW t \in Threads, Observe(t)
      PROVE  PromiseInv'
  BY <1>6, PromiseReturn DEF Observe, Outcomes
<1>7. ASSUME NEW t \in Threads, Panic(t)
      PROVE  PromiseInv'
  BY <1>7, PromiseReturn DEF Panic, Outcomes
<1>8. ASSUME NEW t \in Threads, NEW b \in blocks, Dealloc(t, b)
      PROVE  PromiseInv'
  BY <1>8, PromiseDealloc
<1>9. CASE Reset
  BY <1>9, PromiseReset
<1>10. CASE UNCHANGED promised
  BY <1>10 DEF promised, PromiseInv, PromiseTypeOK, Disjoint, LedgerAccurate,
               EndOfBlock, LevelsTruthful, Truthful, OwnLevel, CallsSound
<1> QED
  BY <1>1, <1>2, <1>3, <1>4, <1>5, <1>6, <1>7, <1>8, <1>9, <1>10 DEF AtomicNext

\* Every reachable state of the promise satisfies the inductive invariant.
THEOREM PromiseHolds == AtomicSpec => []PromiseInv
<1>1. AtomicInit => PromiseInv
  BY PromiseInit
<1>2. PromiseInv /\ [AtomicNext]_promised => PromiseInv'
  BY PromiseNext
<1> QED
  BY <1>1, <1>2, PTL DEF AtomicSpec

------------------------------------------------------------------------------
(* What a returning call tells its caller *)

\* The step in which a call returns is the one named for its result.
LEMMA ReturningStep ==
  ASSUME PromiseInv, [AtomicNext]_promised, NEW t \in Threads,
         NEW result \in Outcomes, Returns(t, result)
  PROVE  /\ result = "ok" => Grant(t) \/ InPlace(t) \/ Observe(t)
         /\ result = "exhausted" => Refuse(t)
         /\ result = "mismatch" => Miss(t)
         /\ result = "panic" => Panic(t)
<1> USE DEF Returns
<1>1. outcome \in [Threads -> Outcomes] /\ outcome[t] = "busy"
  BY DEF PromiseInv, PromiseTypeOK
<1>2. ASSUME NEW u \in Threads, NEW r \in Callable(u), Invoke(u, r)
      PROVE  outcome'[t] = "busy"
  BY <1>1, <1>2 DEF Invoke
<1>3. ASSUME NEW u \in Threads, Grant(u)
      PROVE  (u = t /\ result = "ok") \/ outcome'[t] = "busy"
  BY <1>1, <1>3 DEF Grant, GrantAt, Return
<1>4. ASSUME NEW u \in Threads, InPlace(u)
      PROVE  (u = t /\ result = "ok") \/ outcome'[t] = "busy"
  BY <1>1, <1>4 DEF InPlace, ReallocInPlace, Return
<1>5. ASSUME NEW u \in Threads, Refuse(u)
      PROVE  (u = t /\ result = "exhausted") \/ outcome'[t] = "busy"
  BY <1>1, <1>5 DEF Refuse, ReturnWith, Return
<1>6. ASSUME NEW u \in Threads, Miss(u)
      PROVE  (u = t /\ result = "mismatch") \/ outcome'[t] = "busy"
  BY <1>1, <1>6 DEF Miss, ReturnWith, Return
<1>7. ASSUME NEW u \in Threads, Observe(u)
      PROVE  (u = t /\ result = "ok") \/ outcome'[t] = "busy"
  BY <1>1, <1>7 DEF Observe, ReturnWith, Return
<1>8. ASSUME NEW u \in Threads, Panic(u)
      PROVE  (u = t /\ result = "panic") \/ outcome'[t] = "busy"
  BY <1>1, <1>8 DEF Panic, ReturnWith, Return
<1>9. ASSUME NEW u \in Threads, NEW b \in blocks, Dealloc(u, b)
      PROVE  outcome'[t] = "busy"
  BY <1>1, <1>9 DEF Dealloc
<1>10. ~ Reset
  BY <1>1 DEF Reset
<1>11. CASE UNCHANGED promised
  BY <1>1, <1>11 DEF promised
<1>12. CASE AtomicNext
  <2>1. PICK u \in Threads : \/ Grant(u) \/ InPlace(u) \/ Refuse(u)
                             \/ Miss(u) \/ Observe(u) \/ Panic(u)
                             \/ outcome'[t] = "busy"
    BY <1>2, <1>9, <1>10, <1>12 DEF AtomicNext
  <2> QED
    BY <2>1, <1>3, <1>4, <1>5, <1>6, <1>7, <1>8
<1> QED
  BY <1>11, <1>12

\* Exhaustion, decided from a level that may be old, is never reported while
\* an aligned place for the request is left.
THEOREM ExhaustionIsFinal == AtomicSpec => ExhaustedIsFinal
<1>1. ASSUME PromiseInv, [AtomicNext]_promised, NEW t \in Threads,
             Returns(t, "exhausted"),
             req[t].op = "alloc_at" => OwnLevel(req[t].level)
      PROVE  ~ RoomAbove(consumed, req[t].layout)
  <2>1. Refuse(t)
    BY <1>1, ReturningStep DEF Outcomes
  <2>2. /\ req[t].layout \in Layouts
        /\ consumed \in 0 .. Length /\ Length \in Nat
    BY <1>1, <2>1, RequestFields, ArenaAssumption
       DEF Refuse, Claims, PromiseInv, PromiseTypeOK
  <2>3. CASE Claims(req[t]) /\ ~ Fits(consumed, req[t].layout)
    BY <2>2, <2>3, FitsIsRoom
  <2>4. CASE /\ req[t].op = "alloc_at"
             /\ req[t].level.at <= Length
             /\ ~ Fits(req[t].level.at, req[t].layout)
    <3> DEFINE level == req[t].level
    <3>1. level \in Levels /\ level.at \in Nat
      BY <1>1, <2>4, RequestFields DEF PromiseInv, PromiseTypeOK, Levels
    <3>2. level \notin Foreign
      BY <1>1, <2>4, BumpAssumption
         DEF OwnLevel, Foreign, PromiseInv, PromiseTypeOK
    <3>3. level.at <= consumed
      BY <1>1, <2>4, <3>2 DEF PromiseInv, LevelsTruthful, Truthful
    <3>4. level.at \in 0 .. Length /\ consumed \in level.at .. Length
      BY <2>2, <2>4, <3>1, <3>3
    <3>5. ~ RoomAbove(level.at, req[t].layout)
      BY <2>2, <2>4, <3>4, FitsIsRoom
    <3> QED
      BY <2>2, <3>4, <3>5, RoomShrinks
  <2> QED
    BY <2>1, <2>3, <2>4 DEF Refuse
<1>2. PromiseInv /\ [AtomicNext]_promised =>
        [\A t \in Threads :
           /\ Returns(t, "exhausted")
           /\ req[t].op = "alloc_at" => OwnLevel(req[t].level)
           => ~ RoomAbove(consumed, req[t].layout)]_promised
  BY <1>1
<1> QED
  BY <1>2, PromiseHolds, PTL DEF AtomicSpec, ExhaustedIsFinal

\* What the caller of a call at a Level can bring: a Level of this epoch is one
\* this arena reported.
LEMMA OwnLevelSound ==
  ASSUME PromiseInv, NEW t \in Threads,
         req[t].op \in {"alloc_at", "zst_at"}, OwnLevel(req[t].level)
  PROVE  /\ req[t].level.at \in Nat /\ consumed \in Nat
         /\ req[t].level.at <= consumed
         /\ req[t].level.at = consumed => req[t].level.nth = count
<1>1. req[t].level \in Levels /\ consumed \in Nat
  BY RequestFields DEF PromiseInv, PromiseTypeOK
<1>2. req[t].level \notin Foreign
  BY BumpAssumption DEF OwnLevel, Foreign, PromiseInv, PromiseTypeOK
<1> QED
  BY <1>1, <1>2 DEF PromiseInv, LevelsTruthful, Truthful, Levels

\* A caller that retries with the level of its Mismatch always moves forward.
THEOREM MismatchIsProgress == AtomicSpec => MismatchMeansProgress
<1>1. ASSUME PromiseInv, [AtomicNext]_promised, NEW t \in Threads,
             Returns(t, "mismatch"), OwnLevel(req[t].level)
      PROVE  held'[t].at > req[t].level.at
  <2>1. Miss(t)
    BY <1>1, ReturningStep DEF Outcomes
  <2>2. held'[t] = Here
    BY <1>1, <2>1 DEF Miss, Learning, PromiseInv, PromiseTypeOK
  <2>3. held'[t].at = consumed
    BY <2>2 DEF Here
  <2>4. req[t].level.at # consumed /\ req[t].op \in {"alloc_at", "zst_at"}
    BY <2>1 DEF Miss
  <2> QED
    BY <1>1, <2>3, <2>4, OwnLevelSound
<1>2. PromiseInv /\ [AtomicNext]_promised =>
        [\A t \in Threads : Returns(t, "mismatch") /\ OwnLevel(req[t].level)
                              => held'[t].at > req[t].level.at]_promised
  BY <1>1
<1> QED
  BY <1>2, PromiseHolds, PTL DEF AtomicSpec, MismatchMeansProgress

\* Two allocations chained by a Level have no other allocation between them.
THEOREM AllocationsInSuccession == AtomicSpec => Succession
<1>1. ASSUME PromiseInv, [AtomicNext]_promised, NEW t \in Threads,
             Returns(t, "ok"), req[t].op \in {"alloc_at", "zst_at"},
             OwnLevel(req[t].level)
      PROVE  count = req[t].level.nth
  <2>1. Grant(t) \/ InPlace(t) \/ Observe(t)
    BY <1>1, ReturningStep DEF Outcomes
  <2>2. req[t].level.at = consumed
    BY <1>1, <2>1 DEF Grant, InPlace, ReallocInPlace, Observe, Claims
  <2> QED
    BY <1>1, <2>2, OwnLevelSound
<1>2. PromiseInv /\ [AtomicNext]_promised =>
        [\A t \in Threads :
           Returns(t, "ok") /\ req[t].op \in {"alloc_at", "zst_at"}
             /\ OwnLevel(req[t].level)
           => count = req[t].level.nth]_promised
  BY <1>1
<1> QED
  BY <1>2, PromiseHolds, PTL DEF AtomicSpec, Succession

\* The assertions of try_alloc_at cannot fire on a Level of this arena, not
\* even on one that is left from before a reset.
THEOREM PanicIsForeign == AtomicSpec => OnlyForeignLevelsPanic
<1>1. ASSUME PromiseInv, [AtomicNext]_promised, NEW t \in Threads,
             Returns(t, "panic")
      PROVE  req[t].op = "alloc_at" /\ req[t].level \in Foreign
  <2>1. Panic(t)
    BY <1>1, ReturningStep DEF Outcomes
  <2>2. req[t].op = "alloc_at" /\ req[t].level.at > Length
    BY <2>1 DEF Panic
  <2>3. req[t].level \in Levels /\ Length \in Nat
    BY <1>1, <2>2, RequestFields, ArenaAssumption DEF PromiseInv, PromiseTypeOK
  <2> QED
    BY <1>1, <2>2, <2>3 DEF PromiseInv, LevelsTruthful, Truthful, Levels
<1>2. PromiseInv /\ [AtomicNext]_promised =>
        [\A t \in Threads :
           Returns(t, "panic")
           => req[t].op = "alloc_at" /\ req[t].level \in Foreign]_promised
  BY <1>1
<1> QED
  BY <1>2, PromiseHolds, PTL DEF AtomicSpec, OnlyForeignLevelsPanic

------------------------------------------------------------------------------
(* The loop *)

\* The assertions that follow the exhaustion test never fail: what fits leaves
\* room for its padding and ends inside the storage.
LEMMA AssertionsHold ==
  ASSUME NEW level \in 0 .. Length, NEW layout \in Layouts, Fits(level, layout)
  PROVE  AssertsPass(level, layout)
<1>1. layout.size \in Nat \ {0} /\ level \in Nat /\ Length \in Nat
  BY LayoutFields, ArenaAssumption
<1>2. /\ Padding(level, layout) \in Nat
      /\ StartOf(level, layout) \in Nat
      /\ EndOf(level, layout) \in Nat
      /\ EndOf(level, layout) > StartOf(level, layout)
      /\ StartOf(level, layout) >= level
  BY <1>1, Placement
<1>3. EndOf(level, layout) <= Length
  BY FitsIsEnd
<1>4. StartOf(level, layout) = level + Padding(level, layout)
  BY DEF StartOf
<1> QED
  BY <1>1, <1>2, <1>3, <1>4 DEF AssertsPass

\* The layout and the expected level of a call that is about to attempt.
LEMMA Attempting ==
  ASSUME BumpInv, NEW t \in Threads, pc[t] = "attempt"
  PROVE  /\ outcome[t] = "busy"
         /\ req[t].op \in {"alloc", "alloc_at", "realloc"}
         /\ req[t].layout \in Layouts
         /\ expect[t] \in Nat /\ consumed \in 0 .. Length /\ Length \in Nat
         /\ \/ Claims(req[t]) /\ expect[t] <= consumed
            \/ req[t].op = "alloc_at" /\ expect[t] = req[t].level.at
<1>1. req[t] \in Requests /\ expect[t] \in Nat /\ consumed \in 0 .. Length
  BY DEF BumpInv, TypeOK, PromiseTypeOK
<1>2. /\ outcome[t] = "busy"
      /\ \/ Claims(req[t]) /\ expect[t] <= consumed
         \/ req[t].op = "alloc_at" /\ expect[t] = req[t].level.at
  BY DEF BumpInv, LocalsSound, LocalSound
<1>3. req[t].op \in {"alloc", "alloc_at", "realloc"}
  BY <1>2 DEF Claims
<1> QED
  BY <1>1, <1>2, <1>3, RequestFields, ArenaAssumption

\* A call that claims is not one at a Level.
LEMMA ClaimsIsNotAt ==
  ASSUME NEW r, Claims(r)
  PROVE  r.op \in {"alloc", "realloc"}
  BY DEF Claims

------------------------------------------------------------------------------
(* Every step is one the promise allows *)

LEMMA BeginMaps ==
  ASSUME NEW t \in Threads, NEW r \in Callable(t), Begin(t, r)
  PROVE  AtomicNext
  BY DEF Begin, AtomicNext

LEMMA ReadLevelMaps ==
  ASSUME BumpInv, NEW t \in Threads, ReadLevel(t)
  PROVE  Observe(t) \/ Miss(t)
<1>1. outcome[t] = "busy"
  BY DEF BumpInv, LocalsSound, LocalSound, ReadLevel
<1>2. CASE req[t].op = "zst_at" /\ req[t].level.at # consumed
  BY <1>1, <1>2 DEF ReadLevel, Miss
<1>3. CASE ~ (req[t].op = "zst_at" /\ req[t].level.at # consumed)
  BY <1>1, <1>3 DEF ReadLevel, Observe
<1> QED
  BY <1>2, <1>3

\* The only assertion that can fail is the first, and only for a Level of
\* some other arena.
LEMMA AssertFailsMaps ==
  ASSUME BumpInv, NEW t \in Threads, AssertFails(t)
  PROVE  Panic(t)
<1>1. pc[t] = "attempt"
  BY DEF AssertFails
<1>2. expect[t] > Length
  <2>1. CASE expect[t] > Length
    BY <2>1
  <2>2. CASE ~ (expect[t] > Length)
    <3>1. expect[t] \in 0 .. Length
      BY <1>1, <2>2, Attempting
    <3> QED
      BY <1>1, <2>2, <3>1, Attempting, AssertionsHold DEF AssertFails
  <2> QED
    BY <2>1, <2>2
<1>3. req[t].op = "alloc_at" /\ expect[t] = req[t].level.at
  BY <1>1, <1>2, Attempting
<1> QED
  BY <1>1, <1>2, <1>3, Attempting DEF AssertFails, Panic

\* Exhaustion at the level that was read is exhaustion at the current one.
LEMMA ExhaustMaps ==
  ASSUME BumpInv, NEW t \in Threads, Exhaust(t)
  PROVE  Refuse(t)
<1>1. /\ pc[t] = "attempt" /\ expect[t] <= Length
      /\ ~ Fits(expect[t], req[t].layout)
      /\ ReturnWith(t, "exhausted") /\ UNCHANGED held
  BY DEF Exhaust
<1>2. CASE Claims(req[t]) /\ expect[t] <= consumed
  <2>1. /\ req[t].layout \in Layouts /\ consumed \in 0 .. Length
        /\ expect[t] \in 0 .. Length /\ consumed \in expect[t] .. Length
    BY <1>1, <1>2, Attempting
  <2>2. ~ RoomAbove(expect[t], req[t].layout)
    BY <1>1, <2>1, FitsIsRoom
  <2>3. ~ RoomAbove(consumed, req[t].layout)
    BY <2>1, <2>2, RoomShrinks
  <2>4. ~ Fits(consumed, req[t].layout)
    BY <2>1, <2>3, FitsIsRoom
  <2> QED
    BY <1>1, <1>2, <2>4, Attempting DEF Refuse
<1>3. CASE req[t].op = "alloc_at" /\ expect[t] = req[t].level.at
  BY <1>1, <1>3, Attempting DEF Refuse
<1> QED
  BY <1>1, <1>2, <1>3, Attempting

LEMMA SwapMaps ==
  ASSUME BumpInv, NEW t \in Threads, Swap(t)
  PROVE  Grant(t)
<1>1. /\ pc[t] = "attempt" /\ consumed = expect[t]
      /\ Fits(expect[t], req[t].layout) /\ GrantAt(t, expect[t])
  BY DEF Swap, Attempts
<1>2. GrantAt(t, consumed) /\ Fits(consumed, req[t].layout)
  BY <1>1
<1> QED
  BY <1>1, <1>2, Attempting DEF Grant

LEMMA ReportMismatchMaps ==
  ASSUME BumpInv, NEW t \in Threads, ReportMismatch(t)
  PROVE  Miss(t)
<1>1. /\ pc[t] = "attempt" /\ consumed # expect[t] /\ req[t].op = "alloc_at"
  BY DEF ReportMismatch, Attempts
<1>2. expect[t] = req[t].level.at
  BY <1>1, Attempting, ClaimsIsNotAt
<1> QED
  BY <1>1, <1>2, Attempting DEF ReportMismatch, Miss

LEMMA StayMaps ==
  ASSUME BumpInv, NEW t \in Threads, Stay(t)
  PROVE  InPlace(t)
  BY DEF BumpInv, LocalsSound, LocalSound, Stay, InPlace

LEMMA StepMaps == BumpInv /\ [Next]_vars => [AtomicNext]_promised
<1> SUFFICES ASSUME BumpInv, [Next]_vars
             PROVE  [AtomicNext]_promised
  OBVIOUS
<1>1. ASSUME NEW t \in Threads, NEW r \in Callable(t), Begin(t, r)
      PROVE  AtomicNext
  BY <1>1, BeginMaps
<1>2. ASSUME NEW t \in Threads, Step(t)
      PROVE  [AtomicNext]_promised
  <2>1. CASE Load(t)
    BY <2>1 DEF Load
  <2>2. CASE ReadLevel(t)
    BY <2>2, ReadLevelMaps DEF AtomicNext
  <2>3. CASE AssertFails(t)
    BY <2>3, AssertFailsMaps DEF AtomicNext
  <2>4. CASE Exhaust(t)
    BY <2>4, ExhaustMaps DEF AtomicNext
  <2>5. CASE Swap(t)
    BY <2>5, SwapMaps DEF AtomicNext
  <2>6. CASE Retry(t)
    BY <2>6 DEF Retry
  <2>7. CASE ReportMismatch(t)
    BY <2>7, ReportMismatchMaps DEF AtomicNext
  <2>8. CASE Stay(t)
    BY <2>8, StayMaps DEF AtomicNext
  <2> QED
    BY <1>2, <2>1, <2>2, <2>3, <2>4, <2>5, <2>6, <2>7, <2>8 DEF Step
<1>3. ASSUME NEW t \in Threads, NEW b \in blocks, GiveBack(t, b)
      PROVE  AtomicNext
  BY <1>3 DEF GiveBack, AtomicNext
<1>4. CASE ResetArena
  BY <1>4 DEF ResetArena, AtomicNext
<1>5. CASE UNCHANGED vars
  BY <1>5 DEF vars
<1> QED
  BY <1>1, <1>2, <1>3, <1>4, <1>5 DEF Next

------------------------------------------------------------------------------
(* BumpInv is inductive *)

LEMMA BumpInit == Init => BumpInv
<1> SUFFICES ASSUME Init
             PROVE  BumpInv
  OBVIOUS
<1>1. PromiseInv
  BY PromiseInit DEF Init
<1>2. TypeOK
  BY <1>1 DEF PromiseInv, TypeOK, Init
<1>3. LocalsSound
  BY DEF Init, AtomicInit, LocalsSound, LocalSound
<1> QED
  BY <1>1, <1>2, <1>3 DEF BumpInv

\* What a step of one thread leaves true of the others: it changes nothing of
\* theirs and never lowers the level.
LEMMA OthersStaySound ==
  ASSUME BumpInv, NEW t \in Threads, NEW u \in Threads \ {t},
         consumed \in Nat, consumed' \in Nat, consumed' >= consumed,
         pc'[u] = pc[u], expect'[u] = expect[u],
         req'[u] = req[u], outcome'[u] = outcome[u]
  PROVE  LocalSound(u)'
<1>1. LocalSound(u) /\ expect[u] \in Nat
  BY DEF BumpInv, LocalsSound, TypeOK
<1> QED
  BY <1>1 DEF LocalSound, Claims, FitsInPlace

\* Any call that returns leaves its thread idle.
LEMMA FinishSound ==
  ASSUME BumpInv, NEW t \in Threads, NEW result \in Outcomes \ {"busy"},
         Return(t, result), Finish(t), consumed' \in Nat, consumed' >= consumed
  PROVE  LocalsSound' /\ pc' \in [Threads -> {"idle", "load", "attempt", "stay"}]
           /\ expect' \in [Threads -> Nat]
<1>1. /\ pc \in [Threads -> {"idle", "load", "attempt", "stay"}]
      /\ expect \in [Threads -> Nat] /\ consumed \in Nat
      /\ outcome \in [Threads -> Outcomes] /\ req \in [Threads -> Requests]
  BY DEF BumpInv, TypeOK, PromiseTypeOK
<1>2. LocalSound(t)'
  BY <1>1 DEF Return, Finish, LocalSound
<1>3. ASSUME NEW u \in Threads \ {t}
      PROVE  LocalSound(u)'
  <2>1. /\ pc'[u] = pc[u] /\ expect'[u] = expect[u]
        /\ req'[u] = req[u] /\ outcome'[u] = outcome[u]
    BY <1>1 DEF Return, Finish
  <2> QED
    BY <1>1, <2>1, OthersStaySound
<1>4. LocalsSound'
  BY <1>2, <1>3 DEF LocalsSound
<1> QED
  BY <1>1, <1>4 DEF Finish

\* Taking the level that is there as the one to expect.
LEMMA ExpectSound ==
  ASSUME BumpInv, NEW t \in Threads, Claims(req[t]), pc[t] # "idle",
         expect' = [expect EXCEPT ![t] = consumed],
         pc' = [pc EXCEPT ![t] = "attempt"], UNCHANGED promised
  PROVE  LocalsSound' /\ pc' \in [Threads -> {"idle", "load", "attempt", "stay"}]
           /\ expect' \in [Threads -> Nat]
<1>1. /\ pc \in [Threads -> {"idle", "load", "attempt", "stay"}]
      /\ expect \in [Threads -> Nat] /\ consumed \in Nat
  BY DEF BumpInv, TypeOK, PromiseTypeOK
<1>2. LocalSound(t)'
  BY <1>1 DEF promised, BumpInv, LocalsSound, LocalSound, Claims, FitsInPlace
<1>3. \A u \in Threads \ {t} : LocalSound(u)'
  BY <1>1, OthersStaySound DEF promised
<1> QED
  BY <1>1, <1>2, <1>3 DEF LocalsSound

LEMMA BeginSound ==
  ASSUME BumpInv, NEW t \in Threads, NEW r \in Callable(t), Begin(t, r)
  PROVE  LocalsSound' /\ pc' \in [Threads -> {"idle", "load", "attempt", "stay"}]
           /\ expect' \in [Threads -> Nat]
<1>1. /\ pc \in [Threads -> {"idle", "load", "attempt", "stay"}]
      /\ expect \in [Threads -> Nat] /\ consumed \in Nat
      /\ outcome \in [Threads -> Outcomes] /\ req \in [Threads -> Requests]
      /\ PromiseInv
  BY DEF BumpInv, TypeOK, PromiseTypeOK
<1>2. /\ r \in Requests /\ r.op # "none"
      /\ r.op = "alloc_at" => r.level.at \in Nat
  BY <1>1, CallableTyped, RequestFields DEF Levels
<1>3. /\ pc' = [pc EXCEPT ![t] = FirstStep(r)]
      /\ expect' = [expect EXCEPT ![t] = IF r.op = "alloc_at" THEN r.level.at ELSE 0]
      /\ req' = [req EXCEPT ![t] = r]
      /\ outcome' = [outcome EXCEPT ![t] = "busy"]
      /\ consumed' = consumed
  BY DEF Begin, Invoke
<1>4. FirstStep(r) \in {"load", "attempt", "stay"}
  BY DEF FirstStep
<1>5. /\ FirstStep(r) = "attempt" => r.op = "alloc_at"
      /\ FirstStep(r) = "stay" => r.op = "realloc" /\ ~ Claims(r)
      /\ FirstStep(r) = "load" => Claims(r) \/ r.op \in {"level", "zst_at"}
  BY <1>2, RequestFields DEF FirstStep, Claims
<1>6. LocalSound(t)'
  <2>1. /\ pc'[t] = FirstStep(r) /\ req'[t] = r /\ outcome'[t] = "busy"
        /\ expect'[t] = IF r.op = "alloc_at" THEN r.level.at ELSE 0
    BY <1>1, <1>3
  <2> QED
    BY <1>4, <1>5, <2>1 DEF LocalSound, Claims, FitsInPlace
<1>7. \A u \in Threads \ {t} : LocalSound(u)'
  BY <1>1, <1>3, OthersStaySound
<1>8. pc' \in [Threads -> {"idle", "load", "attempt", "stay"}]
  BY <1>1, <1>3, <1>4
<1>9. expect' \in [Threads -> Nat]
  BY <1>1, <1>2, <1>3
<1> QED
  BY <1>6, <1>7, <1>8, <1>9 DEF LocalsSound

LEMMA BumpNext == BumpInv /\ [Next]_vars => BumpInv'
<1> SUFFICES ASSUME BumpInv, [Next]_vars
             PROVE  BumpInv'
  OBVIOUS
<1> DEFINE Locals == LocalsSound' /\ pc' \in [Threads -> {"idle", "load", "attempt", "stay"}]
                       /\ expect' \in [Threads -> Nat]
<1>1. PromiseInv'
  BY StepMaps, PromiseNext DEF BumpInv
<1>2. consumed \in Nat /\ consumed' \in Nat
  BY <1>1 DEF BumpInv, PromiseInv, PromiseTypeOK
<1>3. ASSUME NEW t \in Threads, NEW r \in Callable(t), Begin(t, r)
      PROVE  Locals
  BY <1>3, BeginSound
<1>4. ASSUME NEW t \in Threads, Step(t)
      PROVE  Locals
  <2>1. CASE Load(t)
    BY <2>1, ExpectSound DEF Load
  <2>2. CASE ReadLevel(t)
    BY <1>2, <2>2, FinishSound DEF ReadLevel, ReturnWith, Outcomes
  <2>3. CASE AssertFails(t)
    BY <1>2, <2>3, FinishSound DEF AssertFails, ReturnWith, Outcomes
  <2>4. CASE Exhaust(t)
    BY <1>2, <2>4, FinishSound DEF Exhaust, ReturnWith, Outcomes
  <2>5. CASE Swap(t)
    <3>1. /\ PromiseInv /\ req[t].layout \in Layouts
          /\ Fits(consumed, req[t].layout) /\ consumed' = EndOf(consumed, req[t].layout)
      BY <2>5, Attempting DEF Swap, Attempts, GrantAt, BumpInv
    <3>2. consumed' >= consumed
      BY <1>2, <3>1, GrantedBlock
    <3> QED
      BY <1>2, <2>5, <3>2, FinishSound DEF Swap, GrantAt, Outcomes
  <2>6. CASE Retry(t)
    <3>1. /\ pc[t] = "attempt" /\ pc' = pc /\ Claims(req[t])
          /\ expect' = [expect EXCEPT ![t] = consumed] /\ UNCHANGED promised
      BY <2>6 DEF Retry, Attempts
    <3>2. pc' = [pc EXCEPT ![t] = "attempt"]
      BY <3>1 DEF BumpInv, TypeOK
    <3> QED
      BY <3>1, <3>2, ExpectSound
  <2>7. CASE ReportMismatch(t)
    BY <1>2, <2>7, FinishSound DEF ReportMismatch, ReturnWith, Outcomes
  <2>8. CASE Stay(t)
    BY <1>2, <2>8, FinishSound DEF Stay, ReallocInPlace, Outcomes
  <2> QED
    BY <1>4, <2>1, <2>2, <2>3, <2>4, <2>5, <2>6, <2>7, <2>8 DEF Step
<1>5. ASSUME NEW t \in Threads, NEW b \in blocks, GiveBack(t, b)
      PROVE  Locals
  BY <1>5 DEF GiveBack, Dealloc, BumpInv, TypeOK, LocalsSound, LocalSound,
              Claims, FitsInPlace
<1>6. ASSUME ResetArena
      PROVE  Locals
  BY <1>6 DEF ResetArena, Reset, BumpInv, TypeOK, LocalsSound, LocalSound
<1>7. ASSUME UNCHANGED vars
      PROVE  Locals
  BY <1>7 DEF vars, promised, BumpInv, TypeOK, LocalsSound, LocalSound,
              Claims, FitsInPlace
<1>8. Locals
  <2> HIDE DEF Locals
  <2> QED
    BY <1>3, <1>4, <1>5, <1>6, <1>7 DEF Next
<1> QED
  BY <1>1, <1>8 DEF BumpInv, TypeOK, PromiseInv

------------------------------------------------------------------------------
(* The theorems *)

\* Every reachable state of the allocator satisfies the inductive invariant.
THEOREM BumpHolds == Spec => []BumpInv
<1>1. Init => BumpInv
  BY BumpInit
<1>2. BumpInv /\ [Next]_vars => BumpInv'
  BY BumpNext
<1> QED
  BY <1>1, <1>2, PTL DEF Spec

\* Type correctness, of the ledger and the history as of the threads' locals.
THEOREM BumpTypeCorrect == Spec => []TypeOK
<1>1. BumpInv => TypeOK
  BY DEF BumpInv
<1> QED
  BY <1>1, BumpHolds, PTL

\* The lock-free loop implements the atomic allocator: it is linearizable, for
\* any number of threads and any sequence of calls.
THEOREM BumpIsAtomic == Spec => AtomicSpec
<1>1. Init => AtomicInit
  BY DEF Init
<1>2. BumpInv /\ [Next]_vars => [AtomicNext]_promised
  BY StepMaps
<1> QED
  BY <1>1, <1>2, BumpHolds, PTL DEF Spec, AtomicSpec

\* The bound on the loop of try_alloc: whatever any thread does, a call that runs
\* is left alone, returns, goes on to its first attempt, or goes round again from
\* a level that is higher than the one it tried before, within the storage.
CallsAdvance ==
  [][\A t \in Threads : pc[t] # "idle" =>
       \/ pc'[t] = pc[t] /\ expect'[t] = expect[t]
       \/ pc'[t] = "idle"
       \/ pc[t] = "load" /\ pc'[t] = "attempt"
       \/ /\ pc[t] = "attempt" /\ pc'[t] = "attempt"
          /\ expect[t] < expect'[t] /\ expect'[t] <= Length]_vars

\* Whenever a call of try_alloc loses the exchange, the level has risen since it
\* read it, so that it goes round at most once for every byte.  Terminates is this
\* and a scheduler.
THEOREM BumpCallsAdvance == Spec => CallsAdvance
<1> DEFINE Advances(t) ==
             \/ pc'[t] = pc[t] /\ expect'[t] = expect[t]
             \/ pc'[t] = "idle"
             \/ pc[t] = "load" /\ pc'[t] = "attempt"
             \/ /\ pc[t] = "attempt" /\ pc'[t] = "attempt"
                /\ expect[t] < expect'[t] /\ expect'[t] <= Length
<1>1. ASSUME BumpInv, NEW u \in Threads, Retry(u)
      PROVE  \A t \in Threads : Advances(t)
  <2>1. /\ pc[u] = "attempt" /\ consumed # expect[u] /\ Claims(req[u])
        /\ expect' = [expect EXCEPT ![u] = consumed] /\ pc' = pc
    BY <1>1 DEF Retry, Attempts
  <2>2. expect[u] <= consumed
    <3>1. req[u].op # "alloc_at"
      BY <2>1, ClaimsIsNotAt
    <3> QED
      BY <1>1, <2>1, <3>1, Attempting
  <2>3. /\ expect \in [Threads -> Nat] /\ expect[u] \in Nat
        /\ consumed \in 0 .. Length /\ Length \in Nat
    BY <1>1, ArenaAssumption DEF BumpInv, TypeOK, PromiseTypeOK
  <2>4. expect[u] < consumed /\ consumed <= Length
    BY <2>1, <2>2, <2>3
  <2> QED
    BY <2>1, <2>3, <2>4
<1>2. ASSUME BumpInv, NEW u \in Threads, Step(u)
      PROVE  \A t \in Threads : Advances(t)
  <2>1. pc \in [Threads -> {"idle", "load", "attempt", "stay"}] /\ expect \in [Threads -> Nat]
    BY <1>2 DEF BumpInv, TypeOK
  <2>2. CASE Load(u)
    BY <2>1, <2>2 DEF Load
  <2>3. CASE Finish(u)
    BY <2>1, <2>3 DEF Finish
  <2> HIDE DEF Advances
  <2> QED
    BY <1>1, <1>2, <2>2, <2>3 DEF Step, ReadLevel, AssertFails, Exhaust, Swap,
                                  ReportMismatch, Stay
<1>3. ASSUME BumpInv, Next, NEW t \in Threads, pc[t] # "idle"
      PROVE  Advances(t)
  <2>1. pc \in [Threads -> {"idle", "load", "attempt", "stay"}] /\ expect \in [Threads -> Nat]
    BY <1>3 DEF BumpInv, TypeOK
  <2>2. ASSUME NEW u \in Threads, NEW r \in Callable(u), Begin(u, r)
        PROVE  Advances(t)
    BY <1>3, <2>1, <2>2 DEF Begin
  <2>3. CASE \E u \in Threads : \E b \in blocks : GiveBack(u, b)
    BY <2>3 DEF GiveBack
  <2>4. CASE ResetArena
    BY <2>4 DEF ResetArena
  <2> HIDE DEF Advances
  <2> QED
    BY <1>2, <1>3, <2>2, <2>3, <2>4 DEF Next
<1>4. BumpInv /\ [Next]_vars => [\A t \in Threads : pc[t] # "idle" => Advances(t)]_vars
  <2> HIDE DEF Advances
  <2> QED
    BY <1>3
<1> QED
  BY <1>4, BumpHolds, PTL DEF Spec, CallsAdvance

\* No two threads ever get overlapping memory between two resets.
THEOREM BumpDisjoint == Spec => []Disjoint
<1>1. BumpInv => Disjoint
  BY DEF BumpInv, PromiseInv
<1> QED
  BY <1>1, BumpHolds, PTL

\* The header is an accurate ledger of the storage.
THEOREM BumpLedgerAccurate == Spec => []LedgerAccurate
<1>1. BumpInv => LedgerAccurate
  BY DEF BumpInv, PromiseInv
<1> QED
  BY <1>1, BumpHolds, PTL

\* What the results of the lock-free calls tell their callers: exhaustion is
\* final, a mismatch is progress, success at a Level means succession, and no
\* Level of the arena itself panics.
THEOREM BumpAnswers ==
  Spec => ExhaustedIsFinal /\ MismatchMeansProgress /\ Succession
            /\ OnlyForeignLevelsPanic
  BY BumpIsAtomic, ExhaustionIsFinal, MismatchIsProgress,
     AllocationsInSuccession, PanicIsForeign, PTL

------------------------------------------------------------------------------
(* WithAllocationInfo *)

\* Only the exhaustion test of a call itself makes it report exhaustion.
LEMMA ExhaustedByExhaust ==
  ASSUME BumpInv, [Next]_vars, NEW t \in Threads, Returns(t, "exhausted")
  PROVE  Exhaust(t)
<1>1. outcome \in [Threads -> Outcomes] /\ outcome[t] = "busy" /\ outcome'[t] = "exhausted"
  BY DEF BumpInv, TypeOK, PromiseTypeOK, Returns
<1>2. ASSUME NEW u \in Threads, NEW result,
             result # "exhausted" \/ u # t,
             outcome' = [outcome EXCEPT ![u] = result]
      PROVE  FALSE
  BY <1>1, <1>2
<1>3. ASSUME NEW u \in Threads, NEW r \in Callable(u), Begin(u, r)
      PROVE  FALSE
  BY <1>2, <1>3 DEF Begin, Invoke
<1>4. ASSUME NEW u \in Threads, Step(u)
      PROVE  Exhaust(t)
  <2>1. CASE Load(u) \/ Retry(u)
    BY <1>1, <2>1 DEF Load, Retry, promised
  <2>2. CASE ReadLevel(u)
    <3>1. PICK result \in {"ok", "mismatch"} : outcome' = [outcome EXCEPT ![u] = result]
      BY <2>2 DEF ReadLevel, ReturnWith, Return
    <3> QED
      BY <1>2, <3>1
  <2>3. CASE AssertFails(u)
    BY <1>2, <2>3 DEF AssertFails, ReturnWith, Return
  <2>4. CASE Exhaust(u)
    BY <1>2, <2>4 DEF Exhaust, ReturnWith, Return
  <2>5. CASE Swap(u)
    BY <1>2, <2>5 DEF Swap, GrantAt, Return
  <2>6. CASE ReportMismatch(u)
    BY <1>2, <2>6 DEF ReportMismatch, ReturnWith, Return
  <2>7. CASE Stay(u)
    BY <1>2, <2>7 DEF Stay, ReallocInPlace, Return
  <2> QED
    BY <1>4, <2>1, <2>2, <2>3, <2>4, <2>5, <2>6, <2>7 DEF Step
<1>5. ASSUME NEW u \in Threads, NEW b \in blocks, GiveBack(u, b)
      PROVE  FALSE
  BY <1>1, <1>5 DEF GiveBack, Dealloc
<1>6. ~ ResetArena
  BY <1>1 DEF ResetArena, Reset
<1>7. ~ UNCHANGED vars
  BY <1>1 DEF vars, promised
<1> QED
  BY <1>3, <1>4, <1>5, <1>6, <1>7 DEF Next

\* The block an allocation got is the one between what is recorded of it.
LEMMA InfoOfGrant ==
  ASSUME PromiseInv, NEW t \in Threads, req[t].op = "alloc", Grant(t)
  PROVE  \E b \in blocks' \ blocks :
           /\ b.owner = t
           /\ b.start = AllocationStart(t)
           /\ EndOfBlock(b) = ObservedLevel(t, "ok")
<1> DEFINE b == BlockAt(t, consumed)
           layout == req[t].layout
<1>1. layout \in Layouts /\ Fits(consumed, layout)
  BY RequestFields DEF Grant, PromiseInv, PromiseTypeOK
<1>2. /\ blocks' = blocks \cup {b}
      /\ held'[t].at = EndOf(consumed, layout)
  BY DEF Grant, GrantAt, PromiseInv, PromiseTypeOK
<1>3. b.start = StartOf(consumed, layout) /\ b.owner = t
  BY DEF BlockAt
<1>4. /\ EndOfBlock(b) = EndOf(consumed, layout)
      /\ EndOf(consumed, layout) > consumed
      /\ EndOf(consumed, layout) \in Nat /\ consumed \in Nat
  BY <1>1, GrantedBlock, ArenaAssumption DEF PromiseInv, PromiseTypeOK
<1>5. StartOf(consumed, layout) \in Nat /\ layout.size \in Nat
  BY <1>1, <1>4, Placement, LayoutFields
<1> HIDE DEF b, layout
<1>6. b \notin blocks
  <2>1. \A c \in blocks : EndOfBlock(c) <= consumed
    BY DEF PromiseInv, LedgerAccurate
  <2> QED
    BY <1>4, <2>1
<1>7. AllocationStart(t) = StartOf(consumed, layout)
  BY <1>2, <1>5 DEF AllocationStart, LevelStart, EndOf, layout
<1> QED
  BY <1>2, <1>3, <1>4, <1>6, <1>7 DEF ObservedLevel

LEMMA InfoOfExhaust ==
  ASSUME BumpInv, NEW t \in Threads, req[t].op = "alloc", Exhaust(t)
  PROVE  /\ ObservedLevel(t, "exhausted") \in 0 .. consumed
         /\ ~ RoomAbove(ObservedLevel(t, "exhausted"), req[t].layout)
<1>1. /\ pc[t] = "attempt" /\ expect[t] <= Length
      /\ ~ Fits(expect[t], req[t].layout)
  BY DEF Exhaust
<1>2. /\ expect[t] \in 0 .. Length /\ expect[t] <= consumed /\ consumed \in Nat
      /\ req[t].layout \in Layouts
  BY <1>1, Attempting
<1> QED
  BY <1>1, <1>2, FitsIsRoom DEF ObservedLevel

\* What the handle records is about its own call, for any number of threads.
THEOREM BumpInfoBelongs == Spec => InfoBelongsToCall
<1>1. ASSUME BumpInv, [Next]_vars, NEW t \in Threads, req[t].op = "alloc"
      PROVE  /\ Returns(t, "ok") =>
                  \E b \in blocks' \ blocks :
                    /\ b.owner = t
                    /\ b.start = AllocationStart(t)
                    /\ EndOfBlock(b) = ObservedLevel(t, "ok")
             /\ Returns(t, "exhausted") =>
                  /\ ObservedLevel(t, "exhausted") \in 0 .. consumed
                  /\ ~ RoomAbove(ObservedLevel(t, "exhausted"), req[t].layout)
  <2>1. PromiseInv /\ [AtomicNext]_promised
    BY <1>1, StepMaps DEF BumpInv
  <2>2. ASSUME Returns(t, "ok")
        PROVE  Grant(t)
    BY <1>1, <2>1, <2>2, ReturningStep DEF InPlace, ReallocInPlace, Observe, Outcomes
  <2> QED
    BY <1>1, <2>1, <2>2, InfoOfGrant, InfoOfExhaust, ExhaustedByExhaust
<1>2. BumpInv /\ [Next]_vars =>
        [\A t \in Threads : req[t].op = "alloc" =>
           /\ Returns(t, "ok") =>
                \E b \in blocks' \ blocks :
                  /\ b.owner = t
                  /\ b.start = AllocationStart(t)
                  /\ EndOfBlock(b) = ObservedLevel(t, "ok")
           /\ Returns(t, "exhausted") =>
                /\ ObservedLevel(t, "exhausted") \in 0 .. consumed
                /\ ~ RoomAbove(ObservedLevel(t, "exhausted"), req[t].layout)]_vars
  BY <1>1
<1> QED
  BY <1>2, BumpHolds, PTL DEF Spec, InfoBelongsToCall
==============================================================================

-------------------------------- MODULE Chain --------------------------------
(***************************************************************************)
(* static-alloc/src/unsync/chain.rs: arenas from the heap, linked to one   *)
(* another.  A Chain is a pointer to its newest link; boxes come from that *)
(* link only.  Chaining puts the newest link of another chain on top of    *)
(* one's own and frees the links below it, which nobody can borrow from    *)
(* any more because the other chain was given away.                        *)
(*                                                                         *)
(* A Chain is not Sync, and no code of a caller runs while one is chained  *)
(* or dropped.  The two loops that free links still take one step per link *)
(* here: each reads a pointer out of the link it is about to free.         *)
(***************************************************************************)
EXTENDS Arena

CONSTANTS
  Chains,  \* names for chains, free again after a drop
  Links,   \* addresses the heap may give a link
  Nil      \* None, for a LinkPtr

\* Links have one length and one base, as if Chain::new were always called
\* with the same size: nothing in this file compares two of them.
ASSUME ChainAssumption == Nil \notin Chains \cup Links

VARIABLES
  live,       \* the chains that exist
  root,       \* Chain::root
  next,       \* Link::next
  level,      \* the level of each link's arena
  allocated,  \* the links the heap has given out
  boxes,      \* the boxes that are borrowed: from which chain, and where
  doomed,     \* current, in the loops that free links
  call,       \* the call the loop runs in
  below       \* history: the links each link leads to

heap == <<next, allocated, below>>
vars == <<live, root, heap, level, boxes, doomed, call>>

NoCall == [op |-> "none"]

Calls ==
  [op : {"none", "drop"}] \cup [op : {"chain"}, chain : Chains, new : Chains]

Boxes == [chain : Chains, link : Links, at : Nat, size : Nat]

Idle == call = NoCall

\* The links a pointer leads to.
From(ptr) == IF ptr = Nil THEN {} ELSE {ptr} \cup below[ptr]

Borrowed(c) == \E b \in boxes : b.chain = c

------------------------------------------------------------------------------
(* Calls that free nothing *)

\* Chain::new, when the heap has memory: zeroed, so that next is None and the
\* level 0.
New(c, l) ==
  /\ Idle
  /\ c \notin live
  /\ l \notin allocated
  /\ live' = live \cup {c}
  /\ root' = [root EXCEPT ![c] = l]
  /\ allocated' = allocated \cup {l}
  /\ next' = [next EXCEPT ![l] = Nil]
  /\ below' = [below EXCEPT ![l] = {}]
  /\ level' = [level EXCEPT ![l] = 0]
  /\ UNCHANGED <<boxes, doomed, call>>

BoxAt(c, layout) ==
  [chain |-> c, link |-> root[c],
   at |-> StartOf(level[root[c]], layout), size |-> layout.size]

\* bump_box, when the newest link has room: nothing comes between the level it
\* reads and the allocation at that level.
BumpBox(c, layout) ==
  /\ Idle
  /\ c \in live
  /\ Fits(level[root[c]], layout)
  /\ boxes' = boxes \cup {BoxAt(c, layout)}
  /\ level' = [level EXCEPT ![root[c]] = EndOf(level[root[c]], layout)]
  /\ UNCHANGED <<live, root, heap, doomed, call>>

\* The borrow of a box ends; its memory stays consumed.
ReturnBox(b) ==
  /\ Idle
  /\ boxes' = boxes \ {b}
  /\ UNCHANGED <<live, root, heap, level, doomed, call>>

------------------------------------------------------------------------------
(* Calls that free links *)

\* Mutations: the links below the new root are forgotten instead of freed; the
\* links that are freed are those below the own root.
StartForgetting(c, d) ==
  /\ Idle
  /\ {c, d} \subseteq live
  /\ c # d
  /\ ~ Borrowed(d)
  /\ call' = [op |-> "chain", chain |-> c, new |-> d]
  /\ root' = [root EXCEPT ![c] = Nil]
  /\ next' = [next EXCEPT ![root[d]] = root[c]]
  /\ below' = [below EXCEPT ![root[d]] = From(root[c])]
  /\ doomed' = Nil
  /\ UNCHANGED <<live, level, allocated, boxes>>

StartOnOwn(c, d) ==
  /\ Idle
  /\ {c, d} \subseteq live
  /\ c # d
  /\ ~ Borrowed(d)
  /\ call' = [op |-> "chain", chain |-> c, new |-> d]
  /\ root' = [root EXCEPT ![c] = Nil]
  /\ next' = [next EXCEPT ![root[d]] = root[c]]
  /\ below' = [below EXCEPT ![root[d]] = From(root[c])]
  /\ doomed' = next[root[c]]
  /\ UNCHANGED <<live, level, allocated, boxes>>

\* chain(self = c, new = d): takes the own root, links it below the root of
\* new, and drops what was there.  new is moved, so nothing borrows from it.
StartChain(c, d) ==
  /\ Idle
  /\ {c, d} \subseteq live
  /\ c # d
  /\ ~ Borrowed(d)
  /\ call' = [op |-> "chain", chain |-> c, new |-> d]
  /\ root' = [root EXCEPT ![c] = Nil]
  /\ next' = [next EXCEPT ![root[d]] = root[c]]
  /\ below' = [below EXCEPT ![root[d]] = From(root[c])]
  /\ doomed' = next[root[d]]
  /\ UNCHANGED <<live, level, allocated, boxes>>

\* Drop for Chain: all borrows have ended.
StartDrop(c) ==
  /\ Idle
  /\ c \in live
  /\ ~ Borrowed(c)
  /\ call' = [op |-> "drop"]
  /\ live' = live \ {c}
  /\ doomed' = root[c]
  /\ root' = [root EXCEPT ![c] = Nil]
  /\ UNCHANGED <<heap, level, boxes>>

\* Mutation: current is not moved on.
FreeForever ==
  /\ ~ Idle
  /\ doomed # Nil
  /\ allocated' = allocated \ {doomed}
  /\ UNCHANGED <<live, root, next, below, level, boxes, doomed, call>>

\* current = link.next.take(), and the box of the link is dropped.
Free ==
  /\ ~ Idle
  /\ doomed # Nil
  /\ doomed' = next[doomed]
  /\ next' = [next EXCEPT ![doomed] = Nil]
  /\ below' = [below EXCEPT ![doomed] = {}]
  /\ allocated' = allocated \ {doomed}
  /\ UNCHANGED <<live, root, level, boxes, call>>

\* The loop is over: chain moves the root over; new is dropped without one.
Finish ==
  /\ ~ Idle
  /\ doomed = Nil
  /\ call' = NoCall
  /\ IF call.op = "chain"
     THEN /\ root' = [root EXCEPT ![call.chain] = root[call.new], ![call.new] = Nil]
          /\ live' = live \ {call.new}
     ELSE UNCHANGED <<root, live>>
  /\ UNCHANGED <<heap, level, boxes, doomed>>

------------------------------------------------------------------------------
Init ==
  /\ live = {}
  /\ root = [c \in Chains |-> Nil]
  /\ next = [l \in Links |-> Nil]
  /\ level = [l \in Links |-> 0]
  /\ allocated = {}
  /\ boxes = {}
  /\ doomed = Nil
  /\ call = NoCall
  /\ below = [l \in Links |-> {}]

LoopStep == Free \/ Finish

Next ==
  \/ \E c \in Chains, l \in Links : New(c, l)
  \/ \E c \in Chains, layout \in Layouts : BumpBox(c, layout)
  \/ \E b \in boxes : ReturnBox(b)
  \/ \E c, d \in Chains : StartChain(c, d)
  \/ \E c \in Chains : StartDrop(c)
  \/ LoopStep

\* A loop that runs goes on; nobody has to call anything.
Spec == Init /\ [][Next]_vars /\ WF_vars(LoopStep)

------------------------------------------------------------------------------
(* Properties *)

TypeOK ==
  /\ live \subseteq Chains
  /\ root \in [Chains -> Links \cup {Nil}]
  /\ next \in [Links -> Links \cup {Nil}]
  /\ level \in [Links -> 0 .. Length]
  /\ allocated \subseteq Links
  /\ boxes \subseteq Boxes
  /\ doomed \in Links \cup {Nil}
  /\ call \in Calls
  /\ below \in [Links -> SUBSET Links]

\* No link is leaked, none is freed while a pointer to it is left, and none is
\* met twice by whoever frees them: every allocated link lies on exactly one
\* list, and following that list leads downwards.
EachLinkOnce ==
  /\ \A l \in Links : l \in allocated <=> \/ l \in From(doomed)
                                         \/ \E c \in Chains : l \in From(root[c])
  /\ \A c, d \in Chains : c # d => From(root[c]) \cap From(root[d]) = {}
  /\ \A c \in Chains : From(root[c]) \cap From(doomed) = {}
  /\ \A l \in allocated : below[l] = From(next[l]) /\ l \notin below[l]

\* While chain runs, the links of self hang below the root of new.
Holder(c) == IF call.op = "chain" /\ call.chain = c THEN call.new ELSE c

\* "Critically, we must not deallocate before all borrows on self have ended":
\* a borrowed box lies in a link of the chain it was borrowed from, whatever
\* was chained to that since, below the link's level and apart from all others.
BoxesSafe ==
  \A b \in boxes :
    /\ b.link \in From(root[Holder(b.chain)])
    /\ b.at + b.size <= level[b.link]
    /\ \A o \in boxes \ {b} : o.link = b.link => \/ b.at + b.size <= o.at
                                                 \/ o.at + o.size <= b.at

\* The loops of chain and drop come to an end.
LoopsEnd == ~ Idle ~> Idle

------------------------------------------------------------------------------
(* The inductive invariant behind them *)

\* A chain has a root except while chain has taken it; boxes are borrowed from
\* chains that exist, and none from the one that was given away.
RootsSound ==
  /\ \A c \in Chains :
       root[c] # Nil <=> c \in live /\ ~ (call.op = "chain" /\ call.chain = c)
  /\ call.op = "chain" => /\ call.chain \in live /\ call.new \in live
                          /\ call.chain # call.new
                          /\ ~ Borrowed(call.new)
  /\ Idle => doomed = Nil
  /\ \A b \in boxes : b.chain \in live

\* What a link leads to, the links below it lead to as well.
BelowClosed ==
  \A l \in allocated : \A m \in below[l] : m \in allocated /\ below[m] \subseteq below[l]

ChainInv == TypeOK /\ EachLinkOnce /\ BoxesSafe /\ RootsSound /\ BelowClosed
==============================================================================

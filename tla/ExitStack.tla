----------------------------- MODULE ExitStack -----------------------------
(***************************************************************************)
(* exit-stack/src/lib.rs: values pinned into an arena, each drop obligation*)
(* entered in a linked list that runs through the slots themselves.        *)
(* pop_all, set and the destructor of the stack walk the list, drop every  *)
(* value in place and hand the whole arena back.                           *)
(*                                                                         *)
(* The stack is not Sync and pop_all borrows it uniquely: no other call    *)
(* comes between two drops.  What does come between them is a destructor   *)
(* that panics.                                                            *)
(***************************************************************************)
EXTENDS Arena, Sequences

CONSTANTS
  Values,     \* what callers pin; a name is free again once it was dropped
  LayoutOf,   \* the layout of PinSlot<T> for the type T of each value
  MemValues,  \* the values of the type Mem the stack was made for
  Panicky,    \* the values whose destructor panics
  Nil         \* None, for an Option<ExitHandle>

\* memory is a Bump<PinSlot<Mem>>.
ASSUME ExitStackAssumption ==
  /\ LayoutOf \in [Values -> Layouts]
  /\ MemValues \subseteq Values
  /\ \A v \in MemValues : Fits(0, LayoutOf[v])
  /\ Nil \notin Values

VARIABLES
  consumed,  \* the level of the arena
  at,        \* where the slot of each value is
  top,       \* ExitStack::top
  link,      \* PinSlot::link of each value
  reserved,  \* the Slots that were handed out and not filled yet
  phase,     \* "open", or "popping" while inner_pop_all runs
  call,      \* the call that made it run
  chain,     \* flag.chain of that call
  live,      \* history: the values pinned and not dropped
  entries,   \* history: those still to be dropped, oldest first
  panicked   \* history: did a destructor panic?

arena == <<consumed, at>>
list == <<top, link>>
vars == <<arena, list, reserved, phase, call, chain, live, entries, panicked>>

Calls ==
  [op : {"none", "pop_all", "drop"}] \cup [op : {"set"}, value : MemValues]

NoCall == [op |-> "none"]

------------------------------------------------------------------------------
(* Filling the stack *)

\* bump_box: the next bytes of the arena go to this value.
Place(v, level) ==
  /\ consumed' = EndOf(level, LayoutOf[v])
  /\ at' = [at EXCEPT ![v] = StartOf(level, LayoutOf[v])]

\* slot(), when there is room.
Reserve(v) ==
  /\ phase = "open"
  /\ v \notin live \cup reserved
  /\ Fits(consumed, LayoutOf[v])
  /\ Place(v, consumed)
  /\ reserved' = reserved \cup {v}
  /\ UNCHANGED <<list, phase, call, chain, live, entries, panicked>>

\* A Slot is dropped unfilled: its memory stays consumed.
Release(v) ==
  /\ phase = "open"
  /\ v \in reserved
  /\ reserved' = reserved \ {v}
  /\ UNCHANGED <<arena, list, phase, call, chain, live, entries, panicked>>

\* Mutations: the new value is entered below the newest one; the new value
\* takes the place of the list; it is linked to itself.
EnterBelow(v) ==
  /\ link' = IF top = Nil THEN [link EXCEPT ![v] = Nil]
             ELSE [link EXCEPT ![v] = link[top], ![top] = v]
  /\ top' = IF top = Nil THEN v ELSE top
  /\ live' = live \cup {v}
  /\ entries' = Append(entries, v)

EnterAlone(v) ==
  /\ link' = [link EXCEPT ![v] = Nil]
  /\ top' = v
  /\ live' = live \cup {v}
  /\ entries' = Append(entries, v)

EnterTwice(v) ==
  /\ link' = [link EXCEPT ![v] = v]
  /\ top' = v
  /\ live' = live \cup {v}
  /\ entries' = Append(entries, v)

\* Slot::pin prepends the value to the list.
Enter(v) ==
  /\ link' = [link EXCEPT ![v] = top]
  /\ top' = v
  /\ live' = live \cup {v}
  /\ entries' = Append(entries, v)

\* Slots are filled in any order, whatever order they were reserved in.
Pin(v) ==
  /\ phase = "open"
  /\ v \in reserved
  /\ Enter(v)
  /\ reserved' = reserved \ {v}
  /\ UNCHANGED <<arena, phase, call, chain, panicked>>

------------------------------------------------------------------------------
(* Emptying it *)

\* Mutation: reads top instead of taking it.
StartReading(c) ==
  /\ phase = "open"
  /\ reserved = {}
  /\ c.op = "set" => c.value \notin live
  /\ phase' = "popping"
  /\ call' = c
  /\ chain' = top
  /\ UNCHANGED <<arena, list, reserved, live, entries, panicked>>

\* pop_all, set, or the end of the stack.  They borrow the stack uniquely, so
\* that no Slot and no pinned reference is left.
Start(c) ==
  /\ phase = "open"
  /\ reserved = {}
  /\ c.op = "set" => c.value \notin live
  /\ phase' = "popping"
  /\ call' = c
  /\ chain' = top
  /\ top' = Nil
  /\ UNCHANGED <<arena, link, reserved, live, entries, panicked>>

\* drop_in_place returns, and flag.chain goes on to the next slot.
DropNext ==
  /\ phase = "popping"
  /\ chain # Nil
  /\ chain \notin Panicky
  /\ live' = live \ {chain}
  /\ entries' = SubSeq(entries, 1, Len(entries) - 1)
  /\ chain' = link[chain]
  /\ UNCHANGED <<arena, list, reserved, phase, call, panicked>>

\* Where the call leaves the stack.
After(c) == IF c.op = "drop" THEN "gone" ELSE "open"

\* drop_in_place panics.  take() has emptied flag.chain by then, so that the
\* destructor of UnwindFlag finds nothing to go on with; the call unwinds, and
\* set drops its argument.
DropPanics ==
  /\ phase = "popping"
  /\ chain \in Panicky
  /\ live' = live \ {chain}
  /\ entries' = <<>>
  /\ panicked' = TRUE
  /\ chain' = Nil
  /\ phase' = After(call)
  /\ call' = NoCall
  /\ UNCHANGED <<arena, list, reserved>>

\* Mutation: set pins above what the values it just dropped consumed.
FinishWithoutReset ==
  /\ phase = "popping"
  /\ chain = Nil
  /\ call' = NoCall
  /\ IF call.op = "set" /\ Fits(consumed, LayoutOf[call.value])
     THEN Place(call.value, consumed) /\ Enter(call.value)
     ELSE UNCHANGED <<arena, list, live, entries>>
  /\ phase' = IF call.op = "set" /\ ~ Fits(consumed, LayoutOf[call.value])
              THEN "unreachable" ELSE After(call)
  /\ UNCHANGED <<reserved, chain, panicked>>

\* The list is walked: memory.reset().  Then set reserves a slot and pins its
\* value; "The memory can allocate at least one slot" or the code is wrong.
Finish ==
  /\ phase = "popping"
  /\ chain = Nil
  /\ call' = NoCall
  /\ IF call.op = "set" /\ Fits(0, LayoutOf[call.value])
     THEN Place(call.value, 0) /\ Enter(call.value)
     ELSE consumed' = 0 /\ UNCHANGED <<at, list, live, entries>>
  /\ phase' = IF call.op = "set" /\ ~ Fits(0, LayoutOf[call.value])
              THEN "unreachable" ELSE After(call)
  /\ UNCHANGED <<reserved, chain, panicked>>

------------------------------------------------------------------------------
Init ==
  /\ consumed = 0
  /\ at = [v \in Values |-> 0]
  /\ top = Nil
  /\ link = [v \in Values |-> Nil]
  /\ reserved = {}
  /\ phase = "open"
  /\ call = NoCall
  /\ chain = Nil
  /\ live = {}
  /\ entries = <<>>
  /\ panicked = FALSE

PopStep == DropNext \/ DropPanics \/ Finish

Next ==
  \/ \E v \in Values : Reserve(v) \/ Release(v) \/ Pin(v)
  \/ \E c \in Calls \ {NoCall} : Start(c)
  \/ PopStep

\* A loop that is running goes on; nobody has to call anything.
Spec == Init /\ [][Next]_vars /\ WF_vars(PopStep)

------------------------------------------------------------------------------
(* Properties *)

TypeOK ==
  /\ consumed \in 0 .. Length
  /\ at \in [Values -> Nat]
  /\ top \in Values \cup {Nil}
  /\ link \in [Values -> Values \cup {Nil}]
  /\ reserved \subseteq Values
  /\ phase \in {"open", "popping", "gone", "unreachable"}
  /\ call \in Calls
  /\ chain \in Values \cup {Nil}
  /\ live \subseteq Values
  /\ entries \in Seq(Values)
  /\ panicked \in BOOLEAN

First == IF phase = "popping" THEN chain ELSE top

\* The slot below the i-th entry: the older one, or none.
Below(i) == IF i = 1 THEN Nil ELSE entries[i - 1]

\* The links, followed from the head, meet exactly the values that are to be
\* dropped, newest first and each once; none of them was dropped before, and
\* none is an unfilled slot.
ListIsStack ==
  /\ First = IF Len(entries) = 0 THEN Nil ELSE entries[Len(entries)]
  /\ \A i \in 1 .. Len(entries) : /\ link[entries[i]] = Below(i)
                                  /\ entries[i] \in live \ reserved
                                  /\ \A j \in 1 .. i - 1 : entries[i] # entries[j]

EndAt(v) == at[v] + LayoutOf[v].size

\* "If we write a pointer here then it must be dropped before the box's memory
\* is invalidated": while a pinned value lives, its memory lies below the level
\* and belongs to no other slot, and the stack is not gone.  A panicking
\* destructor voids this, see Registered.
PinGuarantee ==
  ~ panicked =>
    /\ phase = "gone" => live = {}
    /\ \A v \in live \cup reserved :
         /\ EndAt(v) <= consumed
         /\ \A w \in (live \cup reserved) \ {v} : EndAt(v) <= at[w] \/ EndAt(w) <= at[v]

\* Values are dropped newest first: a destructor may still rely on everything
\* that was pinned before its value.
DropsNewestFirst ==
  [][\A v \in live \ live' : v = entries[Len(entries)] /\ v = First]_vars

\* set always finds room for its value, whatever happened before, panics
\* included: unreachable!() is not reached.
RoomForOne == phase # "unreachable"

\* pop_all comes to an end, and the caller gets the stack back or is unwound.
PopsEnd == phase = "popping" ~> phase # "popping"

\* "if we panic unwind, the rest continues to be dropped": outside pop_all, every
\* live value is one the list leads to.
Registered ==
  phase # "popping" => \A v \in live : \E i \in 1 .. Len(entries) : entries[i] = v

------------------------------------------------------------------------------
(* The inductive invariant behind them *)

\* As long as no destructor panicked, the list leads to every live value, also
\* in the middle of pop_all.
NoneLost ==
  ~ panicked => \A v \in live : \E i \in 1 .. Len(entries) : entries[i] = v

\* pop_all has the stack to itself, and took the list from it.
PopsAlone ==
  /\ phase = "popping" => reserved = {} /\ top = Nil
  /\ live \cap reserved = {}

ExitInv ==
  TypeOK /\ ListIsStack /\ PinGuarantee /\ RoomForOne /\ NoneLost /\ PopsAlone
==============================================================================

--------------------------------- MODULE Fill ---------------------------------
(***************************************************************************)
(* Fill of fill/src/fill.rs for the containers of VecBuffer: a vector (a   *)
(* TempVec is one by Deref), an option, the elements of a slice, and a     *)
(* vector in a Result.  A call polls an iterator of the caller item by     *)
(* item, and the iterator may end or panic whenever it is polled.          *)
(***************************************************************************)
EXTENDS VecBuffer

VARIABLE call  \* the call in progress, and how the last one returned

fillVars == <<vecs, heap, fate, call>>

\* A slice is filled by value or by swapping.
Modes == {"vec", "option", "slice", "swap", "result"}

NoCall == [mode |-> "none", on |-> "own", room |-> 0, taken |-> {}, cap |-> 0,
           running |-> FALSE, overflow |-> FALSE, unwound |-> FALSE]

On == vecs[call.on]

------------------------------------------------------------------------------
(* One call *)

\* Mutation: the elements that are there already are not counted.
RoomWhole(mode, v) ==
  IF mode \in {"vec", "option"} THEN v.cap ELSE Len(v.items)

\* What is passed to take, resp. the elements a slice iterator has left.
Room(mode, v) ==
  IF mode \in {"vec", "option"} THEN v.cap - Len(v.items) ELSE Len(v.items)

\* Err is a result that has no container any more.
Start(mode, o) ==
  /\ ~ call.running
  /\ vecs[o].there \/ mode = "result"
  /\ call' = [NoCall EXCEPT !.mode = mode, !.on = o, !.room = Room(mode, vecs[o]),
                            !.cap = vecs[o].cap, !.running = TRUE, !.overflow = TRUE]
  /\ UNCHANGED <<vecs, heap, fate>>

\* Is the iterator polled (once more)?  A result polls as long as it is Ok.
Polls ==
  /\ call.running
  /\ IF call.mode = "result" THEN On.there ELSE call.room > 0

\* The next place of a slice gets the item; what was there is dropped, or goes
\* to where the item was.
Replaces(item) ==
  LET place == Len(On.items) - call.room + 1
      old == On.items[place]
  IN  /\ vecs' = [vecs EXCEPT ![call.on].items[place] = item]
      /\ fate' = [fate EXCEPT ![item] = "held",
                              ![old] = IF call.mode = "swap" THEN "caller" ELSE "dropped"]
      /\ UNCHANGED heap

\* Mutation: the last place is kept free.
OffersShort(item) ==
  IF Room("vec", On) > 1 THEN Pushed(call.on, item)
  ELSE fate' = [fate EXCEPT ![item] = "dropped"] /\ UNCHANGED <<vecs, heap>>

\* The container in a result is filled from once(item), of which nothing is left.
Offers(item) ==
  IF Room("vec", On) > 0 THEN Pushed(call.on, item)
  ELSE fate' = [fate EXCEPT ![item] = "dropped"] /\ UNCHANGED <<vecs, heap>>

PollItem(item) ==
  /\ Polls
  /\ Takes(call.on, item)
  /\ call' = [call EXCEPT !.taken = @ \cup {item}, !.room = @ - 1]
  /\ \/ call.mode \in {"vec", "option"} /\ Pushed(call.on, item)
     \/ call.mode \in {"slice", "swap"} /\ Replaces(item)
     \/ call.mode = "result" /\ Offers(item)

\* Err(_) replaces the container of a result.
PollErr ==
  /\ Polls
  /\ call.mode = "result"
  /\ call' = [call EXCEPT !.running = FALSE]
  /\ Drop(call.on)

\* None: the overflow flag of checked_fill is cleared.
PollNone ==
  /\ Polls
  /\ call' = [call EXCEPT !.running = FALSE, !.overflow = FALSE]
  /\ UNCHANGED <<vecs, heap, fate>>

PollPanics ==
  /\ Polls
  /\ call' = [call EXCEPT !.running = FALSE, !.unwound = TRUE]
  /\ UNCHANGED <<vecs, heap, fate>>

Returns ==
  /\ call.running
  /\ ~ Polls
  /\ call' = [call EXCEPT !.running = FALSE]
  /\ UNCHANGED <<vecs, heap, fate>>

------------------------------------------------------------------------------
(* The program *)

Option(type) ==
  /\ ~ vecs["option"].there
  /\ vecs' = [vecs EXCEPT !["option"] = Vec(type, NoBlock, 1, <<>>)]
  /\ UNCHANGED <<heap, fate>>

FillInit == BufferInit /\ call = NoCall

Filling ==
  \/ \E o \in {"own", "temp"} : \E mode \in {"vec", "slice", "swap"} : Start(mode, o)
  \/ Start("option", "option")
  \/ Start("result", "own")
  \/ \E item \in Items : PollItem(item)
  \/ PollErr \/ PollNone \/ PollPanics \/ Returns

Other ==
  \/ UsesBuffer
  \/ UsesVec
  \/ \E type \in Types : Option(type)
  \/ Pop("option")

FillNext ==
  \/ Filling
  \/ ~ call.running /\ Other /\ call' = NoCall

FillSpec == FillInit /\ [][FillNext]_fillVars

------------------------------------------------------------------------------
(* Properties *)

\* "An option's capacity has been reached when it contains an item", a slice's
\* when every element is a new one; "a result is full if it contains an error, or
\* if the container in Ok is full".
IsFull ==
  IF call.mode \in {"slice", "swap"}
  THEN ToSet(On.items) = call.taken
  ELSE ~ On.there \/ Len(On.items) = On.cap

\* A result is the one container that is not well-behaved: it pulls until the
\* iterator ends, and an item goes nowhere when there is no room left for it, or
\* when an error replaces the container it is in.
LostByResult(item) ==
  /\ call.mode = "result"
  /\ fate[item] = "dropped"
  /\ On.there => Len(On.items) = On.cap

\* "The number of items pulled equals the number of items inserted": an item
\* that is pulled is in the container, unless a result that has no room loses it.
KeepsWhatItPulls ==
  call.mode # "none" =>
    \A item \in call.taken : item \in ToSet(On.items) \/ LostByResult(item)

\* "As far as possible without reallocating."
NeverReallocates == call.mode = "none" \/ On.cap = call.cap \/ ~ On.there

\* checked_fill "returns None if the iterator was exhausted before the container
\* could be filled completely": it returns the iterator only with a container
\* that is full, and that always, except that a result may exhaust the iterator
\* although it is full.
CheckedFillTells ==
  call.mode # "none" /\ ~ call.running /\ ~ call.unwound =>
    /\ call.overflow => IsFull
    /\ IsFull => call.overflow \/ call.mode = "result"

\* Wherever the iterator ends, fails or panics.
FillSound == KeepsWhatItPulls /\ NeverReallocates /\ CheckedFillTells
==============================================================================

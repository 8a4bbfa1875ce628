------------------------------- MODULE RcSpec -------------------------------
(***************************************************************************)
(* What the reference counted pointer of without-alloc promises, in terms  *)
(* of who points where and without any counter: the value lives as long as *)
(* an Rc points to it, and the memory, which the caller provided, goes     *)
(* back only to the one who holds the last pointer of either kind.         *)
(*                                                                         *)
(* Rc implements this with two counters stored behind the value.           *)
(***************************************************************************)
EXTENDS Integers

CONSTANT MaxHandles  \* bound: handles of each kind at a time

ASSUME RcAssumption == MaxHandles \in Nat \ {0}

VARIABLES
  mem,    \* "uninit": the caller's; "rc": behind handles; "raw": into_raw's
  value,  \* what became of the value put there last
  rcs,    \* how many Rc there are
  weaks,  \* how many Weak there are outside the value
  own     \* how many Weak are stored in the value itself

handles == <<rcs, weaks, own>>
owned == <<mem, value, handles>>

NoHandles == rcs = 0 /\ weaks = 0 /\ own = 0

------------------------------------------------------------------------------
(* Effects, shared with the implementation *)

\* Rc::new(val, memory).  The model holds one value: it does not follow what
\* becomes of memory that is filled again under a destructor, see NotUnderDrop.
Put ==
  /\ mem = "uninit"
  /\ value # "dying"
  /\ mem' = "rc"
  /\ value' = "live"
  /\ rcs' = 1
  /\ UNCHANGED <<weaks, own>>

AddRc ==
  /\ rcs < MaxHandles
  /\ rcs' = rcs + 1
  /\ UNCHANGED <<mem, value, weaks, own>>

AddWeak ==
  /\ weaks < MaxHandles
  /\ weaks' = weaks + 1
  /\ UNCHANGED <<mem, value, rcs, own>>

\* The last Rc is dropped: the value's destructor runs next.
Abandon ==
  /\ value' = "dying"
  /\ rcs' = rcs - 1
  /\ UNCHANGED <<mem, weaks, own>>

LoseRc == rcs' = rcs - 1 /\ UNCHANGED <<mem, value, weaks, own>>
LoseWeak == weaks' = weaks - 1 /\ UNCHANGED <<mem, value, rcs, own>>

\* The value is moved out together with the Weak in it, and the Rc turns into
\* one more Weak.
MoveOut ==
  /\ value' = "moved"
  /\ rcs' = 0
  /\ weaks' = weaks + own + 1
  /\ own' = 0
  /\ UNCHANGED mem

\* into_raw: the memory is given back with the value in it.
GiveRaw ==
  /\ mem' = "raw"
  /\ rcs' = 0
  /\ UNCHANGED <<value, weaks, own>>

\* Weak::try_unwrap: the memory is given back.
GiveMemory ==
  /\ mem' = "uninit"
  /\ weaks' = weaks - 1
  /\ UNCHANGED <<value, rcs, own>>

------------------------------------------------------------------------------
(* The environment: code outside rc.rs *)

\* A value with interior mutability can store a Weak to itself, and its code,
\* the destructor included, can take it out again.
StoreOwn ==
  /\ rcs > 0 \/ value = "dying"
  /\ weaks > 0
  /\ own < MaxHandles
  /\ weaks' = weaks - 1
  /\ own' = own + 1
  /\ UNCHANGED <<mem, value, rcs>>

TakeOwn ==
  /\ rcs > 0 \/ value = "dying"
  /\ own > 0
  /\ weaks < MaxHandles
  /\ weaks' = weaks + 1
  /\ own' = own - 1
  /\ UNCHANGED <<mem, value, rcs>>

\* Nobody points to the memory any more: its lifetime ends, and its owner can
\* use it again.
Reclaim ==
  /\ mem = "rc"
  /\ NoHandles
  /\ value # "dying"
  /\ mem' = "uninit"
  /\ UNCHANGED <<value, handles>>

------------------------------------------------------------------------------
(* The operations, by who points where *)

CloneRc == rcs > 0 /\ AddRc
Downgrade == rcs > 0 /\ AddWeak
CloneWeak == weaks > 0 /\ AddWeak
Upgrade == weaks > 0 /\ rcs > 0 /\ AddRc
DropWeak == weaks > 0 /\ LoseWeak
DropRc == rcs > 1 /\ LoseRc
DropLastRc == rcs = 1 /\ Abandon
TryUnwrap == rcs = 1 /\ weaks + own < MaxHandles /\ MoveOut
IntoRaw == rcs = 1 /\ weaks = 0 /\ own = 0 /\ GiveRaw
WeakTryUnwrap == rcs = 0 /\ weaks = 1 /\ own = 0 /\ GiveMemory

FromRaw ==
  /\ mem = "raw"
  /\ mem' = "rc"
  /\ rcs' = 1
  /\ UNCHANGED <<value, weaks, own>>

\* drop_in_place returns, having dropped the Weak that are still in the value.
DropEnds ==
  /\ value = "dying"
  /\ value' = "dropped"
  /\ own' = 0
  /\ UNCHANGED <<mem, rcs, weaks>>

OwnedInit ==
  /\ mem = "uninit"
  /\ value = "none"
  /\ rcs = 0
  /\ weaks = 0
  /\ own = 0

OwnedNext ==
  \/ Put \/ CloneRc \/ Downgrade \/ CloneWeak \/ Upgrade
  \/ DropWeak \/ DropRc \/ DropLastRc \/ DropEnds
  \/ TryUnwrap \/ IntoRaw \/ FromRaw \/ WeakTryUnwrap
  \/ StoreOwn \/ TakeOwn \/ Reclaim

OwnedSpec == OwnedInit /\ [][OwnedNext]_owned

------------------------------------------------------------------------------
(* Properties of the promise *)

OwnedTypeOK ==
  /\ mem \in {"uninit", "rc", "raw"}
  /\ value \in {"none", "live", "dying", "dropped", "moved"}
  /\ rcs \in Nat /\ weaks \in Nat /\ own \in Nat

\* An Rc always points to a value that is there, and memory that was given back
\* is pointed to by nobody.
SoleOwner ==
  /\ rcs > 0 => value = "live" /\ mem = "rc"
  /\ mem # "rc" => NoHandles
  /\ own > 0 => value \in {"live", "dying"}
==============================================================================

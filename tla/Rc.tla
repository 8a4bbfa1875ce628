--------------------------------- MODULE Rc ---------------------------------
(***************************************************************************)
(* without-alloc/src/rc.rs: Rc and Weak over memory of the caller.  RcBox  *)
(* keeps the value and behind it the counters strong and weak; all Rc to a *)
(* value count together as one weak.  The memory goes round: from new over *)
(* into_raw and from_raw, or over Weak::try_unwrap, to the next new.       *)
(*                                                                         *)
(* Rc is not Send: the only code that runs in the middle of one of these   *)
(* operations is the value's destructor, between DropRc and DropReturns.   *)
(***************************************************************************)
EXTENDS RcSpec

VARIABLES
  strong,  \* RcBox::strong
  weak     \* RcBox::weak

counters == <<strong, weak>>
rcVars == <<owned, counters>>

------------------------------------------------------------------------------
(* Making and sharing *)

NewRc == Put /\ strong' = 1 /\ weak' = 1

\* Clone for Rc
RcClone == rcs > 0 /\ AddRc /\ strong' = strong + 1 /\ UNCHANGED weak

RcDowngrade == rcs > 0 /\ AddWeak /\ weak' = weak + 1 /\ UNCHANGED strong

\* Clone for Weak
WeakClone == weaks > 0 /\ AddWeak /\ weak' = weak + 1 /\ UNCHANGED strong

\* Mutation: upgrades whatever the weak count vouches for.
UpgradeUnchecked ==
  /\ weaks > 0
  /\ weak # 0
  /\ AddRc
  /\ strong' = strong + 1
  /\ UNCHANGED weak

WeakUpgrade ==
  /\ weaks > 0
  /\ strong # 0
  /\ AddRc
  /\ strong' = strong + 1
  /\ UNCHANGED weak

------------------------------------------------------------------------------
(* Letting go *)

WeakDrop == weaks > 0 /\ LoseWeak /\ weak' = weak - 1 /\ UNCHANGED strong

\* Mutation: every Rc gives up the weak count they have in common.
DropEachWeak ==
  /\ rcs > 0
  /\ strong' = strong - 1
  /\ weak' = weak - 1
  /\ IF strong' = 0 THEN Abandon ELSE LoseRc

\* Drop for Rc, up to the call of drop_in_place.
RcDrop ==
  /\ rcs > 0
  /\ strong' = strong - 1
  /\ IF strong' = 0 THEN Abandon /\ weak' = weak - 1
                    ELSE LoseRc /\ UNCHANGED weak

\* Mutation: the Weak in the value are forgotten.
ReturnsForgetting ==
  /\ DropEnds
  /\ UNCHANGED counters

\* drop_in_place: what the destructor did is over, now the fields are dropped.
DropReturns ==
  /\ DropEnds
  /\ weak' = weak - own
  /\ UNCHANGED strong

------------------------------------------------------------------------------
(* Taking apart *)

\* Mutation: the strong count is left to the destructor that is forgotten.
UnwrapKeepingStrong ==
  /\ rcs > 0
  /\ strong = 1
  /\ weaks + own < MaxHandles
  /\ MoveOut
  /\ UNCHANGED counters

\* Rc::try_unwrap
RcTryUnwrap ==
  /\ rcs > 0
  /\ strong = 1
  /\ weaks + own < MaxHandles
  /\ MoveOut
  /\ strong' = strong - 1
  /\ UNCHANGED weak

\* Mutation: only counts owners of the value.
IsUniqueStrong == strong = 1

IsUnique == strong = 1 /\ weak = 1

\* The counters stay in the memory as they are, for from_raw to find.
RcIntoRaw == rcs > 0 /\ IsUnique /\ GiveRaw /\ UNCHANGED counters

RcFromRaw == FromRaw /\ UNCHANGED counters

IsUniqueToRcMemory == strong = 0 /\ weak = 1

\* Weak::try_unwrap, with the drop of self at its end.
WeakUnwrap ==
  /\ weaks > 0
  /\ IsUniqueToRcMemory
  /\ GiveMemory
  /\ weak' = weak - 1
  /\ UNCHANGED strong

------------------------------------------------------------------------------
\* Uninitialized memory holds anything; the counters are read only after new
\* has written them.
CountedInit == OwnedInit /\ strong = 0 /\ weak = 0

Environment == (StoreOwn \/ TakeOwn \/ Reclaim) /\ UNCHANGED counters

CountedNext ==
  \/ NewRc \/ RcClone \/ RcDowngrade \/ WeakClone \/ WeakUpgrade
  \/ WeakDrop \/ RcDrop \/ DropReturns
  \/ RcTryUnwrap \/ RcIntoRaw \/ RcFromRaw \/ WeakUnwrap
  \/ Environment

CountedSpec == CountedInit /\ [][CountedNext]_rcVars

------------------------------------------------------------------------------
(* Properties *)

RcTypeOK == OwnedTypeOK /\ strong \in Nat /\ weak \in Nat

\* The counters are never off: strong counts the Rc; weak counts the Weak,
\* those in the value included, and one more as long as there is an Rc.
CountsAccurate ==
  mem = "rc" => /\ strong = rcs
                /\ weak = weaks + own + IF rcs > 0 THEN 1 ELSE 0

\* into_raw leaves behind the value and the counters that from_raw relies on.
RawCounts == mem = "raw" => IsUnique /\ value = "live"

\* A value is dropped once, and not after it was moved out: its destructor
\* starts only for a value that is there, in memory nobody was given.
DropsLiveValue == [][value' = "dying" /\ value # "dying" => value = "live" /\ mem = "rc"]_rcVars

\* "neither Weak nor Rc still pointing at it": the memory is not given away
\* under a value whose Rc is still dropping it.
NotUnderDrop == mem = "uninit" => value # "dying"

RcInv == RcTypeOK /\ SoleOwner /\ CountsAccurate /\ RawCounts
==============================================================================

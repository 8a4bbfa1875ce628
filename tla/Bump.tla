-------------------------------- MODULE Bump --------------------------------
(***************************************************************************)
(* The sync bump allocator of static-alloc/src/bump.rs: Bump<T>, BumpSlice *)
(* and the BumpView both are used through.  Threads share the arena and an *)
(* atomic counter of consumed bytes.  try_alloc reads the counter, works   *)
(* out where the block would end and publishes that with one               *)
(* compare_exchange; losing the race means computing again from the value  *)
(* the exchange observed.                                                  *)
(*                                                                         *)
(* A thread's own steps between two accesses to the counter touch nothing  *)
(* shared and are merged with the access that follows them.                *)
(***************************************************************************)
EXTENDS BumpSpec

VARIABLES
  pc,     \* where each thread is in its call
  expect  \* the local expect_consumed of each thread, 0 while it has none

vars == <<promised, pc, expect>>

------------------------------------------------------------------------------
(* Calls *)

\* Where a call starts: try_alloc and level() load the counter, try_alloc_at
\* goes by the caller's Level, a realloc in place needs neither.
FirstStep(r) ==
  IF r.op = "alloc_at" THEN "attempt"
  ELSE IF r.op = "realloc" /\ ~ Claims(r) THEN "stay"
  ELSE "load"

Begin(t, r) ==
  /\ pc[t] = "idle"
  /\ Invoke(t, r)
  /\ pc' = [pc EXCEPT ![t] = FirstStep(r)]
  /\ expect' = [expect EXCEPT ![t] = IF r.op = "alloc_at" THEN r.level.at ELSE 0]

Finish(t) ==
  /\ pc' = [pc EXCEPT ![t] = "idle"]
  /\ expect' = [expect EXCEPT ![t] = 0]

\* try_alloc guesses the level.
Load(t) ==
  /\ pc[t] = "load"
  /\ Claims(req[t])
  /\ expect' = [expect EXCEPT ![t] = consumed]
  /\ pc' = [pc EXCEPT ![t] = "attempt"]
  /\ UNCHANGED promised

\* level(), and get or get_at of a zero-sized type, which is a load as well.
ReadLevel(t) ==
  /\ pc[t] = "load"
  /\ req[t].op \in {"level", "zst_at"}
  /\ ReturnWith(t, IF req[t].op = "zst_at" /\ req[t].level.at # consumed
                   THEN "mismatch" ELSE "ok")
  /\ Learning(t)
  /\ Finish(t)

------------------------------------------------------------------------------
(* try_alloc_at *)

\* Mutation: new_consumed < length.
AssertsStrictly(level, layout) ==
  /\ EndOf(level, layout) < Length
  /\ StartOf(level, layout) < Length

\* The assertions behind the exhaustion test, and those of bump().
AssertsPass(level, layout) ==
  /\ Padding(level, layout) < Length - level
  /\ EndOf(level, layout) <= Length
  /\ StartOf(level, layout) < Length
  /\ level <= EndOf(level, layout)

AssertFails(t) ==
  /\ pc[t] = "attempt"
  /\ \/ expect[t] > Length
     \/ /\ Fits(expect[t], req[t].layout)
        /\ ~ AssertsPass(expect[t], req[t].layout)
  /\ ReturnWith(t, "panic")
  /\ UNCHANGED held
  /\ Finish(t)

\* Decided from the expected level alone, however old it is.
Exhaust(t) ==
  /\ pc[t] = "attempt"
  /\ expect[t] <= Length
  /\ ~ Fits(expect[t], req[t].layout)
  /\ ReturnWith(t, "exhausted")
  /\ UNCHANGED held
  /\ Finish(t)

\* Mutation: neither tests for exhaustion nor asserts anything.
AttemptsUnchecked(t) == pc[t] = "attempt"

Attempts(t) ==
  /\ pc[t] = "attempt"
  /\ expect[t] <= Length
  /\ Fits(expect[t], req[t].layout)
  /\ AssertsPass(expect[t], req[t].layout)

\* Mutation: a store in place of the compare_exchange.
SwapBlindly(t) ==
  /\ Attempts(t)
  /\ GrantAt(t, expect[t])
  /\ Finish(t)

\* The compare_exchange succeeds.  A realloc then copies the old bytes into
\* the new block: this thread alone holds both, so no step is made of it.
Swap(t) ==
  /\ Attempts(t)
  /\ consumed = expect[t]
  /\ GrantAt(t, expect[t])
  /\ Finish(t)

\* Mutations: try_alloc takes a lost exchange for exhaustion; try_alloc_at goes
\* round as well; the level observed is not taken over.
RetryGivesUp(t) ==
  /\ Attempts(t)
  /\ consumed # expect[t]
  /\ Claims(req[t])
  /\ ReturnWith(t, "exhausted")
  /\ UNCHANGED held
  /\ Finish(t)

RetryAlways(t) ==
  /\ Attempts(t)
  /\ consumed # expect[t]
  /\ expect' = [expect EXCEPT ![t] = consumed]
  /\ UNCHANGED <<promised, pc>>

RetryUnchanged(t) ==
  /\ Attempts(t)
  /\ consumed # expect[t]
  /\ Claims(req[t])
  /\ UNCHANGED vars

\* It fails: try_alloc goes round again from the level it observed.
Retry(t) ==
  /\ Attempts(t)
  /\ consumed # expect[t]
  /\ Claims(req[t])
  /\ expect' = [expect EXCEPT ![t] = consumed]
  /\ UNCHANGED <<promised, pc>>

\* It fails: try_alloc_at reports the level it observed.
ReportMismatch(t) ==
  /\ Attempts(t)
  /\ consumed # expect[t]
  /\ req[t].op = "alloc_at"
  /\ ReturnWith(t, "mismatch")
  /\ Learning(t)
  /\ Finish(t)

------------------------------------------------------------------------------
(* The other calls *)

Stay(t) ==
  /\ pc[t] = "stay"
  /\ ReallocInPlace(t)
  /\ Finish(t)

GiveBack(t, b) ==
  /\ pc[t] = "idle"
  /\ Dealloc(t, b)
  /\ UNCHANGED <<pc, expect>>

ResetArena ==
  /\ \A t \in Threads : pc[t] = "idle"
  /\ Reset
  /\ UNCHANGED <<pc, expect>>

------------------------------------------------------------------------------
Init ==
  /\ AtomicInit
  /\ pc = [t \in Threads |-> "idle"]
  /\ expect = [t \in Threads |-> 0]

\* The steps a running call takes on its own.
Step(t) ==
  \/ Load(t) \/ ReadLevel(t)
  \/ AssertFails(t) \/ Exhaust(t) \/ Swap(t) \/ Retry(t) \/ ReportMismatch(t)
  \/ Stay(t)

Next ==
  \/ \E t \in Threads : \E r \in Callable(t) : Begin(t, r)
  \/ \E t \in Threads : Step(t)
  \/ \E t \in Threads : \E b \in blocks : GiveBack(t, b)
  \/ ResetArena

\* The scheduler runs every thread again and again; nothing obliges a caller
\* to make another call.
Fairness == \A t \in Threads : WF_vars(Step(t))

Spec == Init /\ [][Next]_vars
FairSpec == Spec /\ Fairness

------------------------------------------------------------------------------
(* Properties *)

TypeOK ==
  /\ PromiseTypeOK
  /\ pc \in [Threads -> {"idle", "load", "attempt", "stay"}]
  /\ expect \in [Threads -> Nat]

\* Every call returns.  try_alloc loops, but each lost exchange means that the
\* level rose, and it cannot rise for ever.
Terminates == \A t \in Threads : pc[t] # "idle" ~> pc[t] = "idle"

\* What the local state of a call says about the arena: a level try_alloc read
\* is at or below the current one, because nobody resets the arena meanwhile.
LocalSound(t) ==
  /\ pc[t] = "idle" <=> outcome[t] # "busy"
  /\ pc[t] = "load" => Claims(req[t]) \/ req[t].op \in {"level", "zst_at"}
  /\ pc[t] = "stay" => req[t].op = "realloc" /\ ~ Claims(req[t])
  /\ pc[t] = "attempt" =>
       \/ Claims(req[t]) /\ expect[t] <= consumed
       \/ req[t].op = "alloc_at" /\ expect[t] = req[t].level.at

LocalsSound == \A t \in Threads : LocalSound(t)

BumpInv == TypeOK /\ PromiseInv /\ LocalsSound
==============================================================================

------------------------------- MODULE MCReuse -------------------------------
(* The three components whose memory goes round, for one run of TLC: Rc and  *)
(* its memory, an arena in memory of the caller, and a lent allocation with  *)
(* fill.  They share no state, so that nothing is gained by interleaving     *)
(* them: of the three, only the one that moved first moves on.               *)
EXTENDS MCBuffers, MCUnsync, Rc

AllAtRest == CountedInit /\ Init /\ FillInit

RcMoves == CountedNext /\ UNCHANGED <<vars, fillVars>>
ArenaMoves == Next /\ UNCHANGED <<rcVars, fillVars>>
FillMoves == FillNext /\ UNCHANGED <<rcVars, vars>>

ReuseNext ==
  \/ Init /\ FillInit /\ RcMoves
  \/ CountedInit /\ FillInit /\ ArenaMoves
  \/ CountedInit /\ Init /\ FillMoves

ReuseSpec == AllAtRest /\ [][ReuseNext]_<<rcVars, vars, fillVars>>
==============================================================================

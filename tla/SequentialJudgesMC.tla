-------------------------- MODULE SequentialJudgesMC --------------------------
(***************************************************************************)
(* The two judges that run alone, in one run:  either the validator reads  *)
(* a stream of test events, with a -require flag of no, one, two or an     *)
(* empty name, or the state checker checks a sequence.  They share         *)
(* nothing, so no step of one is taken beside the other.                   *)
(***************************************************************************)
EXTENDS TestEvents, StateCheck

CONSTANTS p1, p2, t1, t2

MCLists == {Absent, <<t1>>, <<t1, t2>>, <<t1, "">>}

JudgesInit == EventsInit /\ Init

Validates == verdict # "opening"
Checks == position > 1 \/ pc # "next" \/ operations # <<>>

JudgesNext ==
  \/ ~Checks /\ EventsNext /\ UNCHANGED vars
  \/ ~Validates /\ Next /\ UNCHANGED eventsVars

JudgesSpec == JudgesInit /\ [][JudgesNext]_<<eventsVars, vars>>
===============================================================================

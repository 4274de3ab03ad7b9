-------------------------- MODULE MCWholeBodyMpcNode --------------------------
(* Goals that are accepted and canceled at any time: all of them with the   *)
(* executed command fed back, all but the last with the command sent as the *)
(* previous one. A behaviour is one or the other.                          *)
EXTENDS WholeBodyMpcNode, FiniteSets

VARIABLE feedback

GoalSet == 1..3
PairOfGoals == 1..2

Own == INSTANCE WholeBodyMpcNode WITH ExecutedFeedback <- FALSE

MCVars == <<vars, feedback>>
MCInit == Init /\ feedback \in BOOLEAN
MCNext ==
  \/ feedback /\ Next /\ UNCHANGED feedback
  \/ ~feedback /\ Own!Next /\ handle'[Cardinality(Goals)] = "unsent" /\ UNCHANGED feedback
MCSpec ==
  /\ MCInit /\ [][MCNext]_MCVars
  /\ WF_MCVars(~feedback /\ Own!Cycle /\ UNCHANGED feedback)
  /\ WF_MCVars(~feedback /\ Own!AbortSuperseded /\ UNCHANGED feedback)

(* With the controller's own previous command, waiting goals are taken,    *)
(* canceled, braking and stuck goals end, and ramps end.                   *)
OwnGoalsEnd == ~feedback => GoalsEnd
=============================================================================

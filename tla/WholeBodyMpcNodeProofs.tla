------------------------- MODULE WholeBodyMpcNodeProofs -------------------------
(***************************************************************************)
(* What the MPC node keeps between its goals, its base ramp, its arm and   *)
(* its shutdown, proved for any number of goals, every speed and braking   *)
(* limit and both kinds of feedback, on any controller that answers as     *)
(* ControllerContract allows.                                              *)
(***************************************************************************)
EXTENDS WholeBodyMpcNode, FiniteSetTheorems, SequenceTheorems, TLAPS

-----------------------------------------------------------------------------
(***************************************************************************)
(* The inductive invariant.                                                *)
(***************************************************************************)

\* Goals are accepted in order, the ones without a result are those the node
\* knows, and the three places where it knows one hold different goals.
HandleInv ==
  /\ \A g, h \in Goals : h < g /\ handle[g] # "unsent" => handle[h] # "unsent"
  /\ NoGoalForgotten
  /\ superseded # NoGoal => superseded # active

\* A cycle runs for an active goal before the shutdown, and commands a complete state.
CycleInv ==
  /\ pc # "timer" => active # NoGoal /\ ~shuttingDown
  /\ pc \in {"command", "outcome"} => complete

\* The base ramps only without a goal, from the command sent last, and is at rest
\* when it has neither goal nor ramp.
RampInv ==
  /\ active # NoGoal => ~rampActive
  /\ active = NoGoal => IF rampActive THEN ramp = cmd /\ cmd > 0 ELSE cmd = 0
  /\ ShutdownStops

\* An arm on a plan belongs to a goal that has streamed it and not held it since,
\* so ending that goal holds it; holds are sent only while the arm is not held.
ArmInv ==
  /\ arm = "plan" /\ ~gaveUp => active # NoGoal /\ goalStreamed /\ ~armHeld /\ complete
  /\ holds = IF armHeld THEN 1 ELSE 0

\* What the anchor of no_progress counts is at most one cycle behind the chain of
\* preempting goals, and an active goal is within the window.
StillInv ==
  /\ unmoved <= still + 1
  /\ active # NoGoal => still <= ProgressWindow

NodeInv == TypeOK /\ HandleInv /\ CycleInv /\ RampInv /\ ArmInv /\ StillInv

\* What the constants are.
LEMMA Parameters ==
  /\ VMax \in Nat /\ BrakeLimit \in Nat /\ RampBrake \in Nat /\ RampBrake > 0
  /\ DeadZone \in Nat /\ ProgressWindow \in Nat /\ ExecutedFeedback \in BOOLEAN
  /\ Goals \subseteq Nat \ {0}
  <1>1. Cardinality(Goals) \in Nat /\ Goals = 1..Cardinality(Goals)
    BY FS_CardinalityType, NodeConstants
  <1> QED
    BY <1>1, NodeConstants

-----------------------------------------------------------------------------
(***************************************************************************)
(* The controller's contract, and what ending a goal leaves.               *)
(***************************************************************************)

\* A slowed base is in the box, and no faster.
LEMMA SlowedInBox ==
  ASSUME NEW c \in Controller!Controllers, NEW moves \in BOOLEAN
  PROVE  Controller!Slowed(c, moves) \subseteq 0..VMax
  BY Parameters DEF Controller!Slowed, Controller!Controllers

\* Whatever the controller answers is one of its states.
LEMMA SteppedTyped ==
  ASSUME NEW c \in Controller!Controllers, NEW now \in BOOLEAN
  PROVE  Controller!Stepped(c, now, TRUE) \subseteq Controller!Controllers
  <1> USE DEF Controller!Modes, Controller!Statuses
  <1>0. /\ 0 \in 0..VMax /\ c.started \in BOOLEAN /\ c.mode \in Controller!Modes
        /\ c.blocked \in BOOLEAN
        /\ c = [started |-> c.started, mode |-> c.mode, holding |-> c.holding,
                blocked |-> c.blocked, cmd |-> c.cmd, status |-> c.status]
    BY Parameters DEF Controller!Controllers
  <1>a. ASSUME NEW m \in Controller!Modes, NEW st \in Controller!Statuses, NEW v \in 0..VMax,
               NEW h \in BOOLEAN
        PROVE  [c EXCEPT !.mode = m, !.status = st, !.cmd = v, !.holding = h]
                 \in Controller!Controllers
    BY DEF Controller!Controllers
  <1>b. ASSUME NEW st \in Controller!Statuses, NEW v \in 0..VMax, NEW h \in BOOLEAN
        PROVE  [c EXCEPT !.status = st, !.cmd = v, !.holding = h] \in Controller!Controllers
    BY DEF Controller!Controllers
  <1>1. ASSUME c.mode \in {"Failed", "GoalReached"}
        PROVE  Controller!Latched(c) \subseteq Controller!Controllers
    <2>1. c.mode \in Controller!Statuses /\ FALSE \in BOOLEAN
      BY <1>1
    <2>2. [c EXCEPT !.status = c.mode, !.cmd = 0, !.holding = FALSE] \in Controller!Controllers
      BY <1>0, <1>b, <2>1
    <2> QED
      BY <2>2 DEF Controller!Latched
  <1>2. Controller!Reached(c) \subseteq Controller!Controllers
    BY <1>0, <1>a DEF Controller!Reached
  <1>3. ASSUME NEW st \in {"StaleState", "Braking"}
        PROVE  Controller!Brakes(c, st, TRUE) \subseteq Controller!Controllers
    <2>1. ASSUME NEW v \in Controller!Slowed(c, TRUE)
          PROVE  [c EXCEPT !.mode = IF v = 0 THEN "Failed" ELSE "Braking",
                           !.status = IF v = 0 THEN "Failed" ELSE st,
                           !.cmd = v, !.holding = FALSE] \in Controller!Controllers
      BY <1>3, <1>a, <2>1, SlowedInBox
    <2> QED
      BY <2>1 DEF Controller!Brakes
  <1>4. Controller!Holds(c, TRUE) \subseteq Controller!Controllers
    <2>1. ASSUME NEW v \in Controller!Slowed(c, TRUE)
          PROVE  [c EXCEPT !.status = IF c.blocked THEN "Blocked" ELSE "Holding",
                           !.cmd = v, !.holding = TRUE] \in Controller!Controllers
      BY <1>b, <2>1, SlowedInBox
    <2> QED
      BY <2>1 DEF Controller!Holds
  <1>5. Controller!Executes(c) \subseteq Controller!Controllers
    <2>1. ASSUME NEW st \in {"Ok", "Fallback"}, NEW v \in 0..VMax
          PROVE  [c EXCEPT !.status = st, !.cmd = v, !.holding = FALSE]
                   \in Controller!Controllers
      BY <1>b, <2>1
    <2> DEFINE sts == IF c.blocked THEN {} ELSE IF c.holding THEN {"Ok"} ELSE {"Ok", "Fallback"}
               out(st, v) == [c EXCEPT !.status = st, !.cmd = v, !.holding = FALSE]
    <2>2. sts \subseteq {"Ok", "Fallback"}
      OBVIOUS
    <2>3. Controller!Executes(c) = {out(st, v) : st \in sts, v \in 0..VMax}
      BY DEF Controller!Executes
    <2>4. \A st \in {"Ok", "Fallback"}, v \in 0..VMax : out(st, v) \in Controller!Controllers
      BY <2>1
    <2> HIDE DEF sts, out
    <2> QED
      BY <2>2, <2>3, <2>4
  <1>6. CASE c.mode \in {"Failed", "GoalReached"}
    BY <1>1, <1>6 DEF Controller!Stepped
  <1>7. CASE c.mode \notin {"Failed", "GoalReached"} /\ ~now
    BY <1>3, <1>7 DEF Controller!Stepped
  <1>8. CASE c.mode = "Braking" /\ now
    BY <1>3, <1>8 DEF Controller!Stepped
  <1>9. CASE c.mode = "Tracking" /\ now
    BY <1>2, <1>3, <1>4, <1>5, <1>9 DEF Controller!Stepped
  <1> QED
    BY <1>6, <1>7, <1>8, <1>9 DEF Controller!Controllers

LEMMA LateTyped ==
  ASSUME NEW c \in Controller!Controllers
  PROVE  Controller!Late(c) \subseteq Controller!Controllers
  BY DEF Controller!Late, Controller!Controllers, Controller!Modes

LEMMA StartedTyped ==
  ASSUME NEW c \in Controller!Controllers
  PROVE  Controller!Started(c) \in Controller!Controllers
  BY DEF Controller!Started, Controller!Controllers, Controller!Modes

LEMMA BrakedInBox ==
  ASSUME NEW v \in 0..VMax, NEW k \in 1..2
  PROVE  Braked(v, k) \in 0..VMax
  <1>1. k = 1 \/ k = 2
    OBVIOUS
  <1>2. RampBrake * 1 = RampBrake /\ RampBrake * 2 = RampBrake + RampBrake
    BY Parameters
  <1> QED
    BY <1>1, <1>2, Parameters DEF Braked

\* Ending a goal leaves the base on a ramp from the command it just sent, or at rest;
\* the ends that do not ramp leave it at rest.
LEMMA StopBaseKept ==
  ASSUME TypeOK, NEW ramps \in BOOLEAN, NEW k \in 1..2, StopBase(ramps, k)
  PROVE  /\ cmd' \in 0..VMax /\ ramp' \in 0..VMax /\ rampActive' \in BOOLEAN
         /\ ctl' \in Controller!Controllers
         /\ IF rampActive' THEN ramp' = cmd' /\ cmd' > 0 ELSE cmd' = 0
         /\ ~ramps => cmd' = 0 /\ ~rampActive'
  <1> DEFINE v == IF ramps THEN Braked(cmd, k) ELSE 0
  <1>1. cmd \in 0..VMax /\ ramp \in 0..VMax /\ ctl \in Controller!Controllers
    BY DEF TypeOK
  <1>2. v \in 0..VMax
    BY <1>1, BrakedInBox, Parameters
  <1>3. /\ cmd' = v /\ ramp' = (IF ramps THEN v ELSE cmd)
        /\ rampActive' = (v # 0) /\ ctl' = [ctl EXCEPT !.cmd = v]
        /\ (~ramps => v = 0)
    BY DEF StopBase
  <1> HIDE DEF v
  <1>4. ctl' \in Controller!Controllers
    BY <1>1, <1>2, <1>3 DEF Controller!Controllers
  <1>5. CASE v = 0
    <2>1. rampActive' = FALSE /\ cmd' = 0
      BY <1>3, <1>5
    <2> QED
      BY <1>1, <1>2, <1>3, <1>4, <2>1
  <1>6. CASE v # 0
    <2>1. rampActive' = TRUE /\ ramps /\ v > 0
      BY <1>2, <1>3, <1>6, Parameters
    <2> QED
      BY <1>2, <1>3, <1>4, <2>1
  <1> QED
    BY <1>5, <1>6

\* Ending a goal holds an arm that is on its plan.
LEMMA EndGoalKept ==
  ASSUME NodeInv, NEW g \in Goals, NEW how \in Ended, NEW ramps \in BOOLEAN,
         NEW handles \in [Goals -> {"unsent"} \cup Live \cup Ended],
         EndGoal(g, how, handles, ramps)
  PROVE  /\ cmd' \in 0..VMax /\ ramp' \in 0..VMax /\ rampActive' \in BOOLEAN
         /\ ctl' \in Controller!Controllers
         /\ IF rampActive' THEN ramp' = cmd' /\ cmd' > 0 ELSE cmd' = 0
         /\ ~ramps => cmd' = 0 /\ ~rampActive'
         /\ arm' \in {"none", "plan", "hold"} /\ goalStreamed' \in BOOLEAN
         /\ armHeld' \in BOOLEAN /\ holds' \in Nat
         /\ arm' = "plan" => gaveUp
         /\ holds' = IF armHeld' THEN 1 ELSE 0
         /\ active' = NoGoal
         /\ handle' = [handles EXCEPT ![g] = how]
         /\ handle' \in [Goals -> {"unsent"} \cup Live \cup Ended]
  <1>1. StopBase(ramps, 1) /\ TypeOK
    BY DEF EndGoal, NodeInv
  <1>2. 1 \in 1..2
    OBVIOUS
  <1>3. /\ cmd' \in 0..VMax /\ ramp' \in 0..VMax /\ rampActive' \in BOOLEAN
        /\ ctl' \in Controller!Controllers
        /\ IF rampActive' THEN ramp' = cmd' /\ cmd' > 0 ELSE cmd' = 0
        /\ ~ramps => cmd' = 0 /\ ~rampActive'
    BY <1>1, <1>2, StopBaseKept
  <1>4. /\ arm' \in {"none", "plan", "hold"} /\ goalStreamed' \in BOOLEAN
        /\ armHeld' \in BOOLEAN /\ holds' \in Nat
        /\ arm' = "plan" => gaveUp
        /\ holds' = IF armHeld' THEN 1 ELSE 0
    <2>1. CASE goalStreamed /\ ~armHeld /\ complete
      BY <2>1 DEF EndGoal, HoldArm, NodeInv, TypeOK, ArmInv
    <2>2. CASE ~(goalStreamed /\ ~armHeld /\ complete)
      BY <2>2 DEF EndGoal, armVars, NodeInv, TypeOK, ArmInv
    <2> QED
      BY <2>1, <2>2
  <1>5. active' = NoGoal /\ handle' = [handles EXCEPT ![g] = how]
    BY DEF EndGoal
  <1>6. handle' \in [Goals -> {"unsent"} \cup Live \cup Ended]
    BY <1>5
  <1> QED
    BY <1>3, <1>4, <1>5, <1>6

-----------------------------------------------------------------------------
(***************************************************************************)
(* Init, and the io thread's actions.                                      *)
(***************************************************************************)

LEMMA InitInv == Init => NodeInv
  <1> SUFFICES ASSUME Init PROVE NodeInv
    OBVIOUS
  <1> USE Parameters DEF Init, NoGoal, NoAnchor
  <1>1. Controller!Created \in Controller!Controllers
    BY DEF Controller!Created, Controller!Controllers, Controller!Modes, Controller!Statuses
  <1>2. TypeOK
    <2>1. /\ 0 \in 0..VMax /\ 0 \in 0..(ProgressWindow + 2)
          /\ NoAnchor \in NoAnchor..(ProgressWindow + 1)
      OBVIOUS
    <2>2. handle \in [Goals -> {"unsent"} \cup Live \cup Ended]
      OBVIOUS
    <2> QED
      BY <1>1, <2>1, <2>2 DEF TypeOK
  <1>3. HandleInv
    BY DEF HandleInv, NoGoalForgotten, Live
  <1> QED
    BY <1>2, <1>3 DEF NodeInv, CycleInv, RampInv, ShutdownStops, ArmInv, StillInv

\* The steps that change goals only.
LEMMA IoKept ==
  ASSUME NodeInv,
         UNCHANGED <<active, pc, ctl, fresh, complete, progress, baseVars, armVars,
                     shuttingDown, gaveUp>>,
         handle' \in [Goals -> {"unsent"} \cup Live \cup Ended],
         pending' \in Goals \cup {NoGoal}, superseded' \in Goals \cup {NoGoal},
         HandleInv'
  PROVE  NodeInv'
  <1> USE DEF progress, baseVars, armVars
  <1>1. TypeOK'
    BY DEF NodeInv, TypeOK
  <1>2. CycleInv' /\ RampInv' /\ ArmInv' /\ StillInv'
    BY DEF NodeInv, CycleInv, RampInv, ShutdownStops, ArmInv, StillInv
  <1> QED
    BY <1>1, <1>2 DEF NodeInv

LEMMA AcceptInv ==
  ASSUME NodeInv, NEW g \in Goals, Accept(g)
  PROVE  NodeInv'
  <1> USE DEF NodeInv, TypeOK
  <1>1. /\ superseded = NoGoal /\ superseded' = pending /\ pending' = g /\ active' = active
        /\ handle' = [handle EXCEPT ![g] = "executing"] /\ handle[g] = "unsent"
        /\ \A h \in Goals : h < g => handle[h] # "unsent"
    BY DEF Accept
  <1>2. \A h \in Goals : handle[h] \in Live => h < g
    BY <1>1, Parameters DEF HandleInv, Live
  <1>3. \A h \in Goals : handle'[h] = IF h = g THEN "executing" ELSE handle[h]
    BY <1>1
  <1>4. \A k, h \in Goals : h < k /\ handle'[k] # "unsent" => handle'[h] # "unsent"
    BY <1>1, <1>3, Parameters DEF HandleInv
  <1>5. NoGoalForgotten'
    <2>1. ASSUME NEW h \in Goals, handle'[h] \in Live
          PROVE  h \in {pending', superseded', active'}
      <3>1. CASE h = g
        BY <1>1, <3>1
      <3>2. CASE h # g
        BY <1>1, <1>3, <2>1, <3>2, Parameters DEF HandleInv, NoGoalForgotten, NoGoal
      <3> QED
        BY <3>1, <3>2
    <2>2. \A h \in {pending', superseded', active'} \ {NoGoal} : h \in Goals /\ handle'[h] \in Live
      BY <1>1, <1>3 DEF HandleInv, NoGoalForgotten, Live
    <2>3. \A h \in {superseded', active'} : h < pending'
      BY <1>1, <1>2, Parameters DEF HandleInv, NoGoalForgotten, NoGoal
    <2> QED
      BY <2>1, <2>2, <2>3 DEF NoGoalForgotten
  <1>6. superseded' # NoGoal => superseded' # active'
    BY <1>1, Parameters DEF HandleInv, NoGoalForgotten, NoGoal
  <1>7. HandleInv'
    BY <1>4, <1>5, <1>6 DEF HandleInv
  <1>8. handle' \in [Goals -> {"unsent"} \cup Live \cup Ended]
    BY <1>1 DEF Live
  <1> QED
    BY <1>1, <1>7, <1>8, IoKept DEF Accept

LEMMA AbortSupersededInv == NodeInv /\ AbortSuperseded => NodeInv'
  <1> SUFFICES ASSUME NodeInv, AbortSuperseded PROVE NodeInv'
    OBVIOUS
  <1> USE DEF NodeInv, TypeOK
  <1>1. /\ superseded \in Goals /\ superseded' = NoGoal /\ pending' = pending /\ active' = active
        /\ handle' = [handle EXCEPT ![superseded] = "aborted"]
    BY DEF AbortSuperseded
  <1>2. superseded # pending /\ superseded # active /\ superseded # NoGoal
    BY <1>1, Parameters DEF AbortSuperseded, HandleInv, NoGoalForgotten, NoGoal
  <1>3. \A h \in Goals : handle'[h] = IF h = superseded THEN "aborted" ELSE handle[h]
    BY <1>1
  <1>4. \A k, h \in Goals : h < k /\ handle'[k] # "unsent" => handle'[h] # "unsent"
    <2>1. handle[superseded] # "unsent"
      BY <1>1, <1>2 DEF HandleInv, NoGoalForgotten, Live
    <2> QED
      BY <1>3, <2>1 DEF HandleInv
  <1>5. NoGoalForgotten'
    <2>1. ASSUME NEW h \in Goals, handle'[h] \in Live
          PROVE  h \in {pending', superseded', active'}
      <3>1. h # superseded /\ handle'[h] = handle[h]
        BY <1>3, <2>1 DEF Live
      <3>2. h \in {pending, superseded, active}
        BY <2>1, <3>1 DEF HandleInv, NoGoalForgotten
      <3> QED
        BY <1>1, <3>1, <3>2
    <2>2. \A h \in {pending', superseded', active'} \ {NoGoal} : handle'[h] \in Live
      BY <1>1, <1>2, <1>3 DEF HandleInv, NoGoalForgotten
    <2>3. pending' # NoGoal => \A h \in {superseded', active'} : h < pending'
      BY <1>1, Parameters DEF HandleInv, NoGoalForgotten, NoGoal
    <2> QED
      BY <2>1, <2>2, <2>3 DEF NoGoalForgotten
  <1>6. HandleInv'
    BY <1>1, <1>4, <1>5 DEF HandleInv
  <1>7. handle' \in [Goals -> {"unsent"} \cup Live \cup Ended]
    BY <1>1 DEF Ended
  <1> QED
    BY <1>1, <1>6, <1>7, IoKept DEF AbortSuperseded

LEMMA CancelInv ==
  ASSUME NodeInv, NEW g \in Goals, Cancel(g)
  PROVE  NodeInv'
  <1> USE DEF NodeInv, TypeOK
  <1>1. /\ superseded' = superseded /\ pending' = pending /\ active' = active
        /\ handle' = [handle EXCEPT ![g] = "canceling"] /\ handle[g] = "executing"
    BY DEF Cancel
  <1>2. \A h \in Goals : handle'[h] = IF h = g THEN "canceling" ELSE handle[h]
    BY <1>1
  <1>3. \A h \in Goals : /\ (handle'[h] \in Live) = (handle[h] \in Live)
                        /\ (handle'[h] = "unsent") = (handle[h] = "unsent")
    BY <1>1, <1>2 DEF Live
  <1>4. HandleInv'
    BY <1>1, <1>3 DEF HandleInv, NoGoalForgotten
  <1>5. handle' \in [Goals -> {"unsent"} \cup Live \cup Ended]
    BY <1>1 DEF Live
  <1> QED
    BY <1>1, <1>4, <1>5, IoKept DEF Cancel

-----------------------------------------------------------------------------
(***************************************************************************)
(* Goals that end.                                                         *)
(***************************************************************************)

\* Goals that have ended leave the places that held them, and only those do.
LEMMA EndedHandles ==
  ASSUME NodeInv,
         handle' \in [Goals -> {"unsent"} \cup Live \cup Ended],
         superseded' = superseded, pending' \in {pending, NoGoal},
         active' \in {active, pending, NoGoal},
         pending' # NoGoal => active' # pending',
         \A h \in Goals : handle'[h] # handle[h] => handle[h] \in Live /\ handle'[h] \in Ended,
         \A h \in Goals : h \in {pending', superseded', active'} => handle'[h] = handle[h],
         \A h \in Goals : h \in {pending, active} /\ h \notin {pending', active'}
                         => handle'[h] \in Ended
  PROVE  HandleInv'
  <1> USE DEF NodeInv, TypeOK
  <1>1. \A k, h \in Goals : h < k /\ handle'[k] # "unsent" => handle'[h] # "unsent"
    BY DEF HandleInv, Live, Ended
  <1>2. \A h \in Goals : handle'[h] \in Live => h \in {pending', superseded', active'}
    <2> SUFFICES ASSUME NEW h \in Goals, handle'[h] \in Live
                 PROVE  h \in {pending', superseded', active'}
      OBVIOUS
    <2>1. handle[h] \in Live /\ handle'[h] \notin Ended
      BY DEF Live, Ended
    <2>2. h \in {pending, superseded, active}
      BY <2>1 DEF HandleInv, NoGoalForgotten
    <2> QED
      BY <2>1, <2>2
  <1>3. \A h \in {pending', superseded', active'} \ {NoGoal} : h \in Goals /\ handle'[h] \in Live
    BY DEF HandleInv, NoGoalForgotten
  <1>4. pending' # NoGoal => \A h \in {superseded', active'} : h < pending'
    BY Parameters DEF HandleInv, NoGoalForgotten, NoGoal
  <1>5. superseded' # NoGoal => superseded' # active'
    BY Parameters DEF HandleInv, NoGoalForgotten, NoGoal
  <1> QED
    BY <1>1, <1>2, <1>3, <1>4, <1>5 DEF HandleInv, NoGoalForgotten

\* What the places hold: goals that are live, and different ones.
LEMMA Places ==
  ASSUME NodeInv
  PROVE  /\ NoGoal \notin Goals
         /\ pending # NoGoal => /\ pending \in Goals /\ handle[pending] \in Live
                                /\ pending # active /\ pending # superseded
         /\ active # NoGoal => active \in Goals /\ handle[active] \in Live /\ active # superseded
         /\ "aborted" \in Ended /\ "canceled" \in Ended /\ "succeeded" \in Ended
  BY Parameters DEF NodeInv, TypeOK, HandleInv, NoGoalForgotten, NoGoal, Ended

\* The active goal ends in the cycle's thread.
LEMMA ActiveEnded ==
  ASSUME NodeInv, NEW how \in Ended, NEW ramps \in BOOLEAN,
         active # NoGoal, ~shuttingDown,
         EndGoal(active, how, handle, ramps),
         pc' = "timer", UNCHANGED <<pending, superseded, shuttingDown, gaveUp>>,
         fresh' \in BOOLEAN, complete' \in BOOLEAN,
         detector' \in {"Clear", "Blocked", "Failed"},
         still' \in NoAnchor..(ProgressWindow + 1),
         unmoved' \in 0..(ProgressWindow + 2), unmoved' <= still' + 1
  PROVE  NodeInv'
  <1>1. active \in Goals /\ handle \in [Goals -> {"unsent"} \cup Live \cup Ended]
    BY Places DEF NodeInv, TypeOK
  <1>2. /\ cmd' \in 0..VMax /\ ramp' \in 0..VMax /\ rampActive' \in BOOLEAN
        /\ ctl' \in Controller!Controllers
        /\ IF rampActive' THEN ramp' = cmd' /\ cmd' > 0 ELSE cmd' = 0
        /\ arm' \in {"none", "plan", "hold"} /\ goalStreamed' \in BOOLEAN
        /\ armHeld' \in BOOLEAN /\ holds' \in Nat
        /\ arm' = "plan" => gaveUp
        /\ holds' = IF armHeld' THEN 1 ELSE 0
        /\ active' = NoGoal
        /\ handle' = [handle EXCEPT ![active] = how]
        /\ handle' \in [Goals -> {"unsent"} \cup Live \cup Ended]
    BY <1>1, EndGoalKept
  <1>3. TypeOK'
    BY <1>2 DEF NodeInv, TypeOK
  <1>4. HandleInv'
    <2>1. \A h \in Goals : handle'[h] = IF h = active THEN how ELSE handle[h]
      BY <1>1, <1>2
    <2>2. \A h \in Goals : handle'[h] # handle[h] => handle[h] \in Live /\ handle'[h] \in Ended
      BY <2>1, Places
    <2>3. pending' = pending /\ superseded' = superseded /\ active' = NoGoal
      BY <1>1, <1>2
    <2>4. \A h \in Goals : h \in {pending', superseded', active'} => handle'[h] = handle[h]
      BY <2>1, <2>3, Places
    <2>5. \A h \in Goals : h \in {pending, active} /\ h \notin {pending', active'}
                          => handle'[h] \in Ended
      BY <2>1, <2>3, Places
    <2>6. pending' # NoGoal => active' # pending'
      BY <2>3
    <2> QED
      BY <1>2, <2>2, <2>3, <2>4, <2>5, <2>6, EndedHandles
  <1>5. CycleInv' /\ RampInv' /\ ArmInv' /\ StillInv'
    BY <1>2 DEF CycleInv, RampInv, ShutdownStops, ArmInv, StillInv
  <1> QED
    BY <1>3, <1>4, <1>5 DEF NodeInv

\* A goal whose end throws is dropped: the node has given up on the arm.
LEMMA DropGoalKept ==
  ASSUME NodeInv, NEW ramps \in BOOLEAN, active # NoGoal,
         NEW handles \in [Goals -> {"unsent"} \cup Live \cup Ended],
         DropGoal(handles, ramps)
  PROVE  /\ cmd' \in 0..VMax /\ ramp' \in 0..VMax /\ rampActive' \in BOOLEAN
         /\ ctl' \in Controller!Controllers
         /\ IF rampActive' THEN ramp' = cmd' /\ cmd' > 0 ELSE cmd' = 0
         /\ ~ramps => cmd' = 0 /\ ~rampActive'
         /\ gaveUp' = TRUE /\ active' = NoGoal /\ UNCHANGED armVars
         /\ handle' = [handles EXCEPT ![active] = "canceled"]
  <1>1. PICK k \in 1..2 : StopBase(ramps, k)
    BY DEF DropGoal
  <1>2. /\ cmd' \in 0..VMax /\ ramp' \in 0..VMax /\ rampActive' \in BOOLEAN
        /\ ctl' \in Controller!Controllers
        /\ IF rampActive' THEN ramp' = cmd' /\ cmd' > 0 ELSE cmd' = 0
        /\ ~ramps => cmd' = 0 /\ ~rampActive'
    BY <1>1, StopBaseKept DEF NodeInv
  <1> QED
    BY <1>2 DEF DropGoal

-----------------------------------------------------------------------------
(***************************************************************************)
(* The control cycle and the shutdown.                                     *)
(***************************************************************************)

LEMMA TickRampInv == NodeInv /\ TickRamp => NodeInv'
  <1> SUFFICES ASSUME NodeInv, TickRamp PROVE NodeInv'
    OBVIOUS
  <1>1. PICK k \in 1..2 : ramp' = Braked(ramp, k) /\ cmd' = ramp' /\ rampActive' = (ramp' # 0)
    BY DEF TickRamp
  <1>2. ramp' \in 0..VMax
    BY <1>1, BrakedInBox DEF NodeInv, TypeOK
  <1>3. rampActive' \in BOOLEAN /\ IF rampActive' THEN ramp' = cmd' /\ cmd' > 0 ELSE cmd' = 0
    <2>1. CASE ramp' = 0
      BY <1>1, <2>1
    <2>2. CASE ramp' # 0
      <3>1. ramp' > 0
        BY <1>2, <2>2, Parameters
      <3>2. rampActive' = TRUE
        BY <1>1, <2>2
      <3> QED
        BY <1>1, <3>1, <3>2
    <2> QED
      BY <2>1, <2>2
  <1>4. TypeOK'
    BY <1>1, <1>2, <1>3 DEF TickRamp, NodeInv, TypeOK, goalVars, progress, armVars
  <1>5. HandleInv'
    BY DEF TickRamp, NodeInv, HandleInv, NoGoalForgotten, goalVars
  <1>6. CycleInv' /\ RampInv' /\ ArmInv' /\ StillInv'
    BY <1>3 DEF TickRamp, NodeInv, CycleInv, RampInv, ShutdownStops, ArmInv, StillInv,
                goalVars, progress, armVars
  <1> QED
    BY <1>4, <1>5, <1>6 DEF NodeInv

LEMMA NextCycleInv == NodeInv /\ NextCycle => NodeInv'
  <1> SUFFICES ASSUME NodeInv, NextCycle PROVE NodeInv'
    OBVIOUS
  <1> USE DEF NextCycle, NodeInv, goalVars, progress, baseVars, armVars
  <1>1. TypeOK'
    BY DEF TypeOK
  <1>2. HandleInv'
    BY DEF HandleInv, NoGoalForgotten
  <1>3. CycleInv' /\ RampInv' /\ ArmInv' /\ StillInv'
    BY DEF CycleInv, RampInv, ShutdownStops, ArmInv, StillInv
  <1> QED
    BY <1>1, <1>2, <1>3

LEMMA SenseEndsInv ==
  ASSUME NodeInv, SenseCanceled \/ SenseIncomplete \/ CycleThrows
  PROVE  NodeInv'
  <1>1. PICK how \in Ended : EndGoal(active, how, handle, TRUE)
    BY Places DEF SenseCanceled, SenseIncomplete, CycleThrows
  <1>2. /\ active # NoGoal /\ ~shuttingDown /\ pc' = "timer"
        /\ UNCHANGED <<pending, superseded, fresh, complete, progress, shuttingDown, gaveUp>>
    BY DEF SenseCanceled, SenseIncomplete, CycleThrows, NodeInv, CycleInv
  <1>3. /\ fresh' \in BOOLEAN /\ complete' \in BOOLEAN
        /\ detector' \in {"Clear", "Blocked", "Failed"}
        /\ still' \in NoAnchor..(ProgressWindow + 1)
        /\ unmoved' \in 0..(ProgressWindow + 2) /\ unmoved' <= still' + 1
    BY <1>2 DEF NodeInv, TypeOK, StillInv, progress
  <1> QED
    BY <1>1, <1>2, <1>3, ActiveEnded

LEMMA EndGoalThrowsInv == NodeInv /\ EndGoalThrows => NodeInv'
  <1> SUFFICES ASSUME NodeInv, EndGoalThrows PROVE NodeInv'
    OBVIOUS
  <1>1. /\ active # NoGoal /\ ~shuttingDown /\ pc' = "timer" /\ DropGoal(handle, TRUE)
        /\ UNCHANGED <<pending, superseded, fresh, complete, progress, shuttingDown>>
    BY DEF EndGoalThrows, NodeInv, CycleInv
  <1>2. active \in Goals /\ handle \in [Goals -> {"unsent"} \cup Live \cup Ended]
    BY <1>1, Places DEF NodeInv, TypeOK
  <1>3. /\ cmd' \in 0..VMax /\ ramp' \in 0..VMax /\ rampActive' \in BOOLEAN
        /\ ctl' \in Controller!Controllers
        /\ IF rampActive' THEN ramp' = cmd' /\ cmd' > 0 ELSE cmd' = 0
        /\ gaveUp' = TRUE /\ active' = NoGoal /\ UNCHANGED armVars
        /\ handle' = [handle EXCEPT ![active] = "canceled"]
    BY <1>1, <1>2, DropGoalKept
  <1>4. handle' \in [Goals -> {"unsent"} \cup Live \cup Ended]
    BY <1>2, <1>3, Places
  <1>5. TypeOK'
    BY <1>1, <1>3, <1>4 DEF NodeInv, TypeOK, progress, armVars
  <1>6. HandleInv'
    <2>1. \A h \in Goals : handle'[h] = IF h = active THEN "canceled" ELSE handle[h]
      BY <1>1, <1>2, <1>3
    <2>2. \A h \in Goals : handle'[h] # handle[h] => handle[h] \in Live /\ handle'[h] \in Ended
      BY <2>1, Places, <1>1
    <2>3. pending' = pending /\ superseded' = superseded /\ active' = NoGoal
      BY <1>1, <1>2, <1>3, <1>4
    <2>4. \A h \in Goals : h \in {pending', superseded', active'} => handle'[h] = handle[h]
      BY <2>1, <2>3, Places
    <2>5. \A h \in Goals : h \in {pending, active} /\ h \notin {pending', active'}
                          => handle'[h] \in Ended
      BY <2>1, <2>3, Places, <1>1
    <2>6. pending' # NoGoal => active' # pending'
      BY <2>3
    <2> QED
      BY <1>2, <1>4, <2>2, <2>3, <2>4, <2>5, <2>6, EndedHandles
  <1>7. CycleInv' /\ RampInv' /\ ArmInv' /\ StillInv'
    BY <1>1, <1>3 DEF NodeInv, CycleInv, RampInv, ShutdownStops, ArmInv, StillInv, progress, armVars
  <1> QED
    BY <1>5, <1>6, <1>7 DEF NodeInv

LEMMA SenseStateInv ==
  ASSUME NodeInv, NEW now \in BOOLEAN, SenseState(now)
  PROVE  NodeInv'
  <1>1. /\ active # NoGoal /\ ~shuttingDown /\ complete' = TRUE /\ fresh' = now
        /\ UNCHANGED <<pending, superseded, still, unmoved, shuttingDown, gaveUp>>
    BY DEF SenseState, NodeInv, CycleInv
  <1>2. detector' \in {"Clear", "Blocked", "Failed"}
    <2>1. detector' \in DetectorNext /\ detector \in {"Clear", "Blocked", "Failed"}
      BY DEF SenseState, NodeInv, TypeOK
    <2> QED
      BY <2>1 DEF DetectorNext
  <1>3. CASE detector' = "Failed"
    <2>1. EndGoal(active, "aborted", handle, TRUE) /\ pc' = "timer"
      BY <1>3 DEF SenseState
    <2>2. /\ fresh' \in BOOLEAN /\ complete' \in BOOLEAN
          /\ still' \in NoAnchor..(ProgressWindow + 1)
          /\ unmoved' \in 0..(ProgressWindow + 2) /\ unmoved' <= still' + 1
      BY <1>1 DEF NodeInv, TypeOK, StillInv
    <2> QED
      BY <1>1, <1>2, <2>1, <2>2, Places, ActiveEnded
  <1>4. CASE detector' # "Failed"
    <2>1. PICK v \in Previous :
            ctl' = [ctl EXCEPT !.blocked = (detector' = "Blocked"), !.cmd = v]
      BY <1>4 DEF SenseState
    <2>2. pc' = "command" /\ UNCHANGED <<handle, active, baseVars, armVars>>
      BY <1>4 DEF SenseState
    <2>3. v \in 0..VMax
      BY DEF Previous, NodeInv, TypeOK, Controller!Controllers
    <2>4. ctl' \in Controller!Controllers
      BY <2>1, <2>3 DEF NodeInv, TypeOK, Controller!Controllers
    <2>5. TypeOK'
      BY <1>1, <1>2, <2>2, <2>4 DEF NodeInv, TypeOK, baseVars, armVars
    <2>6. HandleInv'
      BY <1>1, <2>2 DEF NodeInv, HandleInv, NoGoalForgotten
    <2>7. CycleInv' /\ RampInv' /\ ArmInv' /\ StillInv'
      BY <1>1, <2>2 DEF NodeInv, CycleInv, RampInv, ShutdownStops, ArmInv, StillInv,
                        baseVars, armVars
    <2> QED
      BY <2>5, <2>6, <2>7 DEF NodeInv
  <1> QED
    BY <1>3, <1>4

LEMMA CommandInv == NodeInv /\ Command => NodeInv'
  <1> SUFFICES ASSUME NodeInv, Command PROVE NodeInv'
    OBVIOUS
  <1>1. /\ active # NoGoal /\ ~shuttingDown /\ complete /\ pc' = "outcome" /\ cmd' = ctl'.cmd
        /\ UNCHANGED <<goalVars, superseded, fresh, complete, progress, ramp, rampActive,
                      shuttingDown, gaveUp>>
    BY DEF Command, NodeInv, CycleInv
  <1>2. ctl' \in Controller!Controllers
    <2>1. ctl' \in Controller!Stepped(ctl, fresh, TRUE)
      BY DEF Command
    <2>2. ctl \in Controller!Controllers /\ fresh \in BOOLEAN
      BY DEF NodeInv, TypeOK
    <2> QED
      BY <2>1, <2>2, SteppedTyped
  <1>3. cmd' \in 0..VMax
    BY <1>1, <1>2 DEF Controller!Controllers
  <1>4. /\ arm' \in {"none", "plan", "hold"} /\ goalStreamed' \in BOOLEAN
        /\ armHeld' \in BOOLEAN /\ holds' \in Nat
        /\ arm' = "plan" /\ ~gaveUp => goalStreamed' /\ ~armHeld'
        /\ holds' = IF armHeld' THEN 1 ELSE 0
    <2>1. CASE ctl'.status \in {"Ok", "Fallback"}
      <3>1. arm' = "plan" /\ goalStreamed' = TRUE /\ armHeld' = FALSE /\ holds' = 0
        BY <2>1 DEF Command
      <3> QED
        BY <3>1
    <2>2. CASE /\ ctl'.status \in {"Braking", "StaleState", "Holding", "Blocked"}
               /\ ~armHeld
      <3>1. HoldArm
        BY <2>2 DEF Command
      <3> QED
        BY <2>2, <3>1 DEF HoldArm, NodeInv, TypeOK, ArmInv
    <2>3. CASE /\ ctl'.status \notin {"Ok", "Fallback"}
               /\ ~(/\ ctl'.status \in {"Braking", "StaleState", "Holding", "Blocked"}
                    /\ ~armHeld)
      <3>1. UNCHANGED armVars
        BY <2>3 DEF Command
      <3> QED
        BY <3>1 DEF armVars, NodeInv, TypeOK, ArmInv
    <2> QED
      BY <2>1, <2>2, <2>3
  <1>5. TypeOK'
    BY <1>1, <1>2, <1>3, <1>4 DEF NodeInv, TypeOK, goalVars, progress
  <1>6. HandleInv'
    BY <1>1 DEF NodeInv, HandleInv, NoGoalForgotten, goalVars
  <1>7. CycleInv' /\ RampInv' /\ ArmInv' /\ StillInv'
    BY <1>1, <1>4 DEF NodeInv, CycleInv, RampInv, ShutdownStops, ArmInv, StillInv,
                      goalVars, progress
  <1> QED
    BY <1>5, <1>6, <1>7 DEF NodeInv

\* no_progress counts a cycle at a time from within the window.
LEMMA ProgressKept ==
  ASSUME NodeInv, active # NoGoal, NEW moved \in BOOLEAN, Progress(moved)
  PROVE  /\ still' \in 0..(ProgressWindow + 1)
         /\ unmoved' \in 0..(ProgressWindow + 2) /\ unmoved' <= still' + 1
  <1>1. /\ still \in -1..ProgressWindow /\ unmoved \in Nat /\ unmoved <= still + 1
    BY Parameters DEF NodeInv, TypeOK, StillInv, NoAnchor
  <1>2. /\ still' = IF moved \/ still = -1 THEN 0 ELSE still + 1
        /\ unmoved' = IF moved THEN 0 ELSE unmoved + 1
    BY DEF Progress, NoAnchor
  <1> QED
    BY <1>1, <1>2, Parameters

LEMMA OutcomeInv == NodeInv /\ Outcome => NodeInv'
  <1> SUFFICES ASSUME NodeInv, Outcome PROVE NodeInv'
    OBVIOUS
  <1>1. /\ active # NoGoal /\ ~shuttingDown /\ pc' = "timer" /\ complete
        /\ UNCHANGED <<pending, superseded, fresh, complete, detector, shuttingDown, gaveUp>>
    BY DEF Outcome, NodeInv, CycleInv
  <1>2. /\ fresh' \in BOOLEAN /\ complete' \in BOOLEAN
        /\ detector' \in {"Clear", "Blocked", "Failed"}
    BY <1>1 DEF NodeInv, TypeOK
  <1>3. CASE ctl.status \in {"GoalReached", "Failed"}
    <2>1. PICK how \in Ended, ramps \in BOOLEAN : EndGoal(active, how, handle, ramps)
      BY <1>3 DEF Outcome, Ended
    <2>2. UNCHANGED <<still, unmoved>>
      BY <1>3 DEF Outcome
    <2>3. /\ still' \in NoAnchor..(ProgressWindow + 1)
          /\ unmoved' \in 0..(ProgressWindow + 2) /\ unmoved' <= still' + 1
      BY <2>2 DEF NodeInv, TypeOK, StillInv
    <2> QED
      BY <1>1, <1>2, <2>1, <2>3, ActiveEnded
  <1>4. CASE ctl.status \notin {"GoalReached", "Failed"}
    <2>1. PICK moved \in BOOLEAN : Progress(moved)
      BY <1>4 DEF Outcome
    <2>2. /\ still' \in 0..(ProgressWindow + 1)
          /\ unmoved' \in 0..(ProgressWindow + 2) /\ unmoved' <= still' + 1
      BY <1>1, <2>1, ProgressKept
    <2>3. still' \in NoAnchor..(ProgressWindow + 1)
      BY <2>2, Parameters DEF NoAnchor
    <2>4. CASE still' > ProgressWindow
      <3>1. EndGoal(active, "aborted", handle, TRUE)
        BY <1>4, <2>4 DEF Outcome
      <3> QED
        BY <1>1, <1>2, <2>2, <2>3, <3>1, Places, ActiveEnded
    <2>5. CASE ~(still' > ProgressWindow)
      <3>1. ctl' \in Controller!Late(ctl) /\ UNCHANGED <<handle, active, baseVars, armVars>>
        BY <1>4, <2>5 DEF Outcome
      <3>2. ctl' \in Controller!Controllers
        BY <3>1, LateTyped DEF NodeInv, TypeOK
      <3>3. TypeOK'
        BY <1>1, <1>2, <2>2, <2>3, <3>1, <3>2 DEF NodeInv, TypeOK, baseVars, armVars
      <3>4. HandleInv'
        BY <1>1, <3>1 DEF NodeInv, HandleInv, NoGoalForgotten
      <3>5. still' <= ProgressWindow
        BY <2>2, <2>5, Parameters
      <3>6. CycleInv' /\ RampInv' /\ ArmInv' /\ StillInv'
        BY <1>1, <2>2, <3>1, <3>5 DEF NodeInv, CycleInv, RampInv, ShutdownStops, ArmInv,
                                      StillInv, baseVars, armVars
      <3> QED
        BY <3>3, <3>4, <3>6 DEF NodeInv
    <2> QED
      BY <2>4, <2>5
  <1> QED
    BY <1>3, <1>4

LEMMA TakeGoalInv ==
  ASSUME NodeInv, NEW valid \in BOOLEAN, TakeGoal(valid)
  PROVE  NodeInv'
  <1> DEFINE g == pending
             preempt == active # NoGoal
             handles == IF preempt THEN [handle EXCEPT ![active] = "aborted"] ELSE handle
             started == IF preempt THEN ctl ELSE Controller!Started(ctl)
  <1>1. /\ pc = "timer" /\ ~shuttingDown /\ pending # NoGoal /\ pending' = NoGoal
        /\ UNCHANGED <<superseded, fresh, complete, shuttingDown, gaveUp>>
    BY DEF TakeGoal
  <1>2. /\ g \in Goals /\ handle[g] \in Live /\ g # active /\ g # superseded
        /\ (preempt => active \in Goals /\ handle[active] \in Live /\ active # superseded)
        /\ NoGoal \notin Goals /\ "aborted" \in Ended
    BY <1>1, Places
  <1>3. /\ handles \in [Goals -> {"unsent"} \cup Live \cup Ended]
        /\ \A h \in Goals : handles[h] = IF preempt /\ h = active THEN "aborted" ELSE handle[h]
    BY <1>2 DEF NodeInv, TypeOK
  <1>4. CASE valid
    <2>1. /\ handle' = handles /\ active' = g /\ pc' = "sense" /\ rampActive' = FALSE
          /\ UNCHANGED <<cmd, ramp>> /\ ResetForGoal(preempt)
          /\ ctl' = IF rampActive THEN [started EXCEPT !.cmd = ramp] ELSE started
      BY <1>4 DEF TakeGoal
    <2>2. ctl' \in Controller!Controllers
      <3>1. started \in Controller!Controllers /\ ramp \in 0..VMax
        BY StartedTyped DEF NodeInv, TypeOK
      <3> HIDE DEF started
      <3> QED
        BY <2>1, <3>1 DEF Controller!Controllers
    <2>3. /\ detector' \in {"Clear", "Blocked", "Failed"}
          /\ still' \in NoAnchor..ProgressWindow
          /\ unmoved' \in 0..(ProgressWindow + 2) /\ unmoved' <= still' + 1
          /\ arm' = arm /\ goalStreamed' \in BOOLEAN /\ armHeld' \in BOOLEAN /\ holds' \in Nat
          /\ arm' = "plan" /\ ~gaveUp => goalStreamed' /\ ~armHeld' /\ complete
          /\ holds' = IF armHeld' THEN 1 ELSE 0
      <3>1. CASE preempt
        <4>1. UNCHANGED <<progress, armVars>>
          BY <2>1, <3>1 DEF ResetForGoal
        <4>2. still' \in NoAnchor..ProgressWindow
          BY <3>1, <4>1, Parameters DEF NodeInv, TypeOK, StillInv, progress, NoAnchor
        <4> QED
          BY <4>1, <4>2 DEF NodeInv, TypeOK, StillInv, ArmInv, progress, armVars
      <3>2. CASE ~preempt
        <4>1. /\ detector' = "Clear" /\ still' = NoAnchor /\ unmoved' = 0
              /\ armHeld' = FALSE /\ goalStreamed' = FALSE /\ holds' = 0 /\ arm' = arm
          BY <2>1, <3>2 DEF ResetForGoal
        <4>2. arm = "plan" => gaveUp
          BY <3>2 DEF NodeInv, ArmInv
        <4>3. NoAnchor \in NoAnchor..ProgressWindow /\ 0 \in 0..(ProgressWindow + 2)
              /\ 0 <= NoAnchor + 1
          BY Parameters DEF NoAnchor
        <4> QED
          BY <4>1, <4>2, <4>3
      <3> QED
        BY <3>1, <3>2
    <2>4. still' \in NoAnchor..(ProgressWindow + 1) /\ still' <= ProgressWindow
      BY <2>3, Parameters DEF NoAnchor
    <2>5. TypeOK'
      BY <1>1, <1>2, <1>3, <2>1, <2>2, <2>3, <2>4 DEF NodeInv, TypeOK
    <2>6. HandleInv'
      <3>1. \A h \in Goals : handle'[h] # handle[h] => handle[h] \in Live /\ handle'[h] \in Ended
        BY <1>2, <1>3, <2>1
      <3>2. \A h \in Goals : h \in {pending', superseded', active'} => handle'[h] = handle[h]
        BY <1>1, <1>2, <1>3, <2>1
      <3>3. \A h \in Goals : h \in {pending, active} /\ h \notin {pending', active'}
                            => handle'[h] \in Ended
        BY <1>1, <1>2, <1>3, <2>1
      <3>4. handle' \in [Goals -> {"unsent"} \cup Live \cup Ended]
        BY <1>3, <2>1
      <3>5. superseded' = superseded /\ pending' = NoGoal /\ active' = pending
        BY <1>1, <2>1
      <3> QED
        BY <3>1, <3>2, <3>3, <3>4, <3>5, EndedHandles
    <2>7. CycleInv' /\ RampInv' /\ ArmInv' /\ StillInv'
      <3>1. active' # NoGoal /\ ~shuttingDown' /\ complete' = complete /\ gaveUp' = gaveUp
        BY <1>1, <1>2, <2>1
      <3> QED
        BY <2>1, <2>3, <2>4, <3>1 DEF CycleInv, RampInv, ShutdownStops, ArmInv, StillInv
    <2> QED
      BY <2>5, <2>6, <2>7 DEF NodeInv
  <1>5. CASE ~valid
    <2>1. EndGoal(g, "aborted", handles, TRUE) /\ pc' = "timer" /\ UNCHANGED progress
      BY <1>5 DEF TakeGoal
    <2>2. /\ cmd' \in 0..VMax /\ ramp' \in 0..VMax /\ rampActive' \in BOOLEAN
          /\ ctl' \in Controller!Controllers
          /\ IF rampActive' THEN ramp' = cmd' /\ cmd' > 0 ELSE cmd' = 0
          /\ arm' \in {"none", "plan", "hold"} /\ goalStreamed' \in BOOLEAN
          /\ armHeld' \in BOOLEAN /\ holds' \in Nat
          /\ arm' = "plan" => gaveUp
          /\ holds' = IF armHeld' THEN 1 ELSE 0
          /\ active' = NoGoal
          /\ handle' = [handles EXCEPT ![g] = "aborted"]
          /\ handle' \in [Goals -> {"unsent"} \cup Live \cup Ended]
      <3> HIDE DEF g, handles
      <3> QED
        BY <1>2, <1>3, <2>1, EndGoalKept
    <2>3. TypeOK'
      BY <1>1, <2>1, <2>2 DEF NodeInv, TypeOK, progress
    <2>4. HandleInv'
      <3>1. \A h \in Goals : handle'[h] = IF h = g \/ (preempt /\ h = active) THEN "aborted"
                                         ELSE handle[h]
        <4> HIDE DEF g, handles, preempt
        <4> QED
          BY <1>3, <2>2
      <3>2. \A h \in Goals : handle'[h] # handle[h] => handle[h] \in Live /\ handle'[h] \in Ended
        BY <1>2, <3>1
      <3>3. superseded' = superseded /\ pending' = NoGoal /\ active' = NoGoal
        BY <1>1, <2>2
      <3>4. \A h \in Goals : h \in {pending', superseded', active'} => handle'[h] = handle[h]
        BY <1>2, <3>1, <3>3
      <3>5. \A h \in Goals : h \in {pending, active} /\ h \notin {pending', active'}
                            => handle'[h] \in Ended
        BY <1>2, <3>1
      <3> QED
        BY <2>2, <3>2, <3>3, <3>4, <3>5, EndedHandles
    <2>5. CycleInv' /\ RampInv' /\ ArmInv' /\ StillInv'
      BY <1>1, <2>1, <2>2 DEF NodeInv, CycleInv, RampInv, ShutdownStops, ArmInv, StillInv, progress
    <2> QED
      BY <2>3, <2>4, <2>5 DEF NodeInv
  <1> QED
    BY <1>4, <1>5

LEMMA ShutdownInv == NodeInv /\ Shutdown => NodeInv'
  <1> SUFFICES ASSUME NodeInv, Shutdown PROVE NodeInv'
    OBVIOUS
  <1> DEFINE handles == IF pending = NoGoal THEN handle
                        ELSE [handle EXCEPT ![pending] = "aborted"]
  <1>1. /\ pc = "timer" /\ shuttingDown' = TRUE /\ pending' = NoGoal
        /\ UNCHANGED <<superseded, pc, fresh, complete, progress>>
    BY DEF Shutdown
  <1>2. /\ handles \in [Goals -> {"unsent"} \cup Live \cup Ended]
        /\ \A h \in Goals : handles[h] = IF h = pending THEN "aborted" ELSE handle[h]
    BY Places DEF NodeInv, TypeOK
  <1>3. PICK how \in Ended :
          /\ cmd' = 0 /\ ramp' \in 0..VMax /\ rampActive' = FALSE
          /\ ctl' \in Controller!Controllers
          /\ arm' \in {"none", "plan", "hold"} /\ goalStreamed' \in BOOLEAN
          /\ armHeld' \in BOOLEAN /\ holds' \in Nat /\ gaveUp' \in BOOLEAN
          /\ arm' = "plan" => gaveUp'
          /\ holds' = IF armHeld' THEN 1 ELSE 0
          /\ active' = NoGoal
          /\ handle' = IF active = NoGoal THEN handles ELSE [handles EXCEPT ![active] = how]
    <2>1. "aborted" \in Ended /\ "canceled" \in Ended
      BY DEF Ended
    <2>2. CASE active = NoGoal
      <3>1. /\ handle' = handles /\ rampActive' = FALSE
            /\ cmd' = IF rampActive THEN 0 ELSE cmd
            /\ UNCHANGED <<active, ramp, ctl, armVars, gaveUp>>
        BY <2>2 DEF Shutdown
      <3>2. cmd' = 0 /\ (arm = "plan" => gaveUp)
        BY <2>2, <3>1 DEF NodeInv, RampInv, ArmInv
      <3> HIDE DEF handles
      <3> QED
        BY <2>1, <2>2, <3>1, <3>2 DEF NodeInv, TypeOK, ArmInv, armVars
    <2>3. CASE active # NoGoal /\ EndGoal(active, "aborted", handles, FALSE) /\ UNCHANGED gaveUp
      <3>1. active \in Goals
        BY <2>3, Places
      <3> HIDE DEF handles
      <3>2. /\ cmd' = 0 /\ ~rampActive' /\ rampActive' \in BOOLEAN /\ ramp' \in 0..VMax
            /\ ctl' \in Controller!Controllers
            /\ arm' \in {"none", "plan", "hold"} /\ goalStreamed' \in BOOLEAN
            /\ armHeld' \in BOOLEAN /\ holds' \in Nat
            /\ arm' = "plan" => gaveUp
            /\ holds' = IF armHeld' THEN 1 ELSE 0
            /\ active' = NoGoal
            /\ handle' = [handles EXCEPT ![active] = "aborted"]
        BY <1>2, <2>1, <2>3, <3>1, EndGoalKept
      <3> QED
        BY <2>1, <2>3, <3>2 DEF NodeInv, TypeOK
    <2>4. CASE active # NoGoal /\ DropGoal(handles, FALSE)
      <3> HIDE DEF handles
      <3>1. /\ cmd' = 0 /\ ~rampActive' /\ rampActive' \in BOOLEAN /\ ramp' \in 0..VMax
            /\ ctl' \in Controller!Controllers
            /\ gaveUp' = TRUE /\ active' = NoGoal /\ UNCHANGED armVars
            /\ handle' = [handles EXCEPT ![active] = "canceled"]
        BY <1>2, <2>4, DropGoalKept
      <3> QED
        BY <2>1, <2>4, <3>1 DEF NodeInv, TypeOK, ArmInv, armVars
    <2> QED
      BY <2>2, <2>3, <2>4 DEF Shutdown
  <1>4. \A h \in Goals : handle'[h] = IF h = active THEN how
                                     ELSE IF h = pending THEN "aborted" ELSE handle[h]
    <2> HIDE DEF handles
    <2> QED
      BY <1>2, <1>3, Places
  <1> HIDE DEF handles
  <1>5. handle' \in [Goals -> {"unsent"} \cup Live \cup Ended]
    <2>1. CASE active = NoGoal
      BY <1>2, <1>3, <2>1
    <2>2. CASE active # NoGoal
      BY <1>2, <1>3, <2>2
    <2> QED
      BY <2>1, <2>2
  <1>6. TypeOK'
    <2>1. 0 \in 0..VMax
      BY Parameters
    <2> QED
      BY <1>1, <1>3, <1>5, <2>1 DEF NodeInv, TypeOK, progress
  <1>7. HandleInv'
    <2>1. \A h \in Goals : handle'[h] # handle[h] => handle[h] \in Live /\ handle'[h] \in Ended
      BY <1>3, <1>4, Places
    <2>2. superseded' = superseded /\ pending' = NoGoal /\ active' = NoGoal
      BY <1>1, <1>3
    <2>3. \A h \in Goals : h \in {pending', superseded', active'} => handle'[h] = handle[h]
      BY <1>4, <2>2, Places
    <2>4. \A h \in Goals : h \in {pending, active} /\ h \notin {pending', active'}
                          => handle'[h] \in Ended
      BY <1>3, <1>4, Places
    <2> QED
      BY <1>5, <2>1, <2>2, <2>3, <2>4, EndedHandles
  <1>8. CycleInv' /\ RampInv' /\ ArmInv' /\ StillInv'
    BY <1>1, <1>3 DEF NodeInv, CycleInv, RampInv, ShutdownStops, ArmInv, StillInv, progress
  <1> QED
    BY <1>6, <1>7, <1>8 DEF NodeInv

-----------------------------------------------------------------------------
(***************************************************************************)
(* The invariant, and what follows from it.                                *)
(***************************************************************************)

LEMMA NextInv == NodeInv /\ [Next]_vars => NodeInv'
  <1> SUFFICES ASSUME NodeInv, [Next]_vars PROVE NodeInv'
    OBVIOUS
  <1>1. ASSUME NEW g \in Goals, Accept(g) PROVE NodeInv'
    BY <1>1, AcceptInv
  <1>2. ASSUME NEW g \in Goals, Cancel(g) PROVE NodeInv'
    BY <1>2, CancelInv
  <1>3. CASE AbortSuperseded
    BY <1>3, AbortSupersededInv
  <1>4. CASE TickRamp
    BY <1>4, TickRampInv
  <1>5. ASSUME NEW valid \in BOOLEAN, TakeGoal(valid) PROVE NodeInv'
    BY <1>5, TakeGoalInv
  <1>6. CASE NextCycle
    BY <1>6, NextCycleInv
  <1>7. CASE SenseCanceled \/ SenseIncomplete \/ CycleThrows
    BY <1>7, SenseEndsInv
  <1>8. ASSUME NEW now \in BOOLEAN, SenseState(now) PROVE NodeInv'
    BY <1>8, SenseStateInv
  <1>9. CASE Command
    BY <1>9, CommandInv
  <1>10. CASE Outcome
    BY <1>10, OutcomeInv
  <1>11. CASE EndGoalThrows
    BY <1>11, EndGoalThrowsInv
  <1>12. CASE Shutdown
    BY <1>12, ShutdownInv
  <1>13. CASE UNCHANGED vars
    <2> USE <1>13 DEF vars, goalVars, progress, baseVars, armVars
    <2>1. TypeOK'
      BY DEF NodeInv, TypeOK
    <2>2. HandleInv'
      BY DEF NodeInv, HandleInv, NoGoalForgotten
    <2>3. CycleInv' /\ RampInv' /\ ArmInv' /\ StillInv'
      BY DEF NodeInv, CycleInv, RampInv, ShutdownStops, ArmInv, StillInv
    <2> QED
      BY <2>1, <2>2, <2>3 DEF NodeInv
  <1> QED
    BY <1>1, <1>2, <1>3, <1>4, <1>5, <1>6, <1>7, <1>8, <1>9, <1>10, <1>11, <1>12, <1>13
       DEF Next, Cycle

LEMMA Invariant == Spec => []NodeInv
  BY InitInv, NextInv, PTL DEF Spec

\* The node's state keeps its types: speeds stay in their box, whatever ends a goal.
THEOREM TypeCorrect == Spec => []TypeOK
  <1>1. NodeInv => TypeOK
    BY DEF NodeInv
  <1> QED
    BY <1>1, Invariant, PTL

\* No interleaving of accepting, preempting, canceling, exceptions and the shutdown
\* loses a goal or keeps an older one waiting (on_accepted, take_goal, end_goal).
THEOREM GoalsKnown == Spec => []NoGoalForgotten
  <1>1. NodeInv => NoGoalForgotten
    BY DEF NodeInv, HandleInv
  <1> QED
    BY <1>1, Invariant, PTL

\* Without a goal the base rests or ramps down from the command sent last, the arm is
\* held, once, and after the pre-shutdown callback nothing is commanded (end_goal,
\* tick_ramp, on_shutdown).
THEOREM RestWithoutGoal == Spec => []RestsWithoutGoal
  <1>1. NodeInv => RestsWithoutGoal
    BY DEF NodeInv, TypeOK, RampInv, ArmInv, RestsWithoutGoal, BaseRampsToRest, ArmHeldWhenIdle,
           HeldOnce
  <1> QED
    BY <1>1, Invariant, PTL

\* The no-progress window counts over preemptions: between two cycles an active goal has
\* been without progress for at most the window and the cycle that set its anchor.
THEOREM StuckGoals == Spec => []StuckGoalsEnd
  <1>1. NodeInv => StuckGoalsEnd
    <2> SUFFICES ASSUME NodeInv, active # NoGoal PROVE unmoved <= ProgressWindow + 1
      BY DEF StuckGoalsEnd
    <2>1. still \in Int /\ unmoved \in Int /\ unmoved <= still + 1 /\ still <= ProgressWindow
      BY Parameters DEF NodeInv, TypeOK, StillInv, NoAnchor
    <2> QED
      BY <2>1, Parameters
  <1> QED
    BY <1>1, Invariant, PTL

\* A goal gets one result and keeps it: neither the cycle's thread, nor on_accepted after
\* its mutex, nor an exception or the shutdown ends a goal another one has ended.
KeepsResult == [][\A g \in Goals : handle[g] \in Ended => handle'[g] = handle[g]]_vars

LEMMA ResultKept ==
  ASSUME NodeInv, [Next]_vars
  PROVE  \A g \in Goals : handle[g] \in Ended => handle'[g] = handle[g]
  <1> SUFFICES ASSUME NEW g \in Goals, handle[g] \in Ended PROVE handle'[g] = handle[g]
    OBVIOUS
  <1>1. /\ handle[g] \notin Live /\ handle[g] # "unsent"
        /\ g # NoGoal /\ g \notin {pending, active, superseded}
        /\ handle \in [Goals -> {"unsent"} \cup Live \cup Ended]
    BY Parameters DEF NodeInv, TypeOK, HandleInv, NoGoalForgotten, NoGoal, Live, Ended
  <1>2. ASSUME NEW k \in Goals, Accept(k) \/ Cancel(k) PROVE handle'[g] = handle[g]
    BY <1>1, <1>2 DEF Accept, Cancel, Live
  <1>3. CASE AbortSuperseded
    BY <1>1, <1>3 DEF AbortSuperseded
  <1>4. ASSUME NEW handles, NEW k, NEW how, NEW ramps, EndGoal(k, how, handles, ramps),
               handles \in [Goals -> {"unsent"} \cup Live \cup Ended], g # k
        PROVE  handle'[g] = handles[g]
    BY <1>4 DEF EndGoal
  <1>5. CASE TickRamp \/ NextCycle \/ Command \/ UNCHANGED vars
    BY <1>5 DEF TickRamp, NextCycle, Command, vars, goalVars
  <1>6. ASSUME NEW valid \in BOOLEAN, TakeGoal(valid) PROVE handle'[g] = handle[g]
    <2> DEFINE handles == IF active # NoGoal THEN [handle EXCEPT ![active] = "aborted"] ELSE handle
    <2>1. handles[g] = handle[g] /\ handles \in [Goals -> {"unsent"} \cup Live \cup Ended]
      BY <1>1 DEF Ended
    <2>2. handle' = handles \/ EndGoal(pending, "aborted", handles, TRUE)
      BY <1>6 DEF TakeGoal
    <2> HIDE DEF handles
    <2> QED
      BY <1>1, <1>4, <2>1, <2>2
  <1>7. CASE SenseCanceled \/ SenseIncomplete \/ CycleThrows
    <2>1. \E how : EndGoal(active, how, handle, TRUE)
      BY <1>7 DEF SenseCanceled, SenseIncomplete, CycleThrows
    <2> QED
      BY <1>1, <1>4, <2>1
  <1>8. ASSUME NEW now \in BOOLEAN, SenseState(now) PROVE handle'[g] = handle[g]
    <2>1. EndGoal(active, "aborted", handle, TRUE) \/ handle' = handle
      BY <1>8 DEF SenseState
    <2> QED
      BY <1>1, <1>4, <2>1
  <1>9. CASE Outcome
    <2>1. handle' = handle \/ \E how, ramps : EndGoal(active, how, handle, ramps)
      BY <1>9 DEF Outcome
    <2> QED
      BY <1>1, <1>4, <2>1
  <1>10. CASE EndGoalThrows
    BY <1>1, <1>10 DEF EndGoalThrows, DropGoal
  <1>11. CASE Shutdown
    <2> DEFINE handles == IF pending = NoGoal THEN handle
                          ELSE [handle EXCEPT ![pending] = "aborted"]
    <2>1. handles[g] = handle[g] /\ handles \in [Goals -> {"unsent"} \cup Live \cup Ended]
      BY <1>1 DEF Ended
    <2>2. \/ handle' = handles
          \/ EndGoal(active, "aborted", handles, FALSE)
          \/ DropGoal(handles, FALSE)
      BY <1>11 DEF Shutdown
    <2> HIDE DEF handles
    <2>3. DropGoal(handles, FALSE) => handle'[g] = handles[g]
      BY <1>1, <2>1 DEF DropGoal
    <2> QED
      BY <1>1, <1>4, <2>1, <2>2, <2>3
  <1> QED
    BY <1>2, <1>3, <1>5, <1>6, <1>7, <1>8, <1>9, <1>10, <1>11 DEF Next, Cycle

\* Every goal gets one result.
THEOREM OneResult == Spec => KeepsResult
  <1>1. NodeInv /\ [Next]_vars
          => [\A g \in Goals : handle[g] \in Ended => handle'[g] = handle[g]]_vars
    BY ResultKept
  <1> QED
    BY <1>1, Invariant, PTL DEF Spec, KeepsResult

-----------------------------------------------------------------------------
(***************************************************************************)
(* Theorems about BlockedBase: for every period, gap and speed of the      *)
(* detector, however late the cycles and the collision monitor are.        *)
(***************************************************************************)
CONSTANTS Kept, Stale, Own, Detect, Fail, Clear, ProgressM, Gap, Accel, Decel, Lag, MaxTime
VARIABLES now, sent, told, inbox, posted, stop, rolled, det, driving, scaled, steady, seen
Base == INSTANCE BlockedBase

Detectors ==
  [state : {"Clear", "Blocked", "Failed"}, since : Int, freeSince : Int, last : Int,
   askedAt : Int, blocked : Nat, gone : Int]
Observations == [gone : Int, anchoredAt : Int, idleSince : Int, askedAt : Int, askedSince : Int]

\* The speeds that were sent and executed.
SpeedsKept ==
  /\ sent \in Seq(Int) /\ inbox \in Seq(Int) /\ told.v \in Int
  /\ told = [v |-> told.v, at |-> told.at]

\* While a goal is driven, detector and observer agree on the progress since the
\* anchor; what the detector counted, and the window it counts in, began after
\* that progress; and in the window the base stood and was asked to move.
Counting ==
  /\ det.state # "Failed" /\ det.last \in 0..now
  /\ det.gone = seen.gone /\ det.gone >= 0
  /\ det.blocked <= det.last - seen.anchoredAt
  /\ seen.idleSince <= det.last /\ seen.askedSince <= det.last
  /\ det.askedAt <= seen.askedAt /\ seen.askedAt <= det.last
  /\ det.state = "Clear" /\ det.since # -1 =>
       /\ det.since <= det.last /\ det.blocked <= det.since - seen.anchoredAt
       /\ seen.idleSince # -1 /\ seen.idleSince <= det.since
       /\ seen.askedSince # -1 /\ seen.askedSince <= det.since

BlockedInv ==
  /\ now \in Nat /\ det \in Detectors /\ seen \in Observations /\ SpeedsKept
  /\ Base!BlockedTimeOnce
  /\ driving => Counting

LEMMA LargerOfTwo ==
  ASSUME NEW a \in Int, NEW b \in Int
  PROVE  Base!Max({a, b}) \in {a, b} /\ Base!Max({a, b}) >= a /\ Base!Max({a, b}) >= b
  <1>1. \E x \in {a, b} : \A y \in {a, b} : x >= y
    <2>1. CASE a >= b
      BY <2>1
    <2>2. CASE b >= a
      BY <2>2
    <2> QED
      BY <2>1, <2>2
  <1> QED
    BY <1>1 DEF Base!Max

\* The anchor moves with progress, and takes the count with it.
LEMMA AnchoredIs ==
  ASSUME NEW d \in Detectors, NEW moved \in Nat, d.state # "Failed"
  PROVE  LET a == Base!Anchored(d, moved)
             gains == d.gone = -1 \/ d.gone + moved >= ProgressM
         IN  /\ a \in Detectors
             /\ a.state = d.state /\ a.since = d.since /\ a.last = d.last /\ a.askedAt = d.askedAt
             /\ a.blocked = IF gains THEN 0 ELSE d.blocked
             /\ a.gone = IF gains THEN 0 ELSE d.gone + moved
  <1> DEFINE gains == d.gone = -1 \/ d.gone + moved >= ProgressM
             anchored == [d EXCEPT !.gone = 0, !.blocked = IF d.state = "Failed" THEN @ ELSE 0]
             further == [d EXCEPT !.gone = @ + moved]
  <1>1. /\ anchored \in Detectors /\ anchored.state = d.state /\ anchored.since = d.since
        /\ anchored.last = d.last /\ anchored.askedAt = d.askedAt /\ anchored.blocked = 0 /\ anchored.gone = 0
    <2> DEFINE here == [d EXCEPT !.gone = 0]
    <2>1. /\ here \in Detectors /\ here.state = d.state /\ here.since = d.since
          /\ here.last = d.last /\ here.askedAt = d.askedAt /\ here.gone = 0
      BY DEF Detectors
    <2>2. anchored = [here EXCEPT !.blocked = 0]
      OBVIOUS
    <2> HIDE DEF here, anchored
    <2> QED
      BY <2>1, <2>2 DEF Detectors
  <1>2. /\ further \in Detectors /\ further.state = d.state /\ further.since = d.since
        /\ further.last = d.last /\ further.askedAt = d.askedAt
        /\ further.blocked = d.blocked /\ further.gone = d.gone + moved
    BY DEF Detectors
  <1>3. Base!Anchored(d, moved) = IF gains THEN anchored ELSE further
    BY DEF Base!Anchored, Base!Never
  <1> HIDE DEF gains, anchored, further
  <1>4. CASE gains
    BY <1>1, <1>3, <1>4 DEF gains
  <1>5. CASE ~gains
    BY <1>2, <1>3, <1>5 DEF gains
  <1> QED
    BY <1>4, <1>5

LEMMA HoldingIs ==
  ASSUME NEW d \in Detectors, NEW t \in Int, d.last <= t, d.state = "Blocked", NEW stopping
  PROVE  LET h == Base!Holding(d, t, stopping)
         IN  /\ h \in Detectors
             /\ h.last = d.last /\ h.askedAt = d.askedAt /\ h.gone = d.gone
             /\ h.blocked = d.blocked + (t - d.last)
             /\ h.state = "Clear" => h.since = -1
  <1> DEFINE counted == Base!FailIfLong([d EXCEPT !.blocked = @ + (t - d.last)])
             freed == [counted EXCEPT !.freeSince = IF stopping THEN Base!Never
                                                    ELSE IF @ = Base!Never THEN t ELSE @]
             opened == [freed EXCEPT !.state = "Clear", !.since = -1, !.freeSince = -1]
  <1>1. /\ counted \in Detectors /\ counted.last = d.last /\ counted.askedAt = d.askedAt
        /\ counted.gone = d.gone /\ counted.blocked = d.blocked + (t - d.last)
        /\ counted.state \in {"Blocked", "Failed"}
    <2> DEFINE longer == [d EXCEPT !.blocked = @ + (t - d.last)]
    <2>1. t - d.last \in Nat /\ d.blocked + (t - d.last) \in Nat
      BY DEF Detectors
    <2>2. /\ longer \in Detectors /\ longer.last = d.last /\ longer.askedAt = d.askedAt
          /\ longer.gone = d.gone /\ longer.blocked = d.blocked + (t - d.last)
          /\ longer.state = "Blocked"
      BY <2>1 DEF Detectors
    <2> HIDE DEF longer
    <2>3. Base!FailIfLong(longer) \in {longer, [longer EXCEPT !.state = "Failed"]}
      BY DEF Base!FailIfLong
    <2>4. LET l == [longer EXCEPT !.state = "Failed"]
          IN  /\ l \in Detectors /\ l.last = d.last /\ l.askedAt = d.askedAt
              /\ l.gone = d.gone /\ l.blocked = d.blocked + (t - d.last) /\ l.state = "Failed"
      BY <2>2 DEF Detectors
    <2> QED
      BY <2>2, <2>3, <2>4 DEF longer
  <1> HIDE DEF counted
  <1>2. /\ freed \in Detectors /\ freed.last = d.last /\ freed.askedAt = d.askedAt
        /\ freed.gone = d.gone /\ freed.blocked = d.blocked + (t - d.last)
        /\ freed.state \in {"Blocked", "Failed"}
    BY <1>1 DEF Base!Never, Detectors
  <1>3. /\ opened \in Detectors /\ opened.last = d.last /\ opened.askedAt = d.askedAt
        /\ opened.gone = d.gone /\ opened.blocked = d.blocked + (t - d.last)
        /\ opened.state = "Clear" /\ opened.since = -1
    <2> DEFINE clear == [freed EXCEPT !.state = "Clear"]
               apart == [clear EXCEPT !.since = -1]
    <2>1. opened = [apart EXCEPT !.freeSince = -1]
      OBVIOUS
    <2> HIDE DEF freed, opened
    <2>2. /\ clear \in Detectors /\ clear.last = d.last /\ clear.askedAt = d.askedAt
          /\ clear.gone = d.gone /\ clear.blocked = d.blocked + (t - d.last) /\ clear.state = "Clear"
      BY <1>2 DEF Detectors
    <2> HIDE DEF clear
    <2>3. /\ apart \in Detectors /\ apart.last = d.last /\ apart.askedAt = d.askedAt
          /\ apart.gone = d.gone /\ apart.blocked = d.blocked + (t - d.last)
          /\ apart.state = "Clear" /\ apart.since = -1
      BY <2>2 DEF Detectors
    <2> HIDE DEF apart
    <2> QED
      BY <2>1, <2>3 DEF Detectors
  <1>4. Base!Holding(d, t, stopping) \in {counted, freed, opened}
    BY DEF Base!Holding, Base!Never, counted
  <1> HIDE DEF freed, opened
  <1> QED
    BY <1>1, <1>2, <1>3, <1>4

LEMMA WatchingIs ==
  ASSUME NEW d \in Detectors, NEW t \in Int, d.state = "Clear",
         NEW own \in Int, NEW executed \in Int, NEW rest \in BOOLEAN, Base!Parameters
  PROVE  LET w == Base!Watching(d, t, own, executed, rest)
             askedAt == IF own >= Own THEN t ELSE d.askedAt
             from == IF d.since = -1 THEN t ELSE d.since
         IN  /\ w \in Detectors
             /\ w.last = d.last /\ w.gone = d.gone /\ w.askedAt = askedAt
             /\ \/ w.state = "Clear" /\ w.since = -1 /\ w.blocked = d.blocked
                \/ /\ askedAt # -1 /\ t - askedAt <= Gap /\ rest /\ executed < Own
                   /\ w.since = from
                   /\ \/ w.state = "Clear" /\ w.blocked = d.blocked
                      \/ /\ w.state # "Clear" /\ t - from >= Detect
                         /\ w.blocked = d.blocked + (t - from)
  <1> DEFINE asked == [d EXCEPT !.askedAt = IF own >= Own THEN t ELSE @]
             askedAt == IF own >= Own THEN t ELSE d.askedAt
             from == IF asked.since = Base!Never THEN t ELSE asked.since
             commanding == asked.askedAt # Base!Never /\ t - asked.askedAt <= Gap
             window == [asked EXCEPT !.since = from]
             blocked == [window EXCEPT !.state = "Blocked", !.freeSince = Base!Never,
                                       !.blocked = @ + (t - from)]
             idle == [asked EXCEPT !.since = Base!Never]
  <1>0. Detect \in Nat
    BY DEF Base!Parameters
  <1>1. /\ asked \in Detectors /\ asked.last = d.last /\ asked.gone = d.gone
        /\ asked.askedAt = askedAt /\ asked.since = d.since /\ asked.blocked = d.blocked
        /\ asked.state = "Clear"
    BY DEF Detectors
  <1>2. from \in Int /\ from = IF d.since = -1 THEN t ELSE d.since
    BY DEF Base!Never, Detectors
  <1> HIDE DEF asked, from
  <1>3. /\ window \in Detectors /\ window.last = d.last /\ window.gone = d.gone
        /\ window.askedAt = askedAt /\ window.since = from /\ window.blocked = d.blocked
        /\ window.state = "Clear"
    BY <1>1, <1>2 DEF Detectors
  <1>4. /\ idle \in Detectors /\ idle.last = d.last /\ idle.gone = d.gone
        /\ idle.askedAt = askedAt /\ idle.since = -1 /\ idle.blocked = d.blocked
        /\ idle.state = "Clear"
    BY <1>1 DEF Base!Never, Detectors
  <1> HIDE DEF window
  <1>5. ASSUME t - from >= Detect
        PROVE  /\ blocked \in Detectors /\ blocked.last = d.last /\ blocked.gone = d.gone
               /\ blocked.askedAt = askedAt /\ blocked.since = from
               /\ blocked.blocked = d.blocked + (t - from) /\ blocked.state = "Blocked"
    <2> DEFINE held == [window EXCEPT !.state = "Blocked"]
               unfree == [held EXCEPT !.freeSince = -1]
    <2>1. t - from \in Nat /\ d.blocked + (t - from) \in Nat
      BY <1>0, <1>2, <1>5 DEF Detectors
    <2>2. blocked = [unfree EXCEPT !.blocked = @ + (t - from)]
      BY DEF Base!Never
    <2> HIDE DEF blocked
    <2>3. /\ held \in Detectors /\ held.last = d.last /\ held.gone = d.gone /\ held.askedAt = askedAt
          /\ held.since = from /\ held.blocked = d.blocked /\ held.state = "Blocked"
      BY <1>3 DEF Detectors
    <2> HIDE DEF held
    <2>4. /\ unfree \in Detectors /\ unfree.last = d.last /\ unfree.gone = d.gone
          /\ unfree.askedAt = askedAt /\ unfree.since = from /\ unfree.blocked = d.blocked
          /\ unfree.state = "Blocked"
      BY <2>3 DEF Detectors
    <2> HIDE DEF unfree
    <2> QED
      BY <2>1, <2>2, <2>4 DEF Detectors
  <1> HIDE DEF blocked, idle
  <1>6. ASSUME t - from >= Detect
        PROVE  LET w == Base!FailIfLong(blocked)
               IN  /\ w \in Detectors /\ w.last = d.last /\ w.gone = d.gone
                   /\ w.askedAt = askedAt /\ w.since = from
                   /\ w.blocked = d.blocked + (t - from) /\ w.state # "Clear"
    BY <1>5, <1>6 DEF Base!FailIfLong, Detectors
  <1>7. Base!Watching(d, t, own, executed, rest) =
          IF ~(commanding /\ rest /\ executed < Own) THEN idle
          ELSE IF t - from < Detect THEN window ELSE Base!FailIfLong(blocked)
    BY DEF Base!Watching, asked, from, window, blocked, idle
  <1>8. CASE ~(commanding /\ rest /\ executed < Own)
    BY <1>4, <1>7, <1>8
  <1>9. CASE commanding /\ rest /\ executed < Own /\ t - from < Detect
    BY <1>1, <1>2, <1>3, <1>7, <1>9 DEF Base!Never
  <1>10. CASE commanding /\ rest /\ executed < Own /\ ~(t - from < Detect)
    <2>1. t - from >= Detect
      BY <1>0, <1>2, <1>10
    <2> QED
      BY <1>1, <1>2, <1>6, <1>7, <1>10, <2>1 DEF Base!Never
  <1> QED
    BY <1>8, <1>9, <1>10

\* update() as a whole.
LEMMA UpdatedIs ==
  ASSUME Base!Parameters, NEW d \in Detectors, NEW t \in Nat, d.state # "Failed", d.last <= t,
         d.state = "Blocked" => d.last # -1,
         NEW own \in Int, NEW executed \in Int, NEW stopping, NEW moved \in Nat, NEW rest \in BOOLEAN,
         NEW u, u = Base!Updated(d, t, own, executed, stopping, moved, rest),
         NEW counted, counted = IF d.gone = -1 \/ d.gone + moved >= ProgressM THEN 0 ELSE d.blocked,
         NEW askedAt, askedAt = IF own >= Own THEN t ELSE d.askedAt,
         NEW from, from = IF d.since = -1 THEN t ELSE d.since
  PROVE  /\ u \in Detectors /\ u.last = t
         /\ u.gone = IF d.gone = -1 \/ d.gone + moved >= ProgressM THEN 0 ELSE d.gone + moved
         /\ d.state = "Blocked" =>
              /\ u.askedAt = d.askedAt /\ u.blocked = counted + (t - d.last)
              /\ u.state = "Clear" => u.since = -1
         /\ d.state = "Clear" =>
              /\ u.askedAt = askedAt
              /\ \/ u.state = "Clear" /\ u.since = -1 /\ u.blocked = counted
                 \/ /\ askedAt # -1 /\ t - askedAt <= Gap /\ rest /\ executed < Own
                    /\ u.since = from
                    /\ \/ u.state = "Clear" /\ u.blocked = counted
                       \/ /\ u.state # "Clear" /\ t - from >= Detect
                          /\ u.blocked = counted + (t - from)
  <1> DEFINE timed == [d EXCEPT !.last = IF @ = Base!Never THEN t ELSE @]
             a == Base!Anchored(timed, moved)
             h == Base!Holding(a, t, stopping)
             w == Base!Watching(a, t, own, executed, rest)
             v == IF d.state = "Blocked" THEN h ELSE w
  <1>1. /\ timed \in Detectors /\ timed.state = d.state /\ timed.since = d.since
        /\ timed.askedAt = d.askedAt /\ timed.blocked = d.blocked /\ timed.gone = d.gone
        /\ timed.last = IF d.last = -1 THEN t ELSE d.last
    BY DEF Base!Never, Detectors
  <1>2. u = [v EXCEPT !.last = t]
    <2>1. a.state = d.state
      <3> HIDE DEF timed
      <3> QED
        BY <1>1, AnchoredIs
    <2>2. d.state \in {"Clear", "Blocked"}
      BY DEF Detectors
    <2>3. u = [(IF a.state = "Failed" THEN a ELSE IF a.state = "Blocked" THEN h ELSE w) EXCEPT !.last = t]
      BY DEF Base!Updated
    <2> HIDE DEF a, h, w
    <2> QED
      BY <2>1, <2>2, <2>3
  <1> HIDE DEF timed
  <1>3. /\ a \in Detectors /\ a.state = d.state /\ a.since = d.since
        /\ a.last = (IF d.last = -1 THEN t ELSE d.last) /\ a.askedAt = d.askedAt
        /\ a.blocked = counted
        /\ a.gone = IF d.gone = -1 \/ d.gone + moved >= ProgressM THEN 0 ELSE d.gone + moved
    BY <1>1, AnchoredIs
  <1>4. a.last <= t
    BY <1>3
  <1> HIDE DEF a
  <1>5. CASE d.state = "Blocked"
    <2>1. /\ h \in Detectors /\ h.askedAt = a.askedAt /\ h.gone = a.gone
          /\ h.blocked = a.blocked + (t - a.last)
          /\ h.state = "Clear" => h.since = -1
      BY <1>3, <1>4, <1>5, HoldingIs
    <2> HIDE DEF h
    <2>2. u = [h EXCEPT !.last = t]
      BY <1>2, <1>5
    <2>3. /\ u \in Detectors /\ u.last = t /\ u.askedAt = h.askedAt /\ u.gone = h.gone
          /\ u.blocked = h.blocked /\ u.state = h.state /\ u.since = h.since
      BY <2>1, <2>2 DEF Detectors
    <2> QED
      BY <1>3, <1>5, <2>1, <2>3
  <1>6. CASE d.state = "Clear"
    <2>1. /\ w \in Detectors /\ w.gone = a.gone /\ w.askedAt = askedAt
          /\ \/ w.state = "Clear" /\ w.since = -1 /\ w.blocked = a.blocked
             \/ /\ askedAt # -1 /\ t - askedAt <= Gap /\ rest /\ executed < Own /\ w.since = from
                /\ \/ w.state = "Clear" /\ w.blocked = a.blocked
                   \/ /\ w.state # "Clear" /\ t - from >= Detect
                      /\ w.blocked = a.blocked + (t - from)
      BY <1>3, <1>6, WatchingIs
    <2> HIDE DEF w
    <2>2. u = [w EXCEPT !.last = t]
      BY <1>2, <1>6
    <2>3. /\ u \in Detectors /\ u.last = t /\ u.askedAt = w.askedAt /\ u.gone = w.gone
          /\ u.blocked = w.blocked /\ u.state = w.state /\ u.since = w.since
      BY <2>1, <2>2 DEF Detectors
    <2> QED
      BY <1>3, <1>6, <2>1, <2>3
  <1> QED
    BY <1>5, <1>6 DEF Detectors

LEMMA SpeedsOf ==
  ASSUME Base!Parameters, SpeedsKept
  PROVE  Base!Last \in Int /\ \A t : Base!Executed(t) \in Int
  BY DEF SpeedsKept, Base!Last, Base!Executed

\* The observer's notes, field by field.
LEMMA ObservationIs ==
  ASSUME NEW gone \in Int, NEW anchoredAt \in Int, NEW idleSince \in Int, NEW askedAt \in Int,
         NEW askedSince \in Int
  PROVE  LET s == [gone |-> gone, anchoredAt |-> anchoredAt, idleSince |-> idleSince,
                   askedAt |-> askedAt, askedSince |-> askedSince]
         IN  /\ s \in Observations /\ s.gone = gone /\ s.anchoredAt = anchoredAt
             /\ s.idleSince = idleSince /\ s.askedAt = askedAt /\ s.askedSince = askedSince
  BY DEF Observations

\* A cycle that starts a goal takes a new detector and a new anchor.
LEMMA StartCounts ==
  ASSUME Base!Parameters, BlockedInv, NEW d \in 1..2, NEW moved \in 0..d, NEW rest \in BOOLEAN,
         Base!Cycle(TRUE, d, moved, rest)
  PROVE  /\ det' \in Detectors /\ seen' \in Observations /\ now' \in Nat
         /\ Counting' /\ det'.state = "Clear" /\ seen'.anchoredAt = now' /\ det'.blocked = 0
  <1> DEFINE own == Base!Last
             executed == Base!Executed(now + d)
  <1>1. /\ now' = now + d
        /\ det' = Base!Updated(Base!Restarted, now', own, executed, stop, moved, rest)
        /\ seen' = Base!Seen(TRUE, now', moved, own, executed, rest)
    BY DEF Base!Cycle
  <1>2. own \in Int /\ executed \in Int
    BY SpeedsOf DEF BlockedInv
  <1>3. now' \in Nat /\ now' > 0 /\ moved \in Nat /\ Own \in Nat /\ Gap \in Nat /\ Detect > 0
        /\ det \in Detectors /\ seen \in Observations
    BY <1>1 DEF BlockedInv, Base!Parameters
  <1> HIDE DEF own, executed
  <1>4. /\ Base!Restarted \in Detectors /\ Base!Restarted.state = "Clear" /\ Base!Restarted.last = -1
        /\ Base!Restarted.since = -1 /\ Base!Restarted.askedAt = -1 /\ Base!Restarted.gone = -1
        /\ Base!Restarted.blocked = 0
    BY DEF Base!Restarted, Base!Never, Detectors
  <1> DEFINE askedAt == IF own >= Own THEN now' ELSE -1
  <1>5. /\ det' \in Detectors /\ det'.last = now' /\ det'.gone = 0 /\ det'.askedAt = askedAt
        /\ det'.state = "Clear" /\ det'.blocked = 0
        /\ \/ det'.since = -1
           \/ det'.since = now' /\ askedAt # -1 /\ rest /\ executed < Own
    <2>1. \A u, counted, from :
            u = det' /\ counted = 0 /\ from = now' =>
              /\ u \in Detectors /\ u.last = now' /\ u.gone = 0 /\ u.askedAt = askedAt
              /\ \/ u.state = "Clear" /\ u.since = -1 /\ u.blocked = counted
                 \/ /\ askedAt # -1 /\ rest /\ executed < Own /\ u.since = from
                    /\ \/ u.state = "Clear" /\ u.blocked = counted
                       \/ now' - from >= Detect
      BY <1>1, <1>2, <1>3, <1>4, UpdatedIs
    <2>2. ~(now' - now' >= Detect)
      BY <1>3, <1>1 DEF Base!Parameters
    <2> QED
      BY <2>1, <2>2
  <1>i. PICK idle : idle = IF ~rest \/ executed >= Own THEN -1 ELSE now'
    OBVIOUS
  <1>6. /\ seen' \in Observations /\ seen'.gone = 0 /\ seen'.anchoredAt = now'
        /\ seen'.idleSince = idle /\ seen'.askedAt = askedAt
        /\ seen'.askedSince = IF own < Own THEN -1 ELSE now'
    <2> DEFINE askedSince == IF own < Own THEN -1 ELSE now'
    <2>1. seen' = [gone |-> 0, anchoredAt |-> now', idleSince |-> idle, askedAt |-> askedAt,
                   askedSince |-> askedSince]
      BY <1>1, <1>i DEF Base!Seen, Base!Never
    <2>2. askedAt \in Int /\ askedSince \in Int /\ 0 \in Int /\ now' \in Int
      BY <1>3
    <2>3. idle \in Int
      BY <1>3, <1>i
    <2> HIDE DEF askedAt, askedSince
    <2>4. /\ seen' \in Observations /\ seen'.gone = 0 /\ seen'.anchoredAt = now'
          /\ seen'.idleSince = idle /\ seen'.askedAt = askedAt /\ seen'.askedSince = askedSince
      BY ONLY <2>1, <2>2, <2>3, ObservationIs
    <2> QED
      BY <2>4 DEF askedSince
  <1>7. /\ idle \in {-1, now'} /\ askedAt \in {-1, now'} /\ seen'.askedSince \in {-1, now'}
        /\ rest /\ executed < Own => idle = now'
        /\ askedAt # -1 => seen'.askedSince = now'
    BY <1>2, <1>3, <1>i, <1>6
  <1> HIDE DEF askedAt
  <1>8. Counting'
    <2>1. det'.state # "Failed" /\ det'.last \in 0..now' /\ det'.gone = seen'.gone /\ det'.gone >= 0
      BY <1>3, <1>5, <1>6
    <2>2. det'.blocked <= det'.last - seen'.anchoredAt
      <3>1. det'.blocked = 0 /\ det'.last = now' /\ seen'.anchoredAt = now' /\ now' \in Nat
        BY <1>3, <1>5, <1>6
      <3>2. \A t \in Nat : 0 <= t - t
        OBVIOUS
      <3> QED
        BY <3>1, <3>2
    <2>4. seen'.idleSince <= det'.last /\ seen'.askedSince <= det'.last /\ seen'.askedAt <= det'.last
      BY <1>3, <1>5, <1>6, <1>7
    <2>5. det'.askedAt <= seen'.askedAt
      BY <1>3, <1>5, <1>6, <1>7
    <2>3. det'.since # -1 =>
            /\ det'.since <= det'.last /\ det'.blocked <= det'.since - seen'.anchoredAt
            /\ seen'.idleSince # -1 /\ seen'.idleSince <= det'.since
            /\ seen'.askedSince # -1 /\ seen'.askedSince <= det'.since
      BY <1>3, <1>5, <1>6, <1>7
    <2> QED
      BY <2>1, <2>2, <2>3, <2>4, <2>5 DEF Counting
  <1> QED
    BY <1>3, <1>5, <1>6, <1>8

\* A cycle of a goal that is driven: the counts go on, and what is blocked now
\* stood and was asked to move for the whole window.
LEMMA CycleCounts ==
  ASSUME Base!Parameters, BlockedInv, NEW d \in 1..2, NEW moved \in 0..d, NEW rest \in BOOLEAN,
         driving, Base!Cycle(FALSE, d, moved, rest)
  PROVE  /\ det' \in Detectors /\ seen' \in Observations /\ now' \in Nat
         /\ det'.state # "Failed" => Counting'
         /\ det'.blocked <= now' - seen'.anchoredAt
         /\ Base!BlockedEarned
  <1> DEFINE own == Base!Last
             executed == Base!Executed(now + d)
             gains == det.gone + moved >= ProgressM
  <1>1. /\ now' = now + d
        /\ det' = Base!Updated(det, now', own, executed, stop, moved, rest)
        /\ seen' = Base!Seen(FALSE, now', moved, own, executed, rest)
    BY DEF Base!Cycle
  <1>2. own \in Int /\ executed \in Int
    BY SpeedsOf DEF BlockedInv
  <1>3. /\ now \in Nat /\ now' \in Nat /\ now' > now /\ moved \in Nat
        /\ Own \in Nat /\ Gap \in Nat /\ Detect \in Nat \ {0} /\ ProgressM \in Nat
        /\ det \in Detectors /\ seen \in Observations /\ Counting
    BY <1>1 DEF BlockedInv, Base!Parameters
  <1>4. /\ det.state \in {"Clear", "Blocked"} /\ det.last \in 0..now /\ det.gone \in Nat
        /\ seen.gone = det.gone /\ det.blocked \in Nat /\ seen.anchoredAt \in Int
        /\ det.blocked <= det.last - seen.anchoredAt /\ seen.idleSince \in Int
        /\ seen.idleSince <= det.last /\ det.askedAt <= seen.askedAt
        /\ seen.askedSince <= det.last /\ seen.askedAt <= det.last
        /\ det.askedAt \in Int /\ seen.askedAt \in Int /\ det.since \in Int /\ seen.askedSince \in Int
    BY <1>3 DEF Counting, Detectors, Observations
  <1>5. det.state = "Clear" /\ det.since # -1 =>
          /\ det.since <= det.last /\ det.blocked <= det.since - seen.anchoredAt
          /\ seen.idleSince # -1 /\ seen.idleSince <= det.since
          /\ seen.askedSince # -1 /\ seen.askedSince <= det.since
    BY <1>3 DEF Counting
  <1> HIDE DEF own, executed
  <1> DEFINE counted == IF gains THEN 0 ELSE det.blocked
             askedAt == IF own >= Own THEN now' ELSE det.askedAt
             from == IF det.since = -1 THEN now' ELSE det.since
  <1>6. /\ det' \in Detectors /\ det'.last = now' /\ det'.gone = IF gains THEN 0 ELSE det.gone + moved
        /\ det.state = "Blocked" =>
             /\ det'.askedAt = det.askedAt /\ det'.blocked = counted + (now' - det.last)
             /\ det'.state = "Clear" => det'.since = -1
        /\ det.state = "Clear" =>
             /\ det'.askedAt = askedAt
             /\ \/ det'.state = "Clear" /\ det'.since = -1 /\ det'.blocked = counted
                \/ /\ askedAt # -1 /\ now' - askedAt <= Gap /\ rest /\ executed < Own
                   /\ det'.since = from
                   /\ \/ det'.state = "Clear" /\ det'.blocked = counted
                      \/ /\ det'.state # "Clear" /\ now' - from >= Detect
                         /\ det'.blocked = counted + (now' - from)
    <2>1. det.gone # -1 /\ det.last # -1 /\ det.last <= now' /\ det.state # "Failed"
      BY <1>3, <1>4
    <2> QED
      BY <1>1, <1>2, <1>3, <2>1, UpdatedIs
  <1>i. PICK idle : idle = IF ~rest \/ executed >= Own THEN -1
                           ELSE IF seen.idleSince = -1 THEN now' ELSE seen.idleSince
    OBVIOUS
  <1>7. /\ seen' \in Observations /\ seen'.gone = (IF gains THEN 0 ELSE det.gone + moved)
        /\ seen'.idleSince = idle
        /\ seen'.anchoredAt = (IF ~gains THEN seen.anchoredAt
                               ELSE IF -1 \in {idle, seen.idleSince} THEN det.last ELSE idle)
        /\ seen'.askedAt = (IF own >= Own THEN now' ELSE seen.askedAt)
        /\ seen'.askedSince = IF own < Own /\ now' - seen.askedAt > Gap THEN -1
                              ELSE IF seen.askedSince = -1 THEN now' ELSE seen.askedSince
    <2> DEFINE gone == IF gains THEN 0 ELSE det.gone + moved
               anchoredAt == IF ~gains THEN seen.anchoredAt
                             ELSE IF -1 \in {idle, seen.idleSince} THEN det.last ELSE idle
               seenAsked == IF own >= Own THEN now' ELSE seen.askedAt
               askedSince == IF own < Own /\ now' - seen.askedAt > Gap THEN -1
                             ELSE IF seen.askedSince = -1 THEN now' ELSE seen.askedSince
    <2>1. seen' = [gone |-> gone, anchoredAt |-> anchoredAt, idleSince |-> idle,
                   askedAt |-> seenAsked, askedSince |-> askedSince]
      <3>1. seen.gone + moved = det.gone + moved /\ (det.gone + moved < ProgressM <=> ~gains)
        BY <1>3, <1>4
      <3> HIDE DEF gains
      <3>2. seen' = [gone |-> IF det.gone + moved >= ProgressM THEN 0 ELSE det.gone + moved,
                     anchoredAt |-> IF det.gone + moved < ProgressM THEN seen.anchoredAt
                                    ELSE IF -1 \in {idle, seen.idleSince} THEN det.last ELSE idle,
                     idleSince |-> idle, askedAt |-> seenAsked, askedSince |-> askedSince]
        BY <1>1, <1>i, <3>1 DEF Base!Seen, Base!Never
      <3> QED
        BY <3>1, <3>2 DEF gains
    <2>2. idle \in Int
      BY <1>3, <1>4, <1>i
    <2>3. gone \in Int /\ anchoredAt \in Int /\ seenAsked \in Int /\ askedSince \in Int
      BY <1>3, <1>4, <2>2
    <2> HIDE DEF gone, anchoredAt, seenAsked, askedSince
    <2>4. /\ seen' \in Observations /\ seen'.gone = gone /\ seen'.anchoredAt = anchoredAt
          /\ seen'.idleSince = idle /\ seen'.askedAt = seenAsked /\ seen'.askedSince = askedSince
      BY ONLY <2>1, <2>2, <2>3, ObservationIs
    <2> HIDE DEF gains
    <2> QED
      BY <2>4 DEF gone, anchoredAt, seenAsked, askedSince
  <1>8. /\ gains => counted = 0
        /\ ~gains => counted = det.blocked
        /\ own >= Own => askedAt = now'
        /\ ~(own >= Own) => askedAt = det.askedAt
        /\ det.since = -1 => from = now'
        /\ det.since # -1 => from = det.since
        /\ ~rest \/ executed >= Own => idle = -1
        /\ rest /\ ~(executed >= Own) =>
             idle = IF seen.idleSince = -1 THEN now' ELSE seen.idleSince
        /\ gains \in BOOLEAN
    BY <1>i
  <1> HIDE DEF counted, askedAt, from, gains
  <1>9. /\ idle \in Int /\ idle <= now'
        /\ seen.idleSince # -1 /\ idle # -1 => idle = seen.idleSince
        /\ askedAt \in Int /\ from \in Int /\ counted \in Nat /\ counted <= det.blocked
    BY <1>3, <1>4, <1>8
  <1>10. /\ seen'.anchoredAt \in Int /\ seen'.anchoredAt <= det.last
         /\ counted <= det.last - seen'.anchoredAt
    <2>1. CASE gains
      <3>1. seen'.anchoredAt \in {det.last, seen.idleSince}
        BY <1>7, <1>9, <2>1
      <3> QED
        BY <1>4, <1>8, <2>1, <3>1
    <2>2. CASE ~gains
      BY <1>4, <1>7, <1>8, <2>2
    <2> QED
      BY <2>1, <2>2
  <1>11. seen'.askedAt \in Int /\ seen'.askedAt <= now' /\ det.askedAt <= seen'.askedAt /\ askedAt <= seen'.askedAt
         /\ seen'.askedSince \in Int /\ seen'.askedSince <= now'
    <2>1. det.askedAt <= now' /\ seen.askedAt <= now'
      BY <1>3, <1>4
    <2>2. seen'.askedAt \in {now', seen.askedAt} /\ (own >= Own => seen'.askedAt = now')
          /\ (~(own >= Own) => seen'.askedAt = seen.askedAt)
      BY <1>7
    <2>3. seen'.askedSince \in {-1, now', seen.askedSince}
      BY <1>7
    <2> QED
      BY <1>3, <1>4, <1>8, <2>1, <2>2, <2>3
  <1>12. ASSUME det.state = "Clear", askedAt # -1, now' - askedAt <= Gap, rest, executed < Own
         PROVE  /\ idle # -1 /\ idle <= from /\ from <= now' /\ counted <= from - seen'.anchoredAt
                /\ seen'.askedSince # -1 /\ seen'.askedSince <= from
    <2>1. ~(executed >= Own) /\ idle = IF seen.idleSince = -1 THEN now' ELSE seen.idleSince
      BY <1>2, <1>3, <1>8, <1>12
    <2>2. own < Own => now' - seen.askedAt <= Gap
      <3>1. own < Own => askedAt = det.askedAt
        BY <1>2, <1>3, <1>8
      <3> QED
        BY <1>3, <1>4, <1>12, <3>1
    <2>3. seen'.askedSince = IF seen.askedSince = -1 THEN now' ELSE seen.askedSince
      <3>1. ~(own < Own /\ now' - seen.askedAt > Gap)
        BY <1>3, <1>4, <2>2
      <3> QED
        BY <1>7, <3>1
    <2>4. CASE det.since # -1
      <3>1. idle = seen.idleSince /\ from = det.since /\ idle <= from /\ from <= now' /\ idle # -1
        BY <1>3, <1>4, <1>5, <1>8, <1>12, <2>1, <2>4
      <3>2. seen'.askedSince # -1 /\ seen'.askedSince <= from
        BY <1>5, <1>12, <2>3, <2>4, <3>1
      <3>3. counted <= from - seen'.anchoredAt
        <4>1. CASE gains
          <5>1. seen'.anchoredAt = idle /\ counted = 0
            BY <1>5, <1>7, <1>8, <1>12, <2>4, <3>1, <4>1
          <5> QED
            BY <1>9, <3>1, <5>1
        <4>2. CASE ~gains
          BY <1>5, <1>7, <1>8, <1>12, <2>4, <3>1, <4>2
        <4> QED
          BY <4>1, <4>2
      <3> QED
        BY <3>1, <3>2, <3>3
    <2>5. CASE det.since = -1
      <3>1. from = now'
        BY <1>8, <2>5
      <3>2. idle # -1 /\ idle <= now' /\ seen'.askedSince # -1 /\ seen'.askedSince <= now'
        BY <1>3, <1>9, <1>11, <2>1, <2>3
      <3>3. counted <= from - seen'.anchoredAt
        BY <1>3, <1>4, <1>9, <1>10, <3>1
      <3> QED
        BY <1>3, <3>1, <3>2, <3>3
    <2> QED
      BY <2>4, <2>5
  <1>13. det'.blocked <= now' - seen'.anchoredAt
    <2>1. CASE det.state = "Blocked"
      BY <1>3, <1>4, <1>6, <1>9, <1>10, <2>1
    <2>2. CASE det.state = "Clear"
      <3>1. CASE det'.blocked = counted
        BY <1>3, <1>4, <1>9, <1>10, <3>1
      <3>2. CASE det'.blocked # counted
        <4>1. det'.blocked = counted + (now' - from) /\ counted <= from - seen'.anchoredAt
          BY <1>6, <1>12, <2>2, <3>2
        <4> QED
          BY <1>3, <1>9, <1>10, <4>1
      <3> QED
        BY <3>1, <3>2
    <2> QED
      BY <1>4, <2>1, <2>2
  <1>14. det'.state # "Failed" => Counting'
    <2>1. /\ det'.last = now' /\ now' \in 0..now' /\ det'.gone = seen'.gone /\ det'.gone >= 0
          /\ seen'.idleSince <= det'.last /\ seen'.askedSince <= det'.last
          /\ seen'.askedAt <= det'.last
      BY <1>3, <1>4, <1>6, <1>7, <1>9, <1>11
    <2>2. det'.askedAt <= seen'.askedAt
      BY <1>4, <1>6, <1>11
    <2>3. det'.state = "Clear" /\ det'.since # -1 =>
            /\ det'.since <= det'.last /\ det'.blocked <= det'.since - seen'.anchoredAt
            /\ seen'.idleSince # -1 /\ seen'.idleSince <= det'.since
            /\ seen'.askedSince # -1 /\ seen'.askedSince <= det'.since
      BY <1>4, <1>6, <1>7, <1>12
    <2> QED
      BY <1>13, <2>1, <2>2, <2>3 DEF Counting
  <1>15. Base!BlockedEarned
    <2> SUFFICES ASSUME det.state = "Clear", det'.state # "Clear"
                 PROVE  /\ seen'.idleSince # -1 /\ now' - seen'.idleSince >= Detect
                        /\ seen'.askedSince # -1 /\ now' - seen'.askedSince >= Detect
                        /\ det'.blocked >= Detect
      BY DEF Base!BlockedEarned, Base!Never
    <2>1. /\ askedAt # -1 /\ now' - askedAt <= Gap /\ rest /\ executed < Own
          /\ now' - from >= Detect /\ det'.blocked = counted + (now' - from)
      BY <1>6
    <2>2. idle # -1 /\ idle <= from /\ seen'.askedSince # -1 /\ seen'.askedSince <= from
      BY <1>12, <2>1
    <2>3. now' - seen'.idleSince >= Detect /\ now' - seen'.askedSince >= Detect /\ det'.blocked >= Detect
      <3>1. seen'.idleSince = idle /\ now' - from >= Detect /\ det'.blocked = counted + (now' - from)
        BY <1>7, <2>1
      <3>2. /\ now' \in Nat /\ idle \in Int /\ from \in Int /\ seen'.askedSince \in Int
            /\ counted \in Nat /\ Detect \in Nat
        BY <1>3, <1>9, <1>11
      <3>3. \A t \in Nat, n \in Nat, c \in Nat, f \in Int, x \in Int :
              t - f >= n /\ x <= f => t - x >= n /\ c + (t - f) >= n
        OBVIOUS
      <3>4. now' - idle >= Detect /\ now' - seen'.askedSince >= Detect /\ counted + (now' - from) >= Detect
        BY <2>2, <3>1, <3>2, <3>3
      <3> QED
        BY <3>1, <3>4
    <2> QED
      BY <1>7, <2>2, <2>3
  <1> QED
    BY <1>3, <1>6, <1>7, <1>13, <1>14, <1>15

LEMMA BrakedIs ==
  ASSUME NEW v \in Int
  PROVE  Base!Max({0, v}) \in Int
  <1>1. Base!Max({0, v}) \in {0, v}
    BY LargerOfTwo
  <1> QED
    BY <1>1

\* What is sent stays a sequence of speeds.
LEMMA SendKeepsSpeeds ==
  ASSUME Base!Parameters, SpeedsKept, NEW v \in Int, Base!SendBase(v), told' = told
  PROVE  SpeedsKept'
  <1>1. sent \in Seq(Int) /\ inbox \in Seq(Int) /\ Kept \in Nat \ {0}
    BY DEF SpeedsKept, Base!Parameters
  <1>2. inbox' \in Seq(Int)
    BY <1>1 DEF Base!SendBase
  <1>3. sent' \in Seq(Int)
    <2>1. CASE Len(sent) < Kept
      BY <1>1, <2>1 DEF Base!SendBase
    <2>2. CASE ~(Len(sent) < Kept)
      <3>1. sent # <<>>
        BY <1>1, <2>2
      <3>2. Tail(sent) \in Seq(Int) /\ sent' = Append(Tail(sent), v)
        BY <1>1, <2>2, <3>1, HeadTailProperties DEF Base!SendBase
      <3> QED
        BY <3>2
    <2> QED
      BY <2>1, <2>2
  <1> QED
    BY <1>2, <1>3 DEF SpeedsKept

LEMMA MonitorKeepsSpeeds ==
  ASSUME SpeedsKept, NEW does, Base!Monitor(does)
  PROVE  SpeedsKept'
  <1> DEFINE v == CASE does = "pass" -> Head(inbox) [] does = "slow" -> Head(inbox) \div 2 [] OTHER -> 0
  <1>1. inbox \in Seq(Int) /\ inbox # <<>> /\ inbox' = Tail(inbox) /\ sent' = sent
        /\ told' = [v |-> v, at |-> now]
    BY DEF SpeedsKept, Base!Monitor
  <1>2. Head(inbox) \in Int /\ Tail(inbox) \in Seq(Int)
    BY <1>1, HeadTailProperties
  <1>3. v \in Int
    <2>1. Head(inbox) \div 2 \in Int
      BY <1>2
    <2> QED
      BY <1>2, <2>1
  <1> HIDE DEF v
  <1>4. told'.v \in Int /\ told' = [v |-> told'.v, at |-> told'.at]
    BY <1>1, <1>3
  <1> QED
    BY <1>1, <1>2, <1>4 DEF SpeedsKept

\* A step other than a cycle changes neither detector nor observer.
LEMMA OthersCount ==
  ASSUME Base!Parameters, BlockedInv,
         \/ Base!Canceled
         \/ \E d \in 1..2 : Base!TickRamp(d)
         \/ \E does \in {"pass", "slow", "stop"} : Base!Monitor(does)
         \/ Base!Lose
         \/ Base!OnMonitorState
         \/ UNCHANGED Base!vars
  PROVE  BlockedInv' /\ Base!BlockedEarned
  <1>1. Base!Last \in Int /\ Decel \in Nat /\ SpeedsKept
    BY SpeedsOf DEF BlockedInv, Base!Parameters
  <1>2. /\ det' = det /\ seen' = seen /\ SpeedsKept' /\ now' \in Nat /\ now' >= now
        /\ driving' => driving
    <2>0. now \in Nat
      BY DEF BlockedInv
    <2>1. CASE Base!Canceled
      <3>0. Base!Last - Decel \in Int
        BY <1>1
      <3>1. Base!Max({0, Base!Last - Decel}) \in Int
        BY ONLY <3>0, BrakedIs
      <3>2. SpeedsKept'
        BY <1>1, <2>1, <3>1, SendKeepsSpeeds DEF Base!Canceled
      <3> QED
        BY <2>0, <2>1, <3>2 DEF Base!Canceled
    <2>2. ASSUME NEW d \in 1..2, Base!TickRamp(d)
          PROVE  /\ det' = det /\ seen' = seen /\ SpeedsKept' /\ now' \in Nat /\ now' >= now
                 /\ driving' => driving
      <3>1. Base!Last - Decel * d \in Int
        BY <1>1
      <3>2. Base!Max({0, Base!Last - Decel * d}) \in Int
        BY ONLY <3>1, BrakedIs
      <3>3. SpeedsKept'
        BY <1>1, <2>2, <3>2, SendKeepsSpeeds DEF Base!TickRamp
      <3> QED
        BY <2>0, <2>2, <3>3 DEF Base!TickRamp
    <2>3. ASSUME NEW does, Base!Monitor(does)
          PROVE  /\ det' = det /\ seen' = seen /\ SpeedsKept' /\ now' \in Nat /\ now' >= now
                 /\ driving' => driving
      <3>1. SpeedsKept'
        BY <1>1, <2>3, MonitorKeepsSpeeds
      <3> QED
        BY <2>0, <2>3, <3>1 DEF Base!Monitor
    <2>4. CASE Base!Lose
      <3>1. SpeedsKept'
        BY <1>1, <2>4, HeadTailProperties DEF Base!Lose, SpeedsKept
      <3> QED
        BY <2>0, <2>4, <3>1 DEF Base!Lose
    <2>5. CASE Base!OnMonitorState
      BY <1>1, <2>0, <2>5 DEF Base!OnMonitorState, SpeedsKept
    <2>6. CASE UNCHANGED Base!vars
      BY <1>1, <2>0, <2>6 DEF Base!vars, SpeedsKept
    <2> QED
      BY <2>1, <2>2, <2>3, <2>4, <2>5, <2>6
  <1>3. det' \in Detectors /\ seen' \in Observations
    BY <1>2 DEF BlockedInv
  <1>4. Base!BlockedTimeOnce'
    <2>1. /\ det.blocked \in Int /\ seen.anchoredAt \in Int /\ now \in Int
          /\ det.blocked <= now - seen.anchoredAt
      BY DEF BlockedInv, Detectors, Observations, Base!BlockedTimeOnce
    <2>2. det.blocked <= now' - seen.anchoredAt
      BY <1>2, <2>1
    <2> QED
      BY <1>2, <2>2 DEF Base!BlockedTimeOnce
  <1>5. driving' => Counting'
    <2> SUFFICES ASSUME driving' PROVE Counting'
      OBVIOUS
    <2>1. Counting
      BY <1>2 DEF BlockedInv
    <2>2. det.last \in 0..now'
      BY <1>2, <2>1 DEF Counting, BlockedInv
    <2> QED
      BY <1>2, <2>1, <2>2 DEF Counting
  <1>6. Base!BlockedEarned
    BY <1>2 DEF Base!BlockedEarned
  <1> QED
    BY <1>2, <1>3, <1>4, <1>5, <1>6 DEF BlockedInv

\* A cycle sends one command, and drives on only when it has not failed.
LEMMA CycleSends ==
  ASSUME Base!Parameters, BlockedInv, NEW starting \in BOOLEAN, NEW d \in 1..2,
         NEW moved \in 0..d, NEW rest \in BOOLEAN, Base!Cycle(starting, d, moved, rest)
  PROVE  /\ driving' => det'.state # "Failed"
         /\ (\E v \in Int : Base!SendBase(v)) /\ told' = told /\ scaled' = scaled
  <1> DEFINE previous == Base!Previous(now + d)
             failed == Base!Max({0, Base!Last - Decel})
  <1>1. told' = told /\ scaled' = scaled /\ IF det'.state = "Failed"
          THEN Base!SendBase(failed) /\ driving' = FALSE
          ELSE /\ \E v \in Base!Sendable(det'.state = "Blocked", previous, d) : Base!SendBase(v)
               /\ driving' = TRUE
    BY DEF Base!Cycle
  <1>2. failed \in Int
    <2>1. Base!Last - Decel \in Int
      BY SpeedsOf DEF BlockedInv, Base!Parameters
    <2> QED
      BY ONLY <2>1, BrakedIs
  <1>3. \A held : Base!Sendable(held, previous, d) \subseteq Int
    BY DEF Base!Sendable, Base!Parameters
  <1> HIDE DEF previous, failed
  <1>4. CASE det'.state = "Failed"
    BY <1>1, <1>2, <1>4
  <1>5. CASE det'.state # "Failed"
    BY <1>1, <1>3, <1>5
  <1> QED
    BY <1>4, <1>5

LEMMA CycleKeepsBlocked ==
  ASSUME Base!Parameters, BlockedInv, NEW starting \in BOOLEAN, NEW d \in 1..2,
         NEW moved \in 0..d, NEW rest \in BOOLEAN, Base!Cycle(starting, d, moved, rest)
  PROVE  BlockedInv' /\ Base!BlockedEarned
  <1>1. /\ driving' => det'.state # "Failed"
        /\ (\E v \in Int : Base!SendBase(v)) /\ told' = told /\ scaled' = scaled
    BY CycleSends
  <1>2. SpeedsKept'
    BY <1>1, SendKeepsSpeeds DEF BlockedInv
  <1>3. CASE starting
    <2>1. starting = TRUE /\ Base!Cycle(TRUE, d, moved, rest)
      BY <1>3
    <2>2. /\ det' \in Detectors /\ seen' \in Observations /\ now' \in Nat
          /\ Counting' /\ det'.state = "Clear" /\ seen'.anchoredAt = now' /\ det'.blocked = 0
      BY <2>1, StartCounts
    <2>3. Base!BlockedTimeOnce'
      <3>1. \A t \in Nat : 0 <= t - t
        OBVIOUS
      <3> QED
        BY <2>2, <3>1 DEF Base!BlockedTimeOnce
    <2> QED
      BY <1>2, <2>2, <2>3 DEF BlockedInv, Base!BlockedEarned
  <1>4. CASE ~starting
    <2>1. starting = FALSE /\ Base!Cycle(FALSE, d, moved, rest)
      BY <1>4
    <2>2. driving
      BY <2>1 DEF Base!Cycle
    <2>3. /\ det' \in Detectors /\ seen' \in Observations /\ now' \in Nat
          /\ det'.state # "Failed" => Counting'
          /\ det'.blocked <= now' - seen'.anchoredAt
          /\ Base!BlockedEarned
      BY <2>1, <2>2, CycleCounts
    <2> QED
      BY <1>1, <1>2, <2>3 DEF BlockedInv, Base!BlockedTimeOnce
  <1> QED
    BY <1>3, <1>4

LEMMA BlockedStart ==
  ASSUME Base!Parameters, Base!Init
  PROVE  BlockedInv
  <1>1. det \in Detectors /\ det.blocked = 0
    BY DEF Base!Init, Base!Restarted, Base!Never, Detectors
  <1>2. seen \in Observations /\ seen.anchoredAt = 0
    BY DEF Base!Init, Base!Never, Observations
  <1>3. SpeedsKept
    BY DEF Base!Init, Base!Never, SpeedsKept
  <1> QED
    BY <1>1, <1>2, <1>3 DEF Base!Init, BlockedInv, Base!BlockedTimeOnce

LEMMA BlockedStep ==
  ASSUME Base!Parameters, BlockedInv, [Base!Next]_Base!vars
  PROVE  BlockedInv' /\ Base!BlockedEarned
  <1>1. ASSUME NEW starting \in BOOLEAN, NEW d \in 1..2, NEW moved \in 0..d, NEW rest \in BOOLEAN,
               Base!Cycle(starting, d, moved, rest)
        PROVE  BlockedInv' /\ Base!BlockedEarned
    BY <1>1, CycleKeepsBlocked
  <1> QED
    BY <1>1, OthersCount DEF Base!Next

\* A goal fails as blocked only after it made no progress for as long as was
\* counted, and a base is called blocked only when it stood and was asked to move
\* for the whole window: for every window, pause and breakaway that
\* load_mpc_config admits, and however the collision monitor passes, slows,
\* stops or loses the commands (blocked_detector.cpp, update).
THEOREM BlockedCountsTrue ==
  ASSUME Base!Parameters
  PROVE  Base!Spec => []Base!BlockedTimeOnce /\ [][Base!BlockedEarned]_Base!vars
  <1>1. Base!Init => BlockedInv
    BY BlockedStart
  <1>2. BlockedInv /\ [Base!Next]_Base!vars => BlockedInv' /\ Base!BlockedEarned
    BY BlockedStep
  <1>3. BlockedInv => Base!BlockedTimeOnce
    BY DEF BlockedInv
  <1> QED
    BY <1>1, <1>2, <1>3, PTL DEF Base!Spec

\* While the monitor changed and lost nothing, what it has not handled yet is the
\* end of what was sent, and the command it executed is the one sent before that.
HandledInOrder ==
  ~scaled =>
    /\ Len(sent) < Kept => Len(inbox) <= Len(sent)
    /\ \A j \in 1..Len(sent) :
         j <= Len(inbox) => sent[Len(sent) - j + 1] = inbox[Len(inbox) - j + 1]
    /\ told.at # -1 => Len(inbox) < Len(sent) \/ Len(sent) = Kept
    /\ told.at # -1 /\ Len(inbox) < Len(sent) => told.v = sent[Len(sent) - Len(inbox)]

CommandsInv == BlockedInv /\ Len(sent) <= Kept /\ HandledInOrder

LEMMA SentInOrder ==
  ASSUME Base!Parameters, CommandsInv, NEW v \in Int, Base!SendBase(v), told' = told, scaled' = scaled
  PROVE  Len(sent') <= Kept /\ HandledInOrder'
  <1> DEFINE n == Len(sent)
             m == Len(inbox)
  <1>1. /\ sent \in Seq(Int) /\ inbox \in Seq(Int) /\ Kept \in Nat \ {0}
        /\ n \in Nat /\ m \in Nat /\ n <= Kept
    BY DEF CommandsInv, BlockedInv, SpeedsKept, Base!Parameters
  <1>2. /\ inbox' = Append(inbox, v) /\ Len(inbox') = m + 1 /\ inbox'[m + 1] = v
        /\ \A i \in 1..m : inbox'[i] = inbox[i]
    BY <1>1 DEF Base!SendBase
  <1>3. CASE n < Kept
    <2>1. /\ Len(sent') = n + 1 /\ sent'[n + 1] = v /\ \A i \in 1..n : sent'[i] = sent[i]
      BY <1>1, <1>3 DEF Base!SendBase
    <2> SUFFICES ASSUME ~scaled
                 PROVE  /\ Len(inbox') <= Len(sent')
                        /\ \A j \in 1..Len(sent') : j <= Len(inbox') =>
                             sent'[Len(sent') - j + 1] = inbox'[Len(inbox') - j + 1]
                        /\ told.at # -1 => Len(inbox') < Len(sent')
                        /\ told.at # -1 => told.v = sent'[Len(sent') - Len(inbox')]
      BY <1>1, <1>3, <2>1 DEF HandledInOrder
    <2>2. /\ m <= n
          /\ \A j \in 1..n : j <= m => sent[n - j + 1] = inbox[m - j + 1]
          /\ told.at # -1 => m < n /\ told.v = sent[n - m]
      <3>1. /\ n < Kept => m <= n
            /\ \A j \in 1..n : j <= m => sent[n - j + 1] = inbox[m - j + 1]
            /\ told.at # -1 => m < n \/ n = Kept
            /\ told.at # -1 /\ m < n => told.v = sent[n - m]
        BY DEF CommandsInv, HandledInOrder
      <3>2. n # Kept
        BY <1>1, <1>3
      <3> HIDE DEF n, m
      <3> QED
        BY <1>3, <3>1, <3>2
    <2>3. ASSUME NEW j \in 1..(n + 1), j <= m + 1
          PROVE  sent'[(n + 1) - j + 1] = inbox'[(m + 1) - j + 1]
      <3>1. CASE j = 1
        BY <1>1, <1>2, <2>1, <3>1
      <3>2. CASE j # 1
        <4> DEFINE i == j - 1
        <4>1. /\ i \in 1..n /\ i <= m /\ (n + 1) - j + 1 = n - i + 1 /\ (m + 1) - j + 1 = m - i + 1
              /\ n - i + 1 \in 1..n /\ m - i + 1 \in 1..m
          BY <1>1, <2>3, <3>2
        <4> HIDE DEF i
        <4> QED
          BY <1>2, <2>1, <2>2, <4>1
      <3> QED
        BY <3>1, <3>2
    <2>4. ASSUME told.at # -1
          PROVE  m + 1 < n + 1 /\ told.v = sent'[(n + 1) - (m + 1)]
      <3>1. m < n /\ told.v = sent[n - m]
        BY <2>2, <2>4
      <3>2. n - m \in 1..n /\ (n + 1) - (m + 1) = n - m /\ m + 1 < n + 1
        BY <1>1, <3>1
      <3> QED
        BY <2>1, <3>1, <3>2
    <2>5. m + 1 <= n + 1
      BY <1>1, <2>2
    <2>6. Len(sent') = n + 1 /\ Len(inbox') = m + 1
      BY <1>2, <2>1
    <2>7. \A j \in 1..(n + 1) : j <= m + 1 => sent'[(n + 1) - j + 1] = inbox'[(m + 1) - j + 1]
      BY <2>3
    <2> HIDE DEF n, m
    <2>8. Len(inbox') <= Len(sent')
      BY ONLY <2>5, <2>6
    <2>9. \A j \in 1..Len(sent') : j <= Len(inbox') =>
            sent'[Len(sent') - j + 1] = inbox'[Len(inbox') - j + 1]
      BY ONLY <2>6, <2>7
    <2>10. told.at # -1 => Len(inbox') < Len(sent') /\ told.v = sent'[Len(sent') - Len(inbox')]
      BY ONLY <2>4, <2>6, Zenon
    <2> QED
      BY ONLY <2>8, <2>9, <2>10
  <1>4. CASE n = Kept
    <2>1. /\ Len(sent') = n /\ sent'[n] = v /\ \A i \in 1..(n - 1) : sent'[i] = sent[i + 1]
      <3>1. sent # <<>> /\ sent' = Append(Tail(sent), v)
        BY <1>1, <1>4 DEF Base!SendBase
      <3>2. /\ Tail(sent) \in Seq(Int) /\ Len(Tail(sent)) = n - 1
            /\ \A i \in 1..(n - 1) : Tail(sent)[i] = sent[i + 1]
        BY <1>1, <3>1, HeadTailProperties
      <3> QED
        BY <1>1, <3>1, <3>2
    <2> SUFFICES ASSUME ~scaled
                 PROVE  /\ \A j \in 1..Len(sent') : j <= Len(inbox') =>
                             sent'[Len(sent') - j + 1] = inbox'[Len(inbox') - j + 1]
                        /\ told.at # -1 /\ Len(inbox') < Len(sent') =>
                             told.v = sent'[Len(sent') - Len(inbox')]
      BY <1>1, <1>4, <2>1 DEF HandledInOrder
    <2>2. /\ \A j \in 1..n : j <= m => sent[n - j + 1] = inbox[m - j + 1]
          /\ told.at # -1 /\ m < n => told.v = sent[n - m]
      BY <1>1, <1>4 DEF CommandsInv, HandledInOrder
    <2>3. ASSUME NEW j \in 1..n, j <= m + 1
          PROVE  sent'[n - j + 1] = inbox'[(m + 1) - j + 1]
      <3>1. CASE j = 1
        BY <1>1, <1>2, <2>1, <3>1
      <3>2. CASE j # 1
        <4> DEFINE i == j - 1
        <4>1. /\ i \in 1..n /\ i <= m /\ (m + 1) - j + 1 = m - i + 1 /\ m - i + 1 \in 1..m
              /\ n - j + 1 \in 1..(n - 1) /\ (n - j + 1) + 1 = n - i + 1
          BY <1>1, <2>3, <3>2
        <4> HIDE DEF i
        <4> QED
          BY <1>2, <2>1, <2>2, <4>1
      <3> QED
        BY <3>1, <3>2
    <2>4. ASSUME told.at # -1, m + 1 < n
          PROVE  told.v = sent'[n - (m + 1)]
      <3>1. m < n /\ n - (m + 1) \in 1..(n - 1) /\ n - (m + 1) + 1 = n - m
        BY <1>1, <2>4
      <3> QED
        BY <2>1, <2>2, <2>4, <3>1
    <2> QED
      BY <1>1, <1>2, <2>1, <2>3, <2>4
  <1> QED
    BY <1>1, <1>3, <1>4

LEMMA MonitoredInOrder ==
  ASSUME Base!Parameters, CommandsInv, NEW does, Base!Monitor(does)
  PROVE  HandledInOrder'
  <1> DEFINE n == Len(sent)
             m == Len(inbox)
  <1>1. /\ sent \in Seq(Int) /\ inbox \in Seq(Int) /\ n \in Nat /\ m \in Nat /\ m > 0
        /\ n <= Kept /\ Kept \in Nat
    BY DEF CommandsInv, BlockedInv, SpeedsKept, Base!Parameters, Base!Monitor
  <1>2. /\ sent' = sent /\ Len(inbox') = m - 1
        /\ \A i \in 1..(m - 1) : inbox'[i] = inbox[i + 1]
    BY <1>1, HeadTailProperties DEF Base!Monitor
  <1>3. ~scaled' => ~scaled /\ told'.v = inbox[1]
    <2> DEFINE v == CASE does = "pass" -> Head(inbox) [] does = "slow" -> Head(inbox) \div 2 [] OTHER -> 0
    <2>1. told' = [v |-> v, at |-> now] /\ scaled' = (scaled \/ v # Head(inbox))
      BY DEF Base!Monitor
    <2>2. Head(inbox) = inbox[1]
      BY <1>1
    <2> HIDE DEF v
    <2> QED
      BY <2>1, <2>2
  <1> SUFFICES ASSUME ~scaled'
               PROVE  /\ n < Kept => m - 1 <= n
                      /\ \A j \in 1..n : j <= m - 1 => sent[n - j + 1] = inbox'[m - 1 - j + 1]
                      /\ m - 1 < n \/ n = Kept
                      /\ m - 1 < n => told'.v = sent[n - (m - 1)]
    BY <1>2 DEF HandledInOrder
  <1>4. /\ n < Kept => m <= n
        /\ \A j \in 1..n : j <= m => sent[n - j + 1] = inbox[m - j + 1]
    BY <1>3 DEF CommandsInv, HandledInOrder
  <1>5. ASSUME NEW j \in 1..n, j <= m - 1
        PROVE  sent[n - j + 1] = inbox'[m - 1 - j + 1]
    <2> DEFINE i == m - 1 - j + 1
    <2>1. i \in 1..(m - 1) /\ i + 1 = m - j + 1 /\ j <= m
      BY <1>1, <1>5
    <2> HIDE DEF i, n, m
    <2>2. inbox'[i] = inbox[m - j + 1]
      BY <1>2, <2>1
    <2>3. sent[n - j + 1] = inbox[m - j + 1]
      BY <1>4, <2>1
    <2> QED
      BY <2>2, <2>3 DEF i
  <1>6. ASSUME m - 1 < n
        PROVE  told'.v = sent[n - (m - 1)]
    <2>1. m \in 1..n /\ n - m + 1 = n - (m - 1) /\ m - m + 1 = 1 /\ m <= m
      BY <1>1, <1>6
    <2>2. sent[n - m + 1] = inbox[m - m + 1]
      BY <1>4, <2>1
    <2> QED
      BY <1>3, <2>1, <2>2
  <1> QED
    BY <1>1, <1>4, <1>5, <1>6

\* A step sends, or the monitor takes a command, or no command moves.
LEMMA CommandsMove ==
  ASSUME Base!Parameters, CommandsInv, [Base!Next]_Base!vars
  PROVE  \/ (\E v \in Int : Base!SendBase(v)) /\ told' = told /\ scaled' = scaled
         \/ \E does : Base!Monitor(does)
         \/ Base!Lose
         \/ sent' = sent /\ inbox' = inbox /\ told' = told /\ scaled' = scaled
  <1>1. ASSUME NEW starting \in BOOLEAN, NEW d \in 1..2, NEW moved \in 0..d, NEW rest \in BOOLEAN,
               Base!Cycle(starting, d, moved, rest)
        PROVE  (\E v \in Int : Base!SendBase(v)) /\ told' = told /\ scaled' = scaled
    BY <1>1, CycleSends DEF CommandsInv
  <1>2. Base!Last \in Int /\ Decel \in Nat
    BY SpeedsOf DEF CommandsInv, BlockedInv, Base!Parameters
  <1>3. CASE Base!Canceled
    <2>1. Base!Last - Decel \in Int
      BY <1>2
    <2>2. Base!Max({0, Base!Last - Decel}) \in Int
      BY ONLY <2>1, BrakedIs
    <2> QED
      BY <1>3, <2>2 DEF Base!Canceled
  <1>4. ASSUME NEW d \in 1..2, Base!TickRamp(d)
        PROVE  (\E v \in Int : Base!SendBase(v)) /\ told' = told /\ scaled' = scaled
    <2>1. Base!Last - Decel * d \in Int
      BY <1>2
    <2>2. Base!Max({0, Base!Last - Decel * d}) \in Int
      BY ONLY <2>1, BrakedIs
    <2> QED
      BY <1>4, <2>2 DEF Base!TickRamp
  <1>5. CASE Base!OnMonitorState
    BY <1>5 DEF Base!OnMonitorState
  <1>6. CASE UNCHANGED Base!vars
    BY <1>6 DEF Base!vars
  <1> QED
    BY <1>1, <1>3, <1>4, <1>5, <1>6 DEF Base!Next

\* A monitor that changes and loses nothing, and whose output lags by fewer
\* commands than are kept, never changes the command the controller continues
\* from, however many are on their way and for how long (executed_command.cpp,
\* previous).
THEOREM PassesThrough ==
  ASSUME Base!Parameters
  PROVE  Base!Spec => []Base!PassedThrough
  <1>1. Base!Init => CommandsInv
    <2> SUFFICES ASSUME Base!Init PROVE CommandsInv
      OBVIOUS
    <2>1. sent = <<>> /\ inbox = <<>> /\ told.at = -1 /\ Kept \in Nat
      BY DEF Base!Init, Base!Never, Base!Parameters
    <2>2. Len(sent) <= Kept /\ HandledInOrder
      BY <2>1 DEF HandledInOrder
    <2> QED
      BY <2>2, BlockedStart DEF CommandsInv
  <1>2. CommandsInv /\ [Base!Next]_Base!vars => CommandsInv'
    <2> SUFFICES ASSUME CommandsInv, [Base!Next]_Base!vars PROVE CommandsInv'
      OBVIOUS
    <2>1. BlockedInv'
      BY BlockedStep DEF CommandsInv
    <2>2. Len(sent') <= Kept /\ HandledInOrder'
      <3>1. CASE (\E v \in Int : Base!SendBase(v)) /\ told' = told /\ scaled' = scaled
        BY <3>1, SentInOrder
      <3>2. CASE \E does : Base!Monitor(does)
        <4>1. sent' = sent
          BY <3>2 DEF Base!Monitor
        <4> QED
          BY <3>2, <4>1, MonitoredInOrder DEF CommandsInv
      <3>3. CASE Base!Lose
        BY <3>3 DEF CommandsInv, HandledInOrder, Base!Lose
      <3>4. CASE sent' = sent /\ inbox' = inbox /\ told' = told /\ scaled' = scaled
        BY <3>4 DEF CommandsInv, HandledInOrder
      <3> QED
        BY <3>1, <3>2, <3>3, <3>4, CommandsMove
    <2> QED
      BY <2>1, <2>2 DEF CommandsInv
  <1>3. CommandsInv => Base!PassedThrough
    <2> SUFFICES ASSUME CommandsInv, ~scaled, Len(inbox) < Kept, Base!Fresh(now)
                 PROVE  Base!Previous(now) = Base!Last
      BY DEF Base!PassedThrough
    <2>1. /\ Len(sent) \in Nat /\ Len(inbox) \in Nat /\ Kept \in Nat /\ Len(sent) <= Kept
          /\ sent \in Seq(Int)
      BY DEF CommandsInv, BlockedInv, SpeedsKept, Base!Parameters
    <2>2. told.at # -1
      BY DEF Base!Fresh, Base!Never
    <2>3. Len(inbox) < Len(sent) /\ told.v = sent[Len(sent) - Len(inbox)]
      <3>1. /\ Len(inbox) < Len(sent) \/ Len(sent) = Kept
            /\ Len(inbox) < Len(sent) => told.v = sent[Len(sent) - Len(inbox)]
        BY <2>2 DEF CommandsInv, HandledInOrder
      <3> QED
        BY <2>1, <3>1
    <2>4. Len(sent) - Len(inbox) \in DOMAIN sent
      BY <2>1, <2>3
    <2> QED
      BY <2>3, <2>4 DEF Base!Previous
  <1> QED
    BY <1>1, <1>2, <1>3, PTL DEF Base!Spec
=============================================================================

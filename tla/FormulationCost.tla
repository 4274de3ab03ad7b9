-------------------------- MODULE FormulationCost --------------------------
(***************************************************************************)
(* The cost of formulation.cpp, written down twice: build() gives the      *)
(* solver the quadratic cost of a deviation from the nominal plan,         *)
(* objective() the cost of a plan itself, which decides whether a second   *)
(* iterate is kept.                                                        *)
(*                                                                         *)
(* One axis of the state is followed, with the control that moves it: the  *)
(* progress along the route, the distance across it, the heading, or a     *)
(* joint. The residuals are then linear, as build() makes them; weights    *)
(* that fade (near the goal, near a panel reference) are 0 or 1. Costs are *)
(* doubled.                                                                *)
(***************************************************************************)
EXTENDS Integers, SequencesExt, FiniteSetsExt

CONSTANTS
  Horizon,           \* Formulation::horizon_
  Positions,         \* where the robot may be measured
  Controls,          \* controls of the nominal plan, and the last command
  Changes,           \* deviations
  Goal,              \* goal_s
  VMax, Breakaway,   \* limits_.v_max, limits_.breakaway.linear_mps
  Taper,             \* kProgressTaperM
  W                  \* Weights

VARIABLES
  in,      \* Inputs, and what it says of every stage
  nominal, \* the nominal controls
  qp       \* the quadratic cost of every stage

vars == <<in, nominal, qp>>

\* load_mpc_config, load_limits: speeds within which the base breaks away, weights
\* that are numbers, the medium posture's not negative.
Parameters ==
  /\ Horizon \in Nat \ {0} /\ Goal \in Nat /\ Taper \in Nat \ {0}
  /\ Breakaway \in 0..VMax
  /\ Positions \cup Controls \cup Changes \subseteq Int
  /\ \A w \in DOMAIN W : W[w] \in Int
  /\ W.mediumPosture >= 0

Stages == 0..Horizon - 1
CostAxes == {"along", "across", "heading", "joint"}
NoQp == <<>>

-----------------------------------------------------------------------------
\* Inputs: the measured position on the axis, the last command, the medium
\* reference's speed if there is one, the posture's mode and the side's choice,
\* and of every stage: is it close to the goal, near a panel reference.
Inputs ==
  [axis : CostAxes, x0 : Positions, last : Controls, medium : BOOLEAN, speed : {0, VMax},
   mode : {"blend", "comfort_only", "none"}, tight : BOOLEAN, align : {0, 1}, close : {0, 1}, panel : {0, 1}]

\* The model's rollout on one axis.
State(x0, u, k) == x0 + FoldLeft(+, 0, [j \in 1..k |-> u[j - 1]])

\* The speed the route asks for at a progress: none at the goal, tapered before
\* it, a medium reference's within that; and where the lag residual pulls to.
OwnSpeed(s) == IF Goal - s >= Taper THEN VMax ELSE Max({Breakaway, (VMax * (Goal - s)) \div Taper})
ProgressSpeed(i, s) == IF s >= Goal THEN 0 ELSE IF i.medium THEN Min({i.speed, OwnSpeed(s)}) ELSE OwnSpeed(s)
LagReference(i, s) == Min({Goal, s + ProgressSpeed(i, s)})

\* The targets of the arm: the panel reference's joint, or the posture's.
PostureTarget(i) ==
  IF i.medium THEN W.mediumJoint ELSE IF i.mode = "blend" /\ i.tight THEN W.tightJoint ELSE W.comfortJoint
PostureWeight(i) == IF i.medium THEN W.mediumPosture ELSE IF i.mode = "none" THEN 0 ELSE W.posture

\* The residuals of a stage's state, each with its weight: [w, at] stands for
\* 0.5 w (x - at)^2. The progress s is the anchor's.
Residual(w, at) == [w |-> w, at |-> at]
StateResiduals(i, s) ==
  CASE i.axis = "along" -> <<Residual(W.lag, LagReference(i, s))>>
    [] i.axis = "across" -> <<Residual(W.contour, 0)>>
    [] i.axis = "heading" ->
         <<Residual(W.heading * (1 - i.close), IF i.medium THEN W.mediumYaw ELSE W.pathYaw),
           Residual(W.goalHeading * i.close * i.align, W.goalYaw)>>
    [] i.axis = "joint" ->
         <<Residual(W.panel * i.panel, W.panelJoint), Residual(PostureWeight(i) * (1 - i.panel), PostureTarget(i))>>

ProgressTarget(i, s) == IF i.axis = "along" THEN ProgressSpeed(i, s) ELSE 0
ProgressWeight(i) == IF i.axis = "along" THEN W.progress ELSE 0
Effort(i) == CASE i.axis = "heading" -> W.effortBase [] i.axis = "joint" -> W.effortArm [] OTHER -> 0
Smooth(i) == IF i.axis = "joint" THEN W.smoothArm ELSE W.smoothBase
Previous(i, u, k) == IF k = 0 THEN i.last ELSE u[k - 1]

-----------------------------------------------------------------------------
\* build(): the cost of a stage's deviation (dx, dprev, du), all terms of the
\* second order around the nominal plan; the state of stage 0 is fixed.
SumOf(f(_), s) == FoldLeft(LAMBDA acc, r : acc + f(r), 0, s)
StageQp(i, u, k) ==
  LET x == State(i.x0, u, k)
      state == IF k = 0 THEN <<>> ELSE StateResiduals(i, x)
      change == IF k = Horizon THEN 0 ELSE u[k] - Previous(i, u, k)
      smooth == IF k = Horizon THEN 0 ELSE Smooth(i)
  IN  [Q |-> SumOf(LAMBDA r : r.w, state), q |-> SumOf(LAMBDA r : r.w * (x - r.at), state),
       Qprev |-> smooth, qprev |-> -(smooth * change), S |-> -smooth,
       R |-> IF k = Horizon THEN 0 ELSE ProgressWeight(i) + Effort(i) + smooth,
       r |-> IF k = Horizon THEN 0
             ELSE ProgressWeight(i) * (u[k] - ProgressTarget(i, x)) + Effort(i) * u[k] + smooth * change]

\* objective(): the plan's own residuals, with the progress, the references and
\* the target speeds of the anchor.
Objective(i, u, anchor) ==
  LET Cost(r, x) == r.w * (x - r.at) * (x - r.at)
      OfState(k) == SumOf(LAMBDA r : Cost(r, State(i.x0, u, k)), StateResiduals(i, State(i.x0, anchor, k)))
      OfControl(k) ==
        Cost(Residual(ProgressWeight(i), ProgressTarget(i, State(i.x0, anchor, k))), u[k])
          + Cost(Residual(Effort(i), 0), u[k]) + Cost(Residual(Smooth(i), Previous(i, u, k)), u[k])
  IN  MapThenSumSet(OfState, 1..Horizon) + MapThenSumSet(OfControl, Stages)

-----------------------------------------------------------------------------
Init == in \in Inputs /\ nominal = [k \in Stages |-> 0] /\ qp = NoQp

Build ==
  /\ qp = NoQp
  /\ qp' = [k \in 0..Horizon |-> StageQp(in, nominal, k)]
  /\ UNCHANGED <<in, nominal>>

\* The next problem is built around the solution, of the same cycle or a later one.
Iterate(d) ==
  /\ qp # NoQp
  /\ \A k \in Stages : nominal[k] + d[k] \in Controls
  /\ nominal' = [k \in Stages |-> nominal[k] + d[k]]
  /\ qp' = NoQp
  /\ UNCHANGED in

Next == Build \/ \E d \in [Stages -> Changes] : Iterate(d)

Spec == Init /\ [][Next]_vars

-----------------------------------------------------------------------------
\* The types of the state.
TypeOK ==
  /\ in \in Inputs /\ nominal \in [Stages -> Controls]
  /\ qp = NoQp \/ DOMAIN qp = 0..Horizon

\* What the solver minimises is the change of the objective: for every deviation
\* the QP's cost is the objective of the deviated plan less the nominal's, with
\* the nominal as the anchor ("the cost build() linearizes", formulation.hpp:300).
\* Otherwise a second iterate would be kept or dropped by another cost than the
\* one it was solved for.
QpCost(d) ==
  LET Dev(k) == State(0, d, k)
      Prev(k) == IF k = 0 \/ k = Horizon THEN 0 ELSE d[k - 1]
      Du(k) == IF k = Horizon THEN 0 ELSE d[k]
      Of(k) == LET p == qp[k]
               IN  p.Q * Dev(k) * Dev(k) + 2 * p.q * Dev(k) + p.Qprev * Prev(k) * Prev(k) + 2 * p.qprev * Prev(k)
                     + 2 * p.S * Prev(k) * Du(k) + p.R * Du(k) * Du(k) + 2 * p.r * Du(k)
  IN  MapThenSumSet(Of, 0..Horizon)
CostIsObjective ==
  qp # NoQp => \A d \in [Stages -> Changes] :
    QpCost(d) = Objective(in, [k \in Stages |-> nominal[k] + d[k]], nominal) - Objective(in, nominal, nominal)
=============================================================================

--------------------------- MODULE MediumProblem ---------------------------
(***************************************************************************)
(* The constraints of the medium-horizon problem, problem.cpp: the rows    *)
(* linearize() gives the QP around a nominal trajectory, soft ones with a  *)
(* slack per kind and the hull rows hard or elastic, and the violations    *)
(* merit() prices on the trajectory itself.                                *)
(*                                                                         *)
(* A trajectory is the base's progress and one planned joint at the        *)
(* samples (a parameter per sample and coordinate: the basis maps are      *)
(* linear); another joint is not planned and keeps its angle. Distances    *)
(* and torques are linear in them. The cost is the subject of              *)
(* FormulationCost, of which it is a variant, and is left out.             *)
(***************************************************************************)
EXTENDS Integers, SequencesExt, FiniteSetsExt

CONSTANTS
  End,                       \* the last sample, samples() - 1
  Progress, Angles,          \* nominal values of the base and of the joint
  StartRates,                \* rates of the base at the start
  Resting,                   \* torques of the joint that is not planned, in limits
  Changes,                   \* steps of a parameter
  Obstacle, Margin,          \* where the obstacle is, and its margin
  TorqueLimit,               \* of the planned joint
  VMax, Decel, Accel,        \* limits_
  QMin, QMax, QDMax,
  Slack, SlackQuadratic      \* weights of a slack

VARIABLES
  nominal,  \* the trajectory: [x, q : samples -> Int, v0, rest]
  step,     \* the steps of the parameters, [x, q : samples -> Int]
  rows      \* MediumQp's rows, or NoRows

vars == <<nominal, step, rows>>

\* load_medium_config: the weights of a slack are not negative; load_limits: the
\* joint's bounds are not empty.
Parameters ==
  /\ End \in Nat \ {0}
  /\ Slack >= 0 /\ SlackQuadratic >= 0
  /\ QMin <= QMax /\ QDMax > 0 /\ VMax > 0 /\ Accel > 0 /\ Decel > 0

Samples == 1..End
Kinds == {"collision", "torque", "speed", "hull"}
NoRows == <<>>
NoStep == [x |-> [k \in 0..End |-> 0], q |-> [k \in 0..End |-> 0]]

-----------------------------------------------------------------------------
\* The quantities the rows bound: linear in the parameters, so a step's share of
\* one is the quantity of the step itself. [of, at] names one of them at a sample.
Value(t, row) ==
  LET k == row.at
  IN  CASE row.of = "clearance" -> Obstacle - t.x[k]
        [] row.of = "torque"    -> t.q[k]
        [] row.of = "rest"      -> t.rest
        [] row.of = "speed"     -> t.x[k] - t.x[k - 1]
        [] row.of = "angle"     -> t.q[k]
        [] row.of = "turn"      -> t.q[k] - t.q[k - 1]
        [] row.of = "accel"     -> (t.x[k] - t.x[k - 1]) - (IF k = 1 THEN t.v0 ELSE t.x[k - 1] - t.x[k - 2])
Applied(t, d) == [t EXCEPT !.x = [k \in 0..End |-> @[k] + d.x[k]], !.q = [k \in 0..End |-> @[k] + d.q[k]]]
Share(t, d, row) == Value(Applied(t, d), row) - Value(t, row)

\* speed_bounds: 0 and v_max, widened to what braking reaches from the start.
SpeedLow(v0, k) == Min({0, v0 + Decel * k})
SpeedHigh(v0, k) == Max({VMax, v0 - Decel * k})

-----------------------------------------------------------------------------
\* A row: the step's share of a quantity within [lower, upper] (NoBound: none),
\* relaxed below or above by the slack of its kind, or not.
NoBound == 1000
Row(kind, of, k, lower, upper, relaxed) ==
  [kind |-> kind, of |-> of, at |-> k, lower |-> lower, upper |-> upper, relaxed |-> relaxed]
Down(kind, of, k, lower) == Row(kind, of, k, lower, NoBound, "lower")
Up(kind, of, k, upper) == Row(kind, of, k, -NoBound, upper, "upper")

CollisionRows(t) == [k \in Samples |-> Down("collision", "clearance", k, Margin - Value(t, [of |-> "clearance", at |-> k]))]

\* Two rows per joint with a limit, unless the joint is not planned and its
\* torque needs no bound.
TorqueRows(t) ==
  LET Pair(of, limit, k) ==
        LET tau == Value(t, [of |-> of, at |-> k])
        IN  IF of = "rest" /\ tau <= limit /\ -limit <= tau THEN <<>>
            ELSE <<Up("torque", of, k, limit - tau), Down("torque", of, k, -limit - tau)>>
  IN  FlattenSeq([k \in Samples |-> Pair("torque", TorqueLimit, k) \o Pair("rest", 1, k)])

SpeedRows(t) ==
  FlattenSeq([k \in Samples |->
    LET v == Value(t, [of |-> "speed", at |-> k])
    IN  <<Down("speed", "speed", k, SpeedLow(t.v0, k) - v), Up("speed", "speed", k, SpeedHigh(t.v0, k) - v)>>])

\* hull: hard where the nominal keeps the bound, elastic on the side it violates.
Hull(t, of, lower, upper) ==
  FlattenSeq([k \in Samples |->
    LET value == Value(t, [of |-> of, at |-> k])
    IN  IF value > upper
        THEN <<Row("hull", of, k, lower - value, NoBound, "hard"), Up("hull", of, k, upper - value)>>
        ELSE IF value < lower
        THEN <<Row("hull", of, k, -NoBound, upper - value, "hard"), Down("hull", of, k, lower - value)>>
        ELSE <<Row("hull", of, k, lower - value, upper - value, "hard")>>])
HullRows(t) == Hull(t, "angle", QMin, QMax) \o Hull(t, "turn", -QDMax, QDMax) \o Hull(t, "accel", -Accel, Accel)

Linearized(t) == CollisionRows(t) \o TorqueRows(t) \o SpeedRows(t) \o HullRows(t)

\* evaluate(): the largest violation of each kind on the trajectory itself.
Beyond(value, lower, upper) == Max({lower - value, value - upper, 0})
At(t, of, k) == Value(t, [of |-> of, at |-> k])
Violation(t, kind) ==
  Max(UNION {
    CASE kind = "collision" -> {Beyond(At(t, "clearance", k), Margin, NoBound)}
      [] kind = "torque"    -> {Beyond(At(t, "torque", k), -TorqueLimit, TorqueLimit), Beyond(t.rest, -1, 1)}
      [] kind = "speed"     -> {Beyond(At(t, "speed", k), SpeedLow(t.v0, k), SpeedHigh(t.v0, k))}
      [] kind = "hull"      -> {Beyond(At(t, "angle", k), QMin, QMax), Beyond(At(t, "turn", k), -QDMax, QDMax),
                                Beyond(At(t, "accel", k), -Accel, Accel)} : k \in Samples})
\* Violations::penalty, doubled.
Penalty(v) == MapThenSumSet(LAMBDA kind : 2 * Slack * v[kind] + SlackQuadratic * v[kind] * v[kind], Kinds)

-----------------------------------------------------------------------------
Trajectories ==
  [x : {p \in [0..End -> Progress] : p[0] = 0}, q : {p \in [0..End -> Angles] : p[0] = 0},
   v0 : StartRates, rest : Resting]
Steps ==
  [x : {p \in [0..End -> Changes] : p[0] = 0}, q : {p \in [0..End -> Changes] : p[0] = 0}]

Init == nominal \in Trajectories /\ step = NoStep /\ rows = NoRows

Linearize ==
  /\ rows = NoRows
  /\ rows' = Linearized(nominal) /\ step' = NoStep
  /\ UNCHANGED nominal

\* A solution's step, which the SCP tries on the trajectory, keeps or takes back.
Try(d) == rows # NoRows /\ step' = d /\ UNCHANGED <<nominal, rows>>

Next == Linearize \/ \E d \in Steps : Try(d)

Spec == Init /\ [][Next]_vars

-----------------------------------------------------------------------------
\* The types of the state.
TypeOK == nominal \in Trajectories /\ step \in Steps

\* What the QP pays is what merit() finds: for every step that keeps the hard
\* rows, the least slacks that satisfy the other rows are the violations of the
\* trajectory after the step, kind by kind, and cost the same ("the merit's (and
\* the QP model's, at dp = 0) price of these violations", problem.hpp:165; with
\* linear quantities at every step). The SCP's judgement of a step rests on it.
Need(row) ==
  LET share == Share(nominal, step, row)
  IN  IF row.relaxed = "lower" THEN row.lower - share ELSE IF row.relaxed = "upper" THEN share - row.upper ELSE 0
KeepsHardRows ==
  \A j \in DOMAIN rows : rows[j].relaxed = "hard" =>
    LET share == Share(nominal, step, rows[j]) IN rows[j].lower <= share /\ share <= rows[j].upper
LeastSlack == [kind \in Kinds |-> Max({0} \cup {Need(rows[j]) : j \in {i \in DOMAIN rows : rows[i].kind = kind}})]
SlackIsTheViolation ==
  rows # NoRows /\ KeepsHardRows =>
    LET after == [kind \in Kinds |-> Violation(Applied(nominal, step), kind)]
    IN  LeastSlack = after /\ Penalty(LeastSlack) = Penalty(after)

\* However far a nominal is outside its hull, the QP has a solution: to stay.
StayingIsFeasible == rows # NoRows /\ step = NoStep => KeepsHardRows
=============================================================================

---------------------------- MODULE Formulation ----------------------------
(***************************************************************************)
(* formulation.cpp: the plan the controller carries from cycle to cycle    *)
(* (hold, advance, apply) and the QP build() makes around it: the rows of  *)
(* every stage, their bounds and the numbering of the slacked rows.        *)
(*                                                                         *)
(* The axes of a control are independent in all of this, so one of them is *)
(* followed (a control is its value on that axis, the rate rows of the     *)
(* other axes count as rows only). The costs are left out, except for the  *)
(* weight each slack pays; the model's rollout of the states too.          *)
(***************************************************************************)
EXTENDS Integers, SequencesExt

CONSTANTS
  Horizon,            \* Formulation::horizon_
  ULo, UHi,           \* lower_control, upper_control
  RateLo, RateHi,     \* lower_rate, upper_rate
  Axes,               \* kNu
  Budget,             \* row_budget: pairs_per_stage, and self_pairs_per_stage with self_rows
  RowKinds,           \* distance rows: [base, inside : BOOLEAN]
  Commands,           \* last commands, as sent or as fed back
  Changes,            \* du of the solutions, stopped early or not
  EntryOn, InsideOn   \* slack_entry, slack_inside >= 0

ASSUME HorizonAssumption == Horizon \in Nat \ {0}
ASSUME LimitsAssumption ==
  /\ ULo \in Int /\ UHi \in Int /\ ULo <= 0 /\ 0 <= UHi
  /\ RateLo \in Int /\ RateHi \in Int /\ RateLo <= 0 /\ 0 <= RateHi
ASSUME DataAssumption ==
  /\ Axes \in Nat \ {0} /\ Budget \in Nat /\ Commands \subseteq Int /\ Changes \subseteq Int
  /\ RowKinds \subseteq [base : BOOLEAN, inside : BOOLEAN]

VARIABLES
  plan,     \* Plan::u, the controls of stages 0 .. Horizon - 1
  last,     \* Inputs::last_command
  problem,  \* the QP built around the plan
  du        \* the solution's control deviations

vars == <<plan, last, problem, du>>

Stages == 0..Horizon - 1
NoProblem == [stages |-> <<>>]
NoSolution == [k \in Stages |-> 0]

-----------------------------------------------------------------------------
\* cwiseMax(lo).cwiseMin(hi)
Clamp(x, lo, hi) == IF x < lo THEN lo ELSE IF x > hi THEN hi ELSE x
Previous(u, k, first) == IF k = 0 THEN first ELSE u[k - 1]
MinOf(a, b) == IF a < b THEN a ELSE b

\* The three ways a plan is made: zero controls, the one before shifted by some
\* stages with its last control repeated, and the solution's controls, from
\* stage 1 on within the rates of the one before, all within the box.
HoldPlan == [k \in Stages |-> 0]
Advanced(u, n) == [k \in Stages |-> u[MinOf(k + Clamp(n, 0, Horizon), Horizon - 1)]]
WithinRate(x, before) == Clamp(x, before + RateLo, before + RateHi)
\* Mutant: the rates of stages after the first are not kept.
ProjectedInBox(u, d, new, k) == Clamp(u[k] + d[k], ULo, UHi)
Projected(u, d, new, k) ==
  Clamp(IF k > 0 THEN WithinRate(u[k] + d[k], new[k - 1]) ELSE u[k] + d[k], ULo, UHi)
Applies(u, d, new) == \A k \in Stages : new[k] = Projected(u, d, new, k)

-----------------------------------------------------------------------------
\* A row of the QP: what it is, the bounds of a rate row, which bounds are
\* infinite, and the weight of its slack.
RateRow(change) == [is |-> "rate", lower |-> RateLo - change, upper |-> RateHi - change, open |-> {}, pays |-> "none"]
SlackedRow(is, weight) == [is |-> is, lower |-> 0, upper |-> 0, open |-> {"upper"}, pays |-> weight]
\* The inside and the entry weight are the arm's and the panel's, not the base's.
SlackWeight(r) ==
  IF InsideOn /\ ~r.base /\ r.inside THEN "inside"
  ELSE IF EntryOn /\ ~r.base /\ ~r.inside THEN "entry" ELSE "slack"
CollisionRow(r) == SlackedRow("collision", SlackWeight(r))
\* kPadLower is a finite bound.
PadRow == SlackedRow("pad", "slack")

\* A stage: the control rates, then from stage 1 on the collision rows and
\* padding up to the budget; the joint limits bound every state but the fixed one.
CollisionRows(rows) == [i \in 1..Budget |-> IF i <= Len(rows) THEN CollisionRow(rows[i]) ELSE PadRow]
RateRows(u, first, k) == [a \in 1..Axes |-> RateRow(u[k] - Previous(u, k, first))]
StageRows(u, first, rows, k) ==
  (IF k < Horizon THEN RateRows(u, first, k) ELSE <<>>) \o (IF k > 0 THEN CollisionRows(rows[k]) ELSE <<>>)
StageOf(u, first, rows, k) ==
  [rows |-> StageRows(u, first, rows, k), joints |-> k > 0,
   lower |-> IF k < Horizon THEN ULo - u[k] ELSE 0, upper |-> IF k < Horizon THEN UHi - u[k] ELSE 0]

\* The numbers of the slacked rows, counted over all stages: global_row runs up
\* by each stage's rows, and a stage's collision rows follow its rate rows.
RowCount(k) == Axes + (IF k = 0 THEN 0 ELSE Budget)
GlobalRow(k) == FoldLeft(+, 0, [j \in 1..k |-> RowCount(j - 1)])
\* Mutant: a stage's rate rows are not counted.
FirstCollisionRowOfStage(k) == GlobalRow(k)
FirstCollisionRow(k) == GlobalRow(k) + (IF k < Horizon THEN Axes ELSE 0)
SlackRowsOf == FlattenSeq([k \in 1..Horizon |-> [i \in 1..Budget |-> FirstCollisionRow(k) + i]])
SlackWeightsOf(rows) ==
  FlattenSeq([k \in 1..Horizon |->
    [i \in 1..Budget |-> IF i <= Len(rows[k]) THEN SlackWeight(rows[k][i]) ELSE "slack"]])

ProblemOf(u, first, rows) ==
  [stages |-> [k \in 1..Horizon + 1 |-> StageOf(u, first, rows, k - 1)],
   slackRows |-> SlackRowsOf, slackWeights |-> SlackWeightsOf(rows)]

-----------------------------------------------------------------------------
Init ==
  /\ plan = HoldPlan /\ du = NoSolution
  /\ last \in Commands
  /\ problem = NoProblem

\* A cold start, and a cycle of the warm one: the plan moves on by the cycles
\* that passed, to the command sent or fed back since.
Hold ==
  /\ plan' = HoldPlan
  /\ problem' = NoProblem /\ du' = NoSolution
  /\ last' \in Commands

Advance(n) ==
  /\ plan' = Advanced(plan, n)
  /\ problem' = NoProblem /\ du' = NoSolution
  /\ last' \in Commands

\* Formulation::build: more rows in a stage than the budget is an error, a row
\* of stage 0 or past the horizon is left out.
Build(rows) ==
  /\ problem = NoProblem
  /\ \A k \in 1..Horizon : Len(rows[k]) <= Budget
  /\ problem' = ProblemOf(plan, Clamp(last, ULo, UHi), rows)
  /\ UNCHANGED <<plan, last, du>>

\* Formulation::apply_in_place with what the solver returned.
Apply(d, new) ==
  /\ problem # NoProblem
  /\ Applies(plan, d, new)
  /\ plan' = new /\ du' = d
  /\ problem' = NoProblem
  /\ UNCHANGED last

Rows == [1..Horizon -> UNION {[1..n -> RowKinds] : n \in 0..Budget}]
Next ==
  \/ Hold
  \/ \E n \in 0..Horizon + 1 : Advance(n)
  \/ \E rows \in Rows : Build(rows)
  \/ \E d \in [Stages -> Changes], new \in [Stages -> ULo..UHi] : Apply(d, new)

Spec == Init /\ [][Next]_vars

-----------------------------------------------------------------------------
\* The types of the state.
TypeOK ==
  /\ plan \in [Stages -> Int] /\ du \in [Stages -> Int]
  /\ last \in Commands

\* However plans are held, shifted and corrected, every control stays in its box
\* and, from stage 1 on, within the rate limits of the one before: what is sent
\* to the base and streamed to the arm never asks for more than they can do.
InBox(u) == \A k \in Stages : u[k] \in ULo..UHi
InRates(u) == \A k \in Stages \ {0} : u[k] - u[k - 1] \in RateLo..RateHi
PlanWithinLimits == InBox(plan) /\ InRates(plan)

\* A solution that keeps the rows and boxes of its problem is executed as it is:
\* the projections of apply change nothing, and the first control is within the
\* rates of the last command (which apply itself does not look at).
Keeps(p, u, d) ==
  \A k \in Stages :
    LET stage == p.stages[k + 1]
        change == d[k] - (IF k = 0 THEN 0 ELSE d[k - 1])
    IN  /\ stage.lower <= d[k] /\ d[k] <= stage.upper
        /\ \A j \in DOMAIN stage.rows : stage.rows[j].is = "rate" =>
             stage.rows[j].lower <= change /\ change <= stage.rows[j].upper
SolutionsExecuted ==
  [][problem # NoProblem /\ du' # NoSolution /\ Keeps(problem, plan, du') =>
       /\ plan' = [k \in Stages |-> plan[k] + du'[k]]
       /\ plan'[0] - Clamp(last, ULo, UHi) \in RateLo..RateHi]_vars

\* The slacks and the rows agree, counted over the concatenated stages as the
\* solvers count them: every collision and padding row has one slack, no rate
\* row has any, and each slack pays its own row's weight.
SlackedRowsAreCollisions ==
  problem # NoProblem =>
    LET all == FlattenSeq([k \in DOMAIN problem.stages |-> problem.stages[k].rows])
    IN  /\ IsInjective(problem.slackRows)
        /\ ToSet(problem.slackRows) = {j \in DOMAIN all : all[j].is # "rate"}
        /\ \A i \in DOMAIN problem.slackRows : problem.slackWeights[i] = all[problem.slackRows[i]].pays

\* "Every call gives the same dimensions and the same finite/infinite bound
\* pattern, so a solver set up with the first problem can be reused"
\* (formulation.hpp:294-296), whatever the obstacles.
PatternOf(p) ==
  [rows |-> [k \in DOMAIN p.stages |->
     [j \in DOMAIN p.stages[k].rows |-> p.stages[k].rows[j].open]],
   joints |-> [k \in DOMAIN p.stages |-> p.stages[k].joints],
   slack |-> p.slackRows]
OnePattern ==
  problem # NoProblem => PatternOf(problem) = PatternOf(ProblemOf(HoldPlan, 0, [k \in 1..Horizon |-> <<>>]))
=============================================================================

------------------------- MODULE FormulationProofs -------------------------
(***************************************************************************)
(* The plan of formulation.cpp stays within its limits and a solution that  *)
(* keeps its problem is executed as it is, proved for every horizon, every  *)
(* limit and every row budget.                                             *)
(***************************************************************************)
EXTENDS Formulation, FiniteSetTheorems, WellFoundedInduction, TLAPS

-----------------------------------------------------------------------------
\* A clamped value is within the limits, and is the value if that was.
LEMMA Clamped ==
  ASSUME NEW x \in Int, NEW lo \in Int, NEW hi \in Int, lo <= hi
  PROVE  /\ Clamp(x, lo, hi) \in lo..hi
         /\ x \in lo..hi => Clamp(x, lo, hi) = x
  BY DEF Clamp

\* The rates are kept although the box is clamped after them: the box holds the
\* control before, so that clamping moves towards it.
LEMMA RateKept ==
  ASSUME NEW x \in Int, NEW before \in ULo..UHi
  PROVE  Clamp(WithinRate(x, before), ULo, UHi) - before \in RateLo..RateHi
  BY LimitsAssumption DEF WithinRate, Clamp

\* A value within the rates of the one before is left as it is.
LEMMA RateLeft ==
  ASSUME NEW x \in Int, NEW before \in Int, x \in before + RateLo..before + RateHi
  PROVE  WithinRate(x, before) = x
  BY LimitsAssumption DEF WithinRate, Clamp

\* The stage that a shifted plan takes its control from: it is one, and from one
\* stage to the next it moves by at most one.
LEMMA ShiftedStage ==
  ASSUME NEW n \in Int, NEW k \in Stages
  PROVE  LET at(j) == MinOf(j + Clamp(n, 0, Horizon), Horizon - 1)
         IN  /\ at(k) \in Stages
             /\ k # 0 => k - 1 \in Stages /\ at(k - 1) \in {at(k), at(k) - 1}
  <1> DEFINE shift == Clamp(n, 0, Horizon)
  <1>1. shift \in 0..Horizon
    BY HorizonAssumption, Clamped
  <1> HIDE DEF shift
  <1>2. /\ MinOf(k + shift, Horizon - 1) \in Stages
        /\ k # 0 => /\ k - 1 \in Stages
                    /\ MinOf(k - 1 + shift, Horizon - 1)
                         \in {MinOf(k + shift, Horizon - 1), MinOf(k + shift, Horizon - 1) - 1}
    BY <1>1, HorizonAssumption DEF MinOf, Stages
  <1> QED
    BY <1>2 DEF shift

-----------------------------------------------------------------------------
(***************************************************************************)
(* The three ways a plan is made.                                          *)
(***************************************************************************)
Plans == {u \in [Stages -> Int] : InBox(u) /\ InRates(u)}

\* Standing still is within every limit.
LEMMA HoldPlanKept == HoldPlan \in Plans
  <1>1. HoldPlan \in [Stages -> Int] /\ \A k \in Stages : HoldPlan[k] = 0
    BY DEF HoldPlan
  <1>2. \A k \in Stages \ {0} : k - 1 \in Stages
    BY HorizonAssumption DEF Stages
  <1> QED
    BY <1>1, <1>2, LimitsAssumption DEF Plans, InBox, InRates

\* A shifted plan repeats controls and steps of the plan, and its last control.
LEMMA AdvancedKept ==
  ASSUME NEW u \in Plans, NEW n \in Int
  PROVE  Advanced(u, n) \in Plans
  <1> DEFINE at(k) == MinOf(k + Clamp(n, 0, Horizon), Horizon - 1)
  <1>1. \A k \in Stages : at(k) \in Stages /\ Advanced(u, n)[k] = u[at(k)]
    BY ShiftedStage DEF Advanced
  <1>2. \A k \in Stages \ {0} : k - 1 \in Stages /\ at(k - 1) \in {at(k), at(k) - 1}
    BY ShiftedStage
  <1> HIDE DEF at
  <1>3. Advanced(u, n) \in [Stages -> Int] /\ InBox(Advanced(u, n))
    <2>1. Advanced(u, n) = [k \in Stages |-> Advanced(u, n)[k]]
      BY DEF Advanced
    <2> QED
      BY <1>1, <2>1 DEF Plans, InBox
  <1>4. ASSUME NEW k \in Stages \ {0}
        PROVE  Advanced(u, n)[k] - Advanced(u, n)[k - 1] \in RateLo..RateHi
    <2>1. /\ Advanced(u, n)[k] = u[at(k)] /\ Advanced(u, n)[k - 1] = u[at(k - 1)]
          /\ at(k) \in Stages /\ at(k - 1) \in Stages
      BY <1>1, <1>2
    <2>2. CASE at(k - 1) = at(k)
      <3>1. u[at(k)] \in Int
        BY <2>1 DEF Plans
      <3> QED
        BY <2>1, <2>2, <3>1, LimitsAssumption
    <2>3. CASE at(k - 1) = at(k) - 1
      <3>1. at(k) \in Stages \ {0}
        BY <2>1, <2>3 DEF Stages
      <3> QED
        BY <2>1, <2>3, <3>1 DEF Plans, InRates
    <2> QED
      BY <1>2, <2>2, <2>3
  <1> QED
    BY <1>3, <1>4 DEF Plans, InRates

\* What apply makes of a solution, whatever the solver returned.
LEMMA AppliedKept ==
  ASSUME NEW u \in [Stages -> Int], NEW d \in [Stages -> Int],
         NEW new \in [Stages -> ULo..UHi], Applies(u, d, new)
  PROVE  new \in Plans
  <1>1. ASSUME NEW k \in Stages \ {0}
        PROVE  new[k] - new[k - 1] \in RateLo..RateHi
    <2>1. k \in Stages /\ k - 1 \in Stages /\ k > 0
      BY HorizonAssumption DEF Stages
    <2>2. new[k] = Clamp(WithinRate(u[k] + d[k], new[k - 1]), ULo, UHi)
      BY <2>1 DEF Applies, Projected
    <2> QED
      BY <2>1, <2>2, RateKept
  <1>2. new \in [Stages -> Int] /\ InBox(new)
    BY LimitsAssumption DEF InBox
  <1> QED
    BY <1>1, <1>2 DEF Plans, InRates

-----------------------------------------------------------------------------
\* The inductive invariant.
PlanKept == plan \in Plans

\* Whatever a step does to the plan.
LEMMA KeptByEachStep == PlanKept /\ [Next]_vars => PlanKept'
  <1> SUFFICES ASSUME plan \in Plans, [Next]_vars
               PROVE  plan' \in Plans
    BY DEF PlanKept
  <1>1. CASE Hold
    BY <1>1, HoldPlanKept DEF Hold
  <1>2. CASE \E n \in 0..Horizon + 1 : Advance(n)
    <2>1. PICK n \in 0..Horizon + 1 : Advance(n)
      BY <1>2
    <2>2. n \in Int
      BY <2>1
    <2> QED
      BY <2>1, <2>2, AdvancedKept DEF Advance
  <1>3. CASE \E rows \in Rows : Build(rows)
    BY <1>3 DEF Build
  <1>4. CASE \E d \in [Stages -> Changes], new \in [Stages -> ULo..UHi] : Apply(d, new)
    <2>1. PICK d \in [Stages -> Changes], new \in [Stages -> ULo..UHi] : Apply(d, new)
      BY <1>4
    <2>2. d \in [Stages -> Int] /\ plan \in [Stages -> Int]
      BY DataAssumption DEF Plans
    <2>3. new \in Plans
      BY <2>1, <2>2, AppliedKept DEF Apply
    <2> QED
      BY <2>1, <2>3 DEF Apply
  <1>5. CASE UNCHANGED vars
    BY <1>5 DEF vars
  <1> QED
    BY <1>1, <1>2, <1>3, <1>4, <1>5 DEF Next

\* However plans are held, shifted and corrected, every control stays in its box
\* and, after the first, within the rates of the one before (formulation.cpp
\* hold, advance, apply_in_place).
THEOREM LimitsKept == Spec => []PlanWithinLimits
  <1>1. Init => PlanKept
    BY HoldPlanKept DEF Init, PlanKept
  <1>2. PlanKept /\ [Next]_vars => PlanKept'
    BY KeptByEachStep
  <1>3. PlanKept => PlanWithinLimits
    BY DEF PlanKept, Plans, PlanWithinLimits
  <1> QED
    BY <1>1, <1>2, <1>3, PTL DEF Spec

-----------------------------------------------------------------------------
(***************************************************************************)
(* Solutions. That apply changes nothing is shown of the first stage where *)
(* it would: before it the controls are the solution's already.            *)
(***************************************************************************)

\* A set of naturals that is not empty has a least element.
LEMMA LeastStage ==
  ASSUME NEW T, T \subseteq Nat, T # {}
  PROVE  \E x \in T : \A y \in T : x <= y
  <1> DEFINE R == OpToRel(<, Nat)
  <1>1. IsWellFoundedOn(R, Nat)
    BY NatLessThanWellFounded
  <1>2. \A x \in Nat, y \in Nat : y < x => <<y, x>> \in R
    BY DEF OpToRel
  <1> HIDE DEF R
  <1>3. PICK x \in T : \A y \in T : ~(<<y, x>> \in R)
    BY <1>1, WFMin
  <1>4. ASSUME NEW y \in T
        PROVE  x <= y
    <2>1. x \in Nat /\ y \in Nat
      OBVIOUS
    <2>2. ~(y < x)
      BY <1>2, <1>3, <2>1
    <2> QED
      BY <2>1, <2>2
  <1> QED
    BY <1>4

\* A stage of the horizon begins with a rate row, whatever rows follow.
LEMMA FirstRow ==
  ASSUME NEW rows \in Rows, NEW u, NEW first, NEW k \in Stages
  PROVE  /\ 1 \in DOMAIN StageRows(u, first, rows, k)
         /\ StageRows(u, first, rows, k)[1] = RateRow(u[k] - Previous(u, k, first))
  <1> DEFINE rate == RateRow(u[k] - Previous(u, k, first))
             others == IF k > 0 THEN CollisionRows(rows[k]) ELSE <<>>
             S == {rate} \cup {others[i] : i \in 1..Budget}
  <1>1. k < Horizon
    BY HorizonAssumption DEF Stages
  <1>2. RateRows(u, first, k) \in Seq(S) /\ Len(RateRows(u, first, k)) = Axes
        /\ RateRows(u, first, k)[1] = rate
    BY DataAssumption DEF RateRows
  <1>3. others \in Seq(S)
    BY DataAssumption DEF CollisionRows
  <1>4. StageRows(u, first, rows, k) = RateRows(u, first, k) \o others
    BY <1>1 DEF StageRows
  <1> HIDE DEF rate, others, S
  <1>5. /\ 1 \in DOMAIN (RateRows(u, first, k) \o others)
        /\ (RateRows(u, first, k) \o others)[1] = RateRows(u, first, k)[1]
    BY <1>2, <1>3, DataAssumption
  <1> QED
    BY <1>2, <1>4, <1>5 DEF rate

\* What a solution that keeps its problem keeps of every stage.
LEMMA KeptStage ==
  ASSUME NEW rows \in Rows, NEW u, NEW first, NEW d, NEW k \in Stages,
         Keeps(ProblemOf(u, first, rows), u, d)
  PROVE  LET change == d[k] - (IF k = 0 THEN 0 ELSE d[k - 1])
             before == u[k] - Previous(u, k, first)
         IN  /\ ULo - u[k] <= d[k] /\ d[k] <= UHi - u[k]
             /\ RateLo - before <= change /\ change <= RateHi - before
  <1> DEFINE stage == ProblemOf(u, first, rows).stages[k + 1]
  <1>1. stage = StageOf(u, first, rows, k)
    BY HorizonAssumption DEF ProblemOf, Stages
  <1>2. k < Horizon
    BY HorizonAssumption DEF Stages
  <1>3. /\ stage.lower = ULo - u[k] /\ stage.upper = UHi - u[k]
        /\ stage.rows = StageRows(u, first, rows, k)
    BY <1>1, <1>2 DEF StageOf
  <1>4. /\ 1 \in DOMAIN stage.rows /\ stage.rows[1] = RateRow(u[k] - Previous(u, k, first))
    BY <1>3, FirstRow
  <1> HIDE DEF stage
  <1>5. /\ stage.lower <= d[k] /\ d[k] <= stage.upper
        /\ \A j \in DOMAIN stage.rows : stage.rows[j].is = "rate" =>
             /\ stage.rows[j].lower <= d[k] - (IF k = 0 THEN 0 ELSE d[k - 1])
             /\ d[k] - (IF k = 0 THEN 0 ELSE d[k - 1]) <= stage.rows[j].upper
    BY DEF Keeps, stage
  <1> QED
    BY <1>3, <1>4, <1>5 DEF RateRow

\* The controls apply makes are the solution's.
LEMMA SolutionTaken ==
  ASSUME NEW rows \in Rows, NEW u \in [Stages -> Int], NEW first, NEW d \in [Stages -> Int],
         NEW new \in [Stages -> ULo..UHi],
         Keeps(ProblemOf(u, first, rows), u, d), Applies(u, d, new)
  PROVE  new = [k \in Stages |-> u[k] + d[k]]
  <1> DEFINE Changed == {k \in Stages : new[k] # u[k] + d[k]}
  <1>1. SUFFICES ASSUME Changed # {}
                 PROVE  FALSE
    OBVIOUS
  <1>2. Changed \subseteq Nat
    BY DEF Stages
  <1>3. PICK k \in Changed : \A j \in Changed : k <= j
    BY <1>1, <1>2, LeastStage
  <1>4. k \in Stages /\ new[k] = Projected(u, d, new, k) /\ u[k] \in Int /\ d[k] \in Int
    BY DEF Applies
  <1>5. u[k] + d[k] \in ULo..UHi
    <2>1. ULo - u[k] <= d[k] /\ d[k] <= UHi - u[k]
      BY <1>4, KeptStage
    <2> QED
      BY <1>4, <2>1, LimitsAssumption
  <1>6. CASE k = 0
    BY <1>3, <1>4, <1>5, <1>6, Clamped, LimitsAssumption DEF Projected
  <1>7. CASE k # 0
    <2>1. k - 1 \in Stages /\ k > 0
      BY <1>4, <1>7, HorizonAssumption DEF Stages
    <2>2. new[k - 1] = u[k - 1] + d[k - 1]
      BY <1>3, <2>1 DEF Stages
    <2>3. /\ u[k - 1] \in Int /\ d[k - 1] \in Int
          /\ RateLo - (u[k] - u[k - 1]) <= d[k] - d[k - 1]
          /\ d[k] - d[k - 1] <= RateHi - (u[k] - u[k - 1])
      BY <1>4, <1>7, <2>1, KeptStage DEF Previous
    <2>4. u[k] + d[k] \in new[k - 1] + RateLo..new[k - 1] + RateHi
      BY <1>4, <2>2, <2>3, LimitsAssumption
    <2>5. WithinRate(u[k] + d[k], new[k - 1]) = u[k] + d[k]
      <3>1. new[k - 1] \in Int
        BY <2>1, LimitsAssumption
      <3>2. u[k] + d[k] \in Int
        BY <1>4
      <3> QED
        BY <2>4, <3>1, <3>2, RateLeft
    <2> QED
      BY <1>3, <1>4, <1>5, <2>1, <2>5, Clamped, LimitsAssumption DEF Projected
  <1> QED
    BY <1>6, <1>7

\* The problem is the one of the plan and the last command.
ProblemMade ==
  problem # NoProblem =>
    \E rows \in Rows : problem = ProblemOf(plan, Clamp(last, ULo, UHi), rows)

FollowsPlan == PlanKept /\ last \in Int /\ ProblemMade

\* A solution that keeps its problem is executed as it is, and its first control
\* is within the rates of the last command (formulation.cpp build, apply_in_place).
THEOREM SolutionsTaken == Spec => SolutionsExecuted
  <1>1. Init => FollowsPlan
    BY HoldPlanKept, DataAssumption DEF Init, FollowsPlan, PlanKept, ProblemMade
  <1>2. FollowsPlan /\ [Next]_vars => FollowsPlan'
    <2> SUFFICES ASSUME FollowsPlan, [Next]_vars
                 PROVE  FollowsPlan'
      OBVIOUS
    <2>1. PlanKept'
      BY KeptByEachStep DEF FollowsPlan
    <2>2. CASE Hold
      BY <2>1, <2>2, DataAssumption DEF FollowsPlan, ProblemMade, Hold
    <2>3. CASE \E n \in 0..Horizon + 1 : Advance(n)
      BY <2>1, <2>3, DataAssumption DEF FollowsPlan, ProblemMade, Advance
    <2>4. CASE \E rows \in Rows : Build(rows)
      <3>1. PICK rows \in Rows : Build(rows)
        BY <2>4
      <3>2. problem' = ProblemOf(plan', Clamp(last', ULo, UHi), rows) /\ last' = last
        BY <3>1 DEF Build
      <3> QED
        BY <2>1, <3>2 DEF FollowsPlan, ProblemMade
    <2>5. CASE \E d \in [Stages -> Changes], new \in [Stages -> ULo..UHi] : Apply(d, new)
      BY <2>1, <2>5 DEF FollowsPlan, ProblemMade, Apply
    <2>6. CASE UNCHANGED vars
      BY <2>1, <2>6 DEF FollowsPlan, ProblemMade, vars
    <2> QED
      BY <2>2, <2>3, <2>4, <2>5, <2>6 DEF Next
  <1>3. FollowsPlan /\ [Next]_vars =>
          [problem # NoProblem /\ du' # NoSolution /\ Keeps(problem, plan, du') =>
             /\ plan' = [k \in Stages |-> plan[k] + du'[k]]
             /\ plan'[0] - Clamp(last, ULo, UHi) \in RateLo..RateHi]_vars
    <2> SUFFICES ASSUME FollowsPlan, Next, problem # NoProblem, du' # NoSolution,
                        Keeps(problem, plan, du')
                 PROVE  /\ plan' = [k \in Stages |-> plan[k] + du'[k]]
                        /\ plan'[0] - Clamp(last, ULo, UHi) \in RateLo..RateHi
      OBVIOUS
    <2>1. PICK d \in [Stages -> Changes], new \in [Stages -> ULo..UHi] : Apply(d, new)
      BY DEF Next, Hold, Advance, Build
    <2> DEFINE first == Clamp(last, ULo, UHi)
    <2>2. first \in Int
      BY Clamped, LimitsAssumption DEF FollowsPlan
    <2> HIDE DEF first
    <2>3. PICK rows \in Rows : problem = ProblemOf(plan, first, rows)
      BY DEF FollowsPlan, ProblemMade, first
    <2>4. plan \in [Stages -> Int] /\ d \in [Stages -> Int]
      BY DataAssumption DEF FollowsPlan, PlanKept, Plans
    <2>5. Keeps(ProblemOf(plan, first, rows), plan, d) /\ Applies(plan, d, new)
          /\ plan' = new /\ du' = d
      BY <2>1, <2>3 DEF Apply
    <2>6. new = [k \in Stages |-> plan[k] + d[k]]
      BY <2>4, <2>5, SolutionTaken
    <2>7. 0 \in Stages
      BY HorizonAssumption DEF Stages
    <2>8. RateLo - (plan[0] - first) <= d[0] /\ d[0] <= RateHi - (plan[0] - first)
      <3>1. d[0] - 0 = d[0]
        BY <2>4, <2>7
      <3> QED
        BY <2>5, <2>7, <3>1, KeptStage DEF Previous
    <2>9. plan'[0] - first \in RateLo..RateHi
      <3>1. plan'[0] = plan[0] + d[0]
        BY <2>5, <2>6, <2>7
      <3> QED
        BY <2>2, <2>4, <2>7, <2>8, <3>1, LimitsAssumption
    <2> QED
      BY <2>5, <2>6, <2>9 DEF first
  <1> QED
    BY <1>1, <1>2, <1>3, PTL DEF Spec, SolutionsExecuted

-----------------------------------------------------------------------------
(***************************************************************************)
(* The pairs that collision.cpp looks at (CollisionRows): nearest() and    *)
(* the clearances skip a pair whose lower bound cannot improve the result. *)
(***************************************************************************)
CONSTANTS Pairs, FloorPairs, Arms, Links, LinkOf, Activation, Distances, MaxBudget
VARIABLES use, budget, geometry, arm, pc, todo, exact, closest, unevaluated, rows, dropped, best
Collision == INSTANCE CollisionRows

\* A set of integers with an upper bound has a greatest one.
LEMMA GreatestExists ==
  ASSUME NEW S \in SUBSET Int, S # {}, NEW hi \in Int, \A x \in S : x <= hi
  PROVE  \E x \in S : \A y \in S : y <= x
  <1> DEFINE T == {n \in Nat : hi - n \in S}
  <1>1. T \subseteq Nat /\ T # {}
    <2>1. PICK x \in S : x \in Int /\ x <= hi
      OBVIOUS
    <2>2. hi - x \in Nat /\ hi - (hi - x) = x
      BY <2>1
    <2> QED
      BY <2>1, <2>2
  <1>2. PICK n \in T : \A m \in T : ~(<<m, n>> \in OpToRel(<, Nat))
    <2> HIDE DEF T
    <2> QED
      BY <1>1, NatLessThanWellFounded, WFMin, Zenon
  <1>3. \A m \in T : ~(m < n)
    BY <1>2, <1>1 DEF OpToRel
  <1>4. ASSUME NEW y \in S
        PROVE  y <= hi - n
    <2>1. y \in Int /\ y <= hi
      OBVIOUS
    <2>2. hi - y \in Nat /\ hi - (hi - y) = y
      BY <2>1
    <2>3. hi - y \in T
      BY <2>2
    <2>4. ~(hi - y < n) /\ n \in Nat
      BY <1>3, <2>3
    <2> QED
      BY <2>1, <2>4
  <1> QED
    BY <1>4

\* The sequence of a finite set holds all of its members.
LEMMA SequenceOfAll ==
  ASSUME NEW S, IsFiniteSet(S)
  PROVE  /\ Collision!SetToSeq(S) \in Seq(S)
         /\ \A x \in S : \E n \in DOMAIN Collision!SetToSeq(S) : Collision!SetToSeq(S)[n] = x
  <1> DEFINE s == Collision!SetToSeq(S)
  <1>1. Collision!Cardinality(S) = Cardinality(S)
    BY DEF Collision!Cardinality, Cardinality
  <1>2. Cardinality(S) \in Nat /\ ExistsBijection(1..Cardinality(S), S)
    BY FS_CardinalityType
  <1>3. \E f \in [1..Collision!Cardinality(S) -> S] : Collision!IsInjective(f)
    BY <1>1, <1>2 DEF ExistsBijection, Bijection, Injection, IsInjective, Collision!IsInjective
  <1>4. s \in [1..Cardinality(S) -> S] /\ Collision!IsInjective(s)
    BY <1>1, <1>3 DEF Collision!SetToSeq
  <1> HIDE DEF s
  <1>5. s \in Injection(1..Cardinality(S), S)
    BY <1>4 DEF Injection, IsInjective, Collision!IsInjective
  <1>6. Cardinality(1..Cardinality(S)) = Cardinality(S)
    BY <1>2, FS_Interval
  <1>7. s \in Surjection(1..Cardinality(S), S)
    BY <1>5, <1>6, FS_Injection
  <1>8. s \in Seq(S)
    BY <1>2, <1>4
  <1>9. \A x \in S : \E n \in DOMAIN s : s[n] = x
    BY <1>4, <1>7 DEF Surjection
  <1> QED
    BY <1>8, <1>9 DEF s

\* No distance reaches what stands for none.
LEMMA NoneBeyond ==
  ASSUME Collision!Parameters
  PROVE  /\ Collision!Beyond \in Int /\ Activation \in Int
         /\ \A d \in Distances : d \in Int /\ d < Collision!Beyond
  <1> DEFINE all == Distances \cup {Activation}
  <1>1. PICK hi \in Distances : \A d \in Distances : d <= hi
    BY DEF Collision!Parameters
  <1>2. hi \in Int /\ Activation \in Int /\ Distances \subseteq Int /\ all \in SUBSET Int /\ all # {}
    BY DEF Collision!Parameters
  <1>3. \E m \in Int : \A d \in all : d <= m
    <2>1. CASE hi < Activation
      BY <1>1, <1>2, <2>1
    <2>2. CASE ~(hi < Activation)
      BY <1>1, <1>2, <2>2
    <2> QED
      BY <2>1, <2>2
  <1> HIDE DEF all
  <1>4. PICK m \in all : \A d \in all : d <= m
    BY <1>2, <1>3, GreatestExists
  <1>5. Collision!Max(all) \in all /\ \A d \in all : d <= Collision!Max(all)
    BY <1>4 DEF Collision!Max
  <1>6. Collision!Beyond = Collision!Max(all) + 1 /\ Distances \subseteq all
    BY DEF Collision!Beyond, all
  <1>7. Collision!Max(all) \in Int
    BY <1>2, <1>5
  <1> QED
    BY <1>2, <1>5, <1>6, <1>7

ToDo == {todo[n] : n \in DOMAIN todo}

\* The result bounds every pair looked at, and is one of theirs.
PruneInv ==
  /\ use \in {"rows", "nearest", "clearance"} /\ geometry \in Collision!Geometries
  /\ pc \in {"begin", "closest", "settle", "arm", "prune", "done"}
  /\ pc = "begin" => best = Collision!Beyond
  /\ pc \in {"closest", "settle", "arm"} => use = "rows"
  /\ use # "rows" /\ pc \in {"prune", "done"} =>
       /\ todo \in Seq(Pairs) /\ best \in Int
       /\ pc = "done" => todo = <<>>
       /\ \A p \in Pairs \ ToDo : best <= Collision!Distance(p)
       /\ use = "nearest" => \/ best = Collision!Beyond /\ Pairs \subseteq ToDo
                             \/ \E p \in Pairs : best = Collision!Distance(p)
       /\ use = "clearance" => /\ best <= Activation
                               /\ \/ best = Activation
                                  \/ \E p \in Pairs : best = Collision!Distance(p)

LEMMA NextPopped ==
  ASSUME todo \in Seq(Pairs), todo # <<>>, todo' = Tail(todo)
  PROVE  /\ Head(todo) \in Pairs /\ todo' \in Seq(Pairs)
         /\ Pairs \ ToDo' \subseteq (Pairs \ ToDo) \cup {Head(todo)}
  <1>1. /\ Len(todo) \in Nat \ {0} /\ DOMAIN todo = 1..Len(todo)
        /\ \A n \in 1..Len(todo) : todo[n] \in Pairs
        /\ Head(todo) = todo[1]
    OBVIOUS
  <1>2. /\ todo' \in Seq(Pairs) /\ DOMAIN todo' = 1..Len(todo) - 1
        /\ \A n \in 1..Len(todo) - 1 : todo'[n] = todo[n + 1]
    OBVIOUS
  <1>3. ASSUME NEW p \in ToDo, p # Head(todo)
        PROVE  p \in ToDo'
    <2>1. PICK n \in DOMAIN todo : p = todo[n]
      BY DEF ToDo
    <2>2. n \in 2..Len(todo)
      BY <1>1, <1>3, <2>1
    <2>3. n - 1 \in DOMAIN todo' /\ todo'[n - 1] = p
      BY <1>1, <1>2, <2>1, <2>2
    <2> QED
      BY <2>3 DEF ToDo
  <1> QED
    BY <1>1, <1>2, <1>3

LEMMA KnownGeometry ==
  ASSUME Collision!Parameters, PruneInv, NEW p \in Pairs
  PROVE  /\ Collision!Distance(p) \in Distances /\ Collision!Distance(p) \in Int
         /\ Collision!Distance(p) < Collision!Beyond
         /\ Collision!Bound(p) \in Int /\ Collision!Bound(p) <= Collision!Distance(p)
  <1>1. /\ geometry[p].distance \in Distances /\ geometry[p].bound \in Distances
        /\ geometry[p].bound <= geometry[p].distance
    BY DEF PruneInv, Collision!Geometries
  <1> QED
    BY <1>1, NoneBeyond DEF Collision!Distance, Collision!Bound

\* nearest(): a pair that is skipped is no nearer than the result.
LEMMA NearestKept ==
  ASSUME Collision!Parameters, PruneInv, Collision!NearestNext
  PROVE  PruneInv'
  <1> DEFINE p == Head(todo)
  <1>1. /\ use = "nearest" /\ pc = "prune" /\ todo # <<>> /\ todo' = Tail(todo)
        /\ use' = use /\ geometry' = geometry /\ pc' = pc
    BY DEF Collision!NearestNext, Collision!input
  <1>2. /\ todo \in Seq(Pairs) /\ best \in Int
        /\ \A q \in Pairs \ ToDo : best <= Collision!Distance(q)
        /\ \/ best = Collision!Beyond /\ Pairs \subseteq ToDo
           \/ \E q \in Pairs : best = Collision!Distance(q)
    BY <1>1 DEF PruneInv
  <1>3. p \in Pairs /\ todo' \in Seq(Pairs) /\ Pairs \ ToDo' \subseteq (Pairs \ ToDo) \cup {p}
    BY <1>1, <1>2, NextPopped
  <1>4. /\ \A q \in Pairs : /\ Collision!Distance(q) \in Int /\ Collision!Distance(q) < Collision!Beyond
                            /\ Collision!Distance(q)' = Collision!Distance(q)
        /\ Collision!Bound(p) \in Int /\ Collision!Bound(p) <= Collision!Distance(p)
        /\ Collision!Beyond \in Int
    BY <1>1, <1>3, KnownGeometry, NoneBeyond DEF Collision!Distance
  <1> HIDE DEF p
  <1>5. /\ best' \in Int /\ \A q \in Pairs \ ToDo' : best' <= Collision!Distance(q)
        /\ \E q \in Pairs : best' = Collision!Distance(q)
    <2>1. CASE Collision!Skips(p)
      <3>1. best' = best /\ best # Collision!Beyond /\ Collision!Bound(p) >= best
        BY <2>1 DEF Collision!NearestNext, Collision!Skips, p
      <3> QED
        BY <3>1, <1>2, <1>3, <1>4
    <2>2. CASE ~Collision!Skips(p)
      <3>1. best' = Collision!Improved(p)
        BY <2>2 DEF Collision!NearestNext, p
      <3>2. CASE best = Collision!Beyond
        <4>1. best' = Collision!Distance(p)
          BY <3>1, <3>2 DEF Collision!Improved
        <4>2. Pairs \subseteq ToDo
          BY <1>2, <1>4, <3>2
        <4> QED
          BY <4>1, <4>2, <1>3, <1>4
      <3>3. CASE best # Collision!Beyond
        <4>1. \/ Collision!Distance(p) < best /\ best' = Collision!Distance(p)
              \/ ~(Collision!Distance(p) < best) /\ best' = best
          BY <3>1, <3>3 DEF Collision!Improved
        <4> QED
          BY <4>1, <3>3, <1>2, <1>3, <1>4
      <3> QED
        BY <3>2, <3>3
    <2> QED
      BY <2>1, <2>2
  <1>6. /\ \A q \in Pairs \ ToDo' : best' <= Collision!Distance(q)'
        /\ \E q \in Pairs : best' = Collision!Distance(q)'
    BY <1>4, <1>5
  <1>7. use' \in {"rows", "nearest", "clearance"} /\ geometry' \in Collision!Geometries
    BY <1>1 DEF PruneInv
  <1> QED
    BY <1>1, <1>3, <1>5, <1>6, <1>7 DEF PruneInv

\* clearance_*: the result begins at activation and only falls.
LEMMA ClearanceKept ==
  ASSUME Collision!Parameters, PruneInv, Collision!ClearanceNext
  PROVE  PruneInv'
  <1> DEFINE p == Head(todo)
  <1>1. /\ use = "clearance" /\ pc = "prune" /\ todo # <<>> /\ todo' = Tail(todo)
        /\ use' = use /\ geometry' = geometry /\ pc' = pc
    BY DEF Collision!ClearanceNext, Collision!input
  <1>2. /\ todo \in Seq(Pairs) /\ best \in Int
        /\ \A q \in Pairs \ ToDo : best <= Collision!Distance(q)
        /\ best <= Activation
        /\ best = Activation \/ \E q \in Pairs : best = Collision!Distance(q)
    BY <1>1 DEF PruneInv
  <1>3. p \in Pairs /\ todo' \in Seq(Pairs) /\ Pairs \ ToDo' \subseteq (Pairs \ ToDo) \cup {p}
    BY <1>1, <1>2, NextPopped
  <1>4. /\ \A q \in Pairs : /\ Collision!Distance(q) \in Int
                            /\ Collision!Distance(q)' = Collision!Distance(q)
        /\ Collision!Bound(p) \in Int /\ Collision!Bound(p) <= Collision!Distance(p)
        /\ Activation \in Int
    BY <1>1, <1>3, KnownGeometry, NoneBeyond DEF Collision!Distance
  <1> HIDE DEF p
  <1>5. /\ best' \in Int /\ best' <= Activation
        /\ \A q \in Pairs \ ToDo' : best' <= Collision!Distance(q)
        /\ best' = Activation \/ \E q \in Pairs : best' = Collision!Distance(q)
    <2>1. CASE Collision!Bound(p) >= best
      <3>1. best' = best
        BY <2>1 DEF Collision!ClearanceNext, p
      <3> QED
        BY <3>1, <2>1, <1>2, <1>3, <1>4
    <2>2. CASE ~(Collision!Bound(p) >= best)
      <3>1. best' = Collision!Min({best, Collision!Distance(p)})
        BY <2>2 DEF Collision!ClearanceNext, p
      <3>2. \/ best' = best /\ best <= Collision!Distance(p)
            \/ best' = Collision!Distance(p) /\ Collision!Distance(p) <= best
        BY <3>1, <1>2, <1>3, <1>4 DEF Collision!Min
      <3> QED
        BY <3>2, <1>2, <1>3, <1>4
    <2> QED
      BY <2>1, <2>2
  <1>6. /\ \A q \in Pairs \ ToDo' : best' <= Collision!Distance(q)'
        /\ best' = Activation \/ \E q \in Pairs : best' = Collision!Distance(q)'
    BY <1>4, <1>5
  <1>7. use' \in {"rows", "nearest", "clearance"} /\ geometry' \in Collision!Geometries
    BY <1>1 DEF PruneInv
  <1> QED
    BY <1>1, <1>3, <1>5, <1>6, <1>7 DEF PruneInv

LEMMA PruneByEachStep ==
  ASSUME Collision!Parameters
  PROVE  PruneInv /\ [Collision!Next]_Collision!vars => PruneInv'
  <1> SUFFICES ASSUME PruneInv, [Collision!Next]_Collision!vars
               PROVE  PruneInv'
    OBVIOUS
  <1>1. CASE Collision!BeginRows \/ Collision!EvaluateNext \/ Collision!ClosestKnown
             \/ Collision!SettleNext \/ Collision!KeepClosest \/ Collision!KeepArm
    <2>1. use = "rows" /\ use' = use /\ geometry' = geometry
          /\ pc' \in {"closest", "settle", "arm", "done"}
      BY <1>1 DEF PruneInv, Collision!BeginRows, Collision!EvaluateNext, Collision!ClosestKnown,
                  Collision!SettleNext, Collision!KeepClosest, Collision!KeepArm, Collision!input
    <2> QED
      BY <2>1 DEF PruneInv
  <1>2. CASE Collision!BeginNearest \/ Collision!BeginClearance
    <2>1. /\ use \in {"nearest", "clearance"} /\ use' = use /\ geometry' = geometry
          /\ pc' = "prune" /\ todo' = Collision!SetToSeq(Pairs)
          /\ best' = IF use = "clearance" THEN Activation ELSE Collision!Beyond
      BY <1>2 DEF PruneInv, Collision!BeginNearest, Collision!BeginClearance, Collision!input
    <2>2. todo' \in Seq(Pairs) /\ Pairs \subseteq ToDo'
      <3>1. IsFiniteSet(Pairs)
        BY DEF Collision!Parameters, Collision!IsFiniteSet, IsFiniteSet
      <3>2. /\ Collision!SetToSeq(Pairs) \in Seq(Pairs)
            /\ \A p \in Pairs : \E n \in DOMAIN Collision!SetToSeq(Pairs) :
                                  Collision!SetToSeq(Pairs)[n] = p
        BY <3>1, SequenceOfAll
      <3> QED
        BY <2>1, <3>2 DEF ToDo
    <2>3. best' \in Int /\ Activation \in Int
      BY <2>1, NoneBeyond
    <2>4. geometry' \in Collision!Geometries
      BY <2>1 DEF PruneInv
    <2> QED
      BY <2>1, <2>2, <2>3, <2>4 DEF PruneInv
  <1>3. CASE Collision!PruneEnds
    <2>1. /\ use' = use /\ geometry' = geometry /\ best' = best /\ todo' = todo
          /\ pc = "prune" /\ pc' = "done" /\ todo = <<>> /\ ToDo' = ToDo
      BY <1>3 DEF Collision!PruneEnds, Collision!input, ToDo
    <2>2. \A p : Collision!Distance(p)' = Collision!Distance(p)
      BY <2>1 DEF Collision!Distance
    <2> QED
      BY <2>1, <2>2 DEF PruneInv
  <1>4. CASE UNCHANGED Collision!vars
    <2>1. /\ use' = use /\ geometry' = geometry /\ best' = best /\ todo' = todo /\ pc' = pc
          /\ ToDo' = ToDo
      BY <1>4 DEF Collision!vars, Collision!input, ToDo
    <2>2. \A p : Collision!Distance(p)' = Collision!Distance(p)
      BY <2>1 DEF Collision!Distance
    <2> QED
      BY <2>1, <2>2 DEF PruneInv
  <1> QED
    BY <1>1, <1>2, <1>3, <1>4, NearestKept, ClearanceKept DEF Collision!Next

\* Skipping pairs never changes the result of nearest() and of the clearances,
\* for every number of pairs, every order and all bounds below the distances.
THEOREM PruningExact ==
  ASSUME Collision!Parameters
  PROVE  Collision!Spec => []Collision!PrunedIsExact
  <1>1. Collision!Init => PruneInv
    BY DEF Collision!Init, PruneInv
  <1>2. PruneInv => Collision!PrunedIsExact
    <2> SUFFICES ASSUME PruneInv, pc = "done", use # "rows"
                 PROVE  best = IF use = "nearest" /\ Pairs = {} THEN Collision!Beyond
                               ELSE Collision!Min({Collision!Distance(p) : p \in Pairs}
                                      \cup (IF use = "clearance" THEN {Activation} ELSE {}))
      BY DEF Collision!PrunedIsExact
    <2> DEFINE all == {Collision!Distance(p) : p \in Pairs}
                        \cup (IF use = "clearance" THEN {Activation} ELSE {})
    <2>1. /\ best \in Int /\ \A p \in Pairs : best <= Collision!Distance(p)
          /\ use = "nearest" => \/ best = Collision!Beyond /\ Pairs = {}
                                \/ \E p \in Pairs : best = Collision!Distance(p)
          /\ use = "clearance" => /\ best <= Activation
                                  /\ \/ best = Activation
                                     \/ \E p \in Pairs : best = Collision!Distance(p)
          /\ use \in {"nearest", "clearance"}
      <3>1. todo = <<>> /\ ToDo = {}
        BY DEF PruneInv, ToDo
      <3> QED
        BY <3>1 DEF PruneInv
    <2>2. CASE use = "nearest" /\ Pairs = {}
      BY <2>1, <2>2
    <2>3. CASE ~(use = "nearest" /\ Pairs = {})
      <3>1. all \in SUBSET Int
        BY KnownGeometry, NoneBeyond
      <3>2. best \in all /\ \A d \in all : best <= d
        BY <2>1, <2>3
      <3> HIDE DEF all
      <3> DEFINE least == Collision!Min(all)
      <3>3. least \in all /\ \A d \in all : least <= d
        BY <3>2 DEF Collision!Min
      <3> HIDE DEF least
      <3>4. best = least
        <4>1. best \in Int /\ least \in Int
          BY <3>1, <3>2, <3>3
        <4>2. best <= least /\ least <= best
          BY <3>2, <3>3
        <4> QED
          BY <4>1, <4>2
      <3> QED
        BY <2>3, <3>4 DEF all, least
    <2> QED
      BY <2>2, <2>3
  <1> QED
    BY <1>1, <1>2, PruneByEachStep, PTL DEF Collision!Spec
=============================================================================

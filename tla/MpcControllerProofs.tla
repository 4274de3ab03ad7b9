------------------------- MODULE MpcControllerProofs -------------------------
(***************************************************************************)
(* The controller's invariants, proved for every fallback budget, dwell,   *)
(* period, stage, horizon and speed limit.                                 *)
(***************************************************************************)
EXTENDS MpcController, TLAPS

-----------------------------------------------------------------------------
(* What the helpers return.                                                *)

(* Lower and Upper choose one of their arguments.                          *)
LEMMA Choice ==
  ASSUME NEW a \in Int, NEW b \in Int
  PROVE  /\ Lower(a, b) \in Int /\ Lower(a, b) <= a /\ Lower(a, b) <= b
         /\ Lower(a, b) \in {a, b}
         /\ Upper(a, b) \in Int /\ Upper(a, b) >= a /\ Upper(a, b) >= b
         /\ Upper(a, b) \in {a, b}
  BY DEF Lower, Upper

(* Ageing a plan changes nothing but its age.                              *)
LEMMA AgedPlan ==
  ASSUME NEW e \in Estimates, NEW gap \in Int
  PROVE  /\ Aged(e, gap) \in Estimates
         /\ Aged(e, gap).kind = e.kind /\ Aged(e, gap).fresh = e.fresh
         /\ Aged(e, gap).medium = e.medium /\ Aged(e, gap).ahead = e.ahead
  <1>1. PlanAgeCap \in Int
    BY ControllerConstants DEF PlanAgeCap
  <1>2. Lower(e.age + gap, PlanAgeCap) \in Int
    BY <1>1, Choice DEF Estimates
  <1> QED
    BY <1>2 DEF Aged, Estimates

(* Linearizing updates the filters once, ends freshness and keeps the      *)
(* medium reference; the nominal is the old plan or at rest.               *)
LEMMA LinearizedPlan ==
  ASSUME NEW e \in Estimates
  PROVE  /\ Linearized(e) \in Estimates
         /\ Linearized(e).ahead = e.ahead + 1
         /\ Linearized(e).medium = e.medium
         /\ ~Linearized(e).fresh
         /\ Linearized(e).kind = IF e.fresh THEN "rest" ELSE e.kind
  <1> DEFINE shift == Upper(0, Lower(e.age \div Stage, Horizon))
  <1>1. e.age \div Stage \in Int
    BY ControllerConstants DEF Estimates
  <1>2. shift \in Int
    <2>1. Lower(e.age \div Stage, Horizon) \in Int
      BY <1>1, Choice, ControllerConstants
    <2> QED
      BY <2>1, Choice
  <1>3. e.age - shift * Stage \in Int
    BY <1>2, ControllerConstants DEF Estimates
  <1> HIDE DEF shift
  <1>4. Linearized(e) =
          IF e.fresh
            THEN [e EXCEPT !.kind = "rest", !.age = 0, !.fresh = FALSE, !.ahead = @ + 1]
            ELSE [e EXCEPT !.age = @ - shift * Stage, !.ahead = @ + 1]
    BY DEF Linearized, shift
  <1>5. CASE e.fresh
    <2>1. Linearized(e) =
            [e EXCEPT !.kind = "rest", !.age = 0, !.fresh = FALSE, !.ahead = @ + 1]
      BY <1>4, <1>5
    <2>2. Linearized(e) = [kind |-> "rest", age |-> 0, fresh |-> FALSE,
                           medium |-> e.medium, ahead |-> e.ahead + 1]
      BY <2>1 DEF Estimates
    <2>3. Linearized(e) \in Estimates
      BY <2>2 DEF Estimates, Kinds
    <2> QED
      BY <2>2, <2>3, <1>5
  <1>6. CASE ~e.fresh
    <2>1. Linearized(e) = [e EXCEPT !.age = @ - shift * Stage, !.ahead = @ + 1]
      BY <1>4, <1>6
    <2>2. Linearized(e) = [kind |-> e.kind, age |-> e.age - shift * Stage,
                           fresh |-> e.fresh, medium |-> e.medium, ahead |-> e.ahead + 1]
      BY <2>1 DEF Estimates
    <2>3. Linearized(e) \in Estimates
      BY <1>3, <2>2 DEF Estimates
    <2> QED
      BY <2>2, <2>3, <1>6
  <1> QED
    BY <1>5, <1>6

(* A braking step stays within the speed box.                              *)
LEMMA BrakeBaseInBox ==
  ASSUME NEW v \in 0..VMax, NEW e \in Nat
  PROVE  BrakeBase(v, e) \in 0..VMax
  <1>1. Brake * e \in Nat
    BY ControllerConstants
  <1> QED
    BY <1>1, ControllerConstants DEF BrakeBase, Upper

LEMMA ElapsedNat ==
  ASSUME NEW gap \in Nat
  PROVE  Elapsed(gap) \in Nat
  BY ControllerConstants DEF Elapsed, Lower

(* So does the command of an executed plan.                                *)
LEMMA PlanCommandsInBox ==
  ASSUME NEW gap \in Nat, NEW atRest \in BOOLEAN, cmd \in 0..VMax
  PROVE  PlanCommands(gap, atRest) \subseteq 0..VMax
  <1> DEFINE e == Elapsed(gap)
             lo == Upper(0, cmd - Brake * e)
             hi == Lower(VMax, cmd + Accel * e)
  <1>1. e \in Nat
    BY ElapsedNat
  <1>2. Brake * e \in Nat /\ Accel * e \in Nat
    BY <1>1, ControllerConstants
  <1>3. cmd - Brake * e \in Int /\ cmd + Accel * e \in Int
    BY <1>2
  <1>4. lo \in Int /\ lo >= 0
    BY <1>3 DEF Upper
  <1>5. hi \in Int /\ hi <= VMax
    BY <1>3, ControllerConstants DEF Lower
  <1> HIDE DEF e, lo, hi
  <1>6. ASSUME NEW u \in lo..hi
        PROVE  BreakawayOutput(u, atRest) \in 0..VMax
    BY <1>4, <1>5, ControllerConstants DEF BreakawayOutput
  <1> QED
    BY <1>6 DEF PlanCommands, e, lo, hi

-----------------------------------------------------------------------------
(* The inductive invariant.                                                *)

(* A plan the next cycle may execute if its solve fails.                   *)
Usable(e) == e.fresh \/ e.kind # "held"

(* A tracking goal that does not hold has a usable nominal, with and       *)
(* without its preparation; what was executed was no held plan.            *)
HeldInv ==
  /\ prepared.valid => ~est.fresh
  /\ mode = "Tracking" /\ ~wasHolding => Usable(est) /\ Usable(Restored)
  /\ executes = "plan" => est.kind # "held" /\ Restored.kind # "held"

(* The failure count of a tracking goal is the length of the run of bad    *)
(* cycles; after a step the run before that cycle was failuresAtStep long. *)
BudgetInv ==
  /\ mode = "Tracking" =>
       /\ failures <= FallbackCycles
       /\ \A i \in Window : i <= failures => recent[i]
       /\ ~recent[failures + 1]
  /\ stepped /\ mode = "Tracking" =>
       /\ failures \in {0, failuresAtStep + 1}
       /\ failuresAtStep <= FallbackCycles
       /\ \A i \in Window : 1 < i /\ i <= failuresAtStep + 1 => recent[i]
       /\ \A i \in Window : i = failuresAtStep + 2 => ~recent[i]
  /\ mode \in {"Braking", "Failed"} => stale \/ \A i \in Window : recent[i]

(* The filters are ahead only by the kept preparation, and no estimate     *)
(* holds another medium reference than the one set.                        *)
PreparationInv ==
  /\ est.ahead = (IF prepared.valid THEN 1 ELSE 0) /\ Restored.ahead = 0
  /\ est.medium = mediumSet /\ Restored.medium = mediumSet

IInv == TypeOK /\ HeldInv /\ BudgetInv /\ PreparationInv

-----------------------------------------------------------------------------
(* What the actions do to the nominal plan and the preparation.            *)

(* f is e at another age.                                                  *)
Similar(f, e) ==
  /\ f \in Estimates
  /\ f.kind = e.kind /\ f.fresh = e.fresh /\ f.medium = e.medium /\ f.ahead = e.ahead

LEMMA RestoredTyped ==
  ASSUME TypeOK
  PROVE  est \in Estimates /\ Restored \in Estimates
  BY DEF TypeOK, Restored, Preparations

(* Undoing the preparation keeps what it is given and nothing else.        *)
LEMMA DiscardEffect ==
  ASSUME NEW e, DiscardPreparation(e)
  PROVE  est' = e /\ Restored' = e /\ prepared' \in Preparations /\ ~prepared'.valid
  <1>1. Nothing \in Preparations /\ ~Nothing.valid
    BY DEF Nothing, Preparations, AtRest, Estimates, Kinds
  <1> QED
    BY <1>1 DEF DiscardPreparation, Restored

(* Time passing keeps the preparation and changes only ages.               *)
LEMMA PassedEffect ==
  ASSUME TypeOK, NEW gap \in Nat, Passed(gap)
  PROVE  /\ Similar(est', est) /\ Similar(Restored', Restored)
         /\ prepared' \in Preparations
         /\ prepared'.valid = prepared.valid
  <1>1. Similar(est', est)
    <2>1. est \in Estimates /\ gap \in Int /\ est' = Aged(est, gap)
      BY DEF Passed, TypeOK
    <2> QED
      BY <2>1, AgedPlan DEF Similar
  <1>2. CASE prepared.valid
    <2>1. Upper(prepared.due - gap, -MaxGap) \in Int
      BY ControllerConstants DEF TypeOK, Preparations, Upper
    <2>2. Similar(Aged(prepared.before, gap), prepared.before)
      BY AgedPlan DEF TypeOK, Preparations, Similar
    <2>3. prepared' = [valid |-> prepared.valid,
                       due |-> Upper(prepared.due - gap, -MaxGap),
                       before |-> Aged(prepared.before, gap)]
      BY <1>2 DEF Passed, TypeOK, Preparations
    <2> QED
      BY <1>1, <1>2, <2>1, <2>2, <2>3 DEF Restored, Preparations, Similar, TypeOK
  <1>3. CASE ~prepared.valid
    <2>1. Nothing \in Preparations /\ ~Nothing.valid
      BY DEF Nothing, Preparations, AtRest, Estimates, Kinds
    <2>2. prepared' = Nothing
      BY <1>3 DEF Passed
    <2>3. prepared'.valid = prepared.valid
      BY <1>3, <2>1, <2>2 DEF TypeOK, Preparations
    <2> QED
      BY <1>1, <1>3, <2>1, <2>2, <2>3 DEF Restored
  <1> QED
    BY <1>2, <1>3

(* The linearization a cycle solves: exactly one filter update ahead, the  *)
(* set medium reference, and executable unless the cycle before held.      *)
LEMMA BuiltPlan ==
  ASSUME TypeOK, PreparationInv, HeldInv, NEW gap \in Nat, NEW close \in BOOLEAN
  PROVE  /\ Built(gap, close) \in Estimates
         /\ Built(gap, close).ahead = 1
         /\ Built(gap, close).medium = mediumSet
         /\ mode = "Tracking" /\ ~wasHolding => Built(gap, close).kind # "held"
  <1> DEFINE b == Built(gap, close)
             r == Aged(Restored, gap)
  <1>1. est \in Estimates /\ Restored \in Estimates
    BY RestoredTyped
  <1>2. CASE UsePrepared(gap, close)
    <2>1. b = Aged(est, gap)
      BY <1>2 DEF Built
    <2>2. prepared.valid
      BY <1>2 DEF UsePrepared
    <2>3. /\ b \in Estimates /\ b.kind = est.kind
          /\ b.medium = est.medium /\ b.ahead = est.ahead
      BY <1>1, <2>1, AgedPlan
    <2> QED
      BY <2>2, <2>3 DEF PreparationInv, HeldInv, Usable
  <1>3. CASE ~UsePrepared(gap, close)
    <2>1. b = Linearized(r)
      BY <1>3 DEF Built
    <2>2. /\ r \in Estimates /\ r.kind = Restored.kind /\ r.fresh = Restored.fresh
          /\ r.medium = Restored.medium /\ r.ahead = Restored.ahead
      BY <1>1, AgedPlan
    <2>3. /\ b \in Estimates /\ b.ahead = r.ahead + 1 /\ b.medium = r.medium
          /\ b.kind = IF r.fresh THEN "rest" ELSE r.kind
      BY <2>1, <2>2, LinearizedPlan
    <2> QED
      BY <2>2, <2>3 DEF PreparationInv, HeldInv, Usable
  <1> QED
    BY <1>2, <1>3

-----------------------------------------------------------------------------
(* The invariant is inductive.                                             *)

LEMMA InitInv == Init => IInv
  <1> SUFFICES ASSUME Init PROVE IInv
    OBVIOUS
  <1>1. AtRest \in Estimates /\ Nothing \in Preparations /\ ~Nothing.valid
    BY DEF AtRest, Nothing, Estimates, Preparations, Kinds
  <1>2. Restored = AtRest
    BY <1>1 DEF Init, Restored
  <1>3. TypeOK
    <2>1. recent \in [Window -> BOOLEAN]
      BY DEF Init
    <2>2. failures \in 0..(FallbackCycles + 1) /\ failuresAtStep \in 0..(FallbackCycles + 1)
          /\ cmd \in 0..VMax /\ sinceUnsafe \in 0..SinceCap
      BY ControllerConstants DEF Init, SinceCap
    <2> QED
      BY <1>1, <2>1, <2>2 DEF Init, TypeOK, Modes, Statuses
  <1>4. HeldInv
    BY <1>1, <1>2 DEF Init, HeldInv, Usable, AtRest
  <1>5. BudgetInv
    BY ControllerConstants DEF Init, BudgetInv, Window
  <1>6. PreparationInv
    BY <1>1, <1>2 DEF Init, PreparationInv, AtRest
  <1> QED
    BY <1>3, <1>4, <1>5, <1>6 DEF IInv

(* The caller's operations.                                                *)
LEMMA NewGoalEstimate ==
  ASSUME NEW e \in Estimates, NEW n, n = [e EXCEPT !.fresh = TRUE, !.medium = FALSE]
  PROVE  /\ n \in Estimates
         /\ n.kind = e.kind /\ n.ahead = e.ahead /\ n.fresh /\ ~n.medium
  <1> DEFINE f == [e EXCEPT !.fresh = TRUE]
  <1>1. f \in Estimates /\ f.kind = e.kind /\ f.ahead = e.ahead /\ f.fresh
    BY DEF Estimates
  <1>2. n = [f EXCEPT !.medium = FALSE]
    OBVIOUS
  <1> HIDE DEF f
  <1> QED
    BY <1>1, <1>2 DEF Estimates

LEMMA StartInv == IInv /\ Start => IInv'
  <1> SUFFICES ASSUME IInv, Start PROVE IInv'
    OBVIOUS
  <1> DEFINE e == [Restored EXCEPT !.fresh = TRUE, !.medium = FALSE]
  <1>1. Restored \in Estimates /\ Restored.ahead = 0
    BY RestoredTyped DEF IInv, PreparationInv
  <1>2. /\ e \in Estimates
        /\ e.kind = Restored.kind /\ e.ahead = Restored.ahead /\ e.fresh /\ ~e.medium
    BY <1>1, NewGoalEstimate
  <1> HIDE DEF e
  <1>4. est' = e /\ Restored' = e /\ prepared' \in Preparations /\ ~prepared'.valid
    BY DiscardEffect DEF Start, e
  <1>5. TypeOK'
    <2>1. recent' \in [Window -> BOOLEAN]
      BY DEF Start
    <2>2. failures' \in 0..(FallbackCycles + 1)
      BY ControllerConstants DEF Start
    <2> QED
      BY <1>2, <1>4, <2>1, <2>2 DEF IInv, Start, TypeOK, Modes
  <1>6. HeldInv'
    <2>1. executes' = executes /\ (executes = "plan" => Restored.kind # "held")
      BY DEF IInv, HeldInv, Start
    <2> QED
      BY <1>2, <1>4, <2>1 DEF HeldInv, Usable
  <1>7. BudgetInv'
    BY ControllerConstants DEF IInv, Start, BudgetInv, Window
  <1>8. PreparationInv'
    <2>1. e.medium = FALSE
      BY <1>2 DEF Estimates
    <2> QED
      BY <1>1, <1>2, <1>4, <2>1 DEF IInv, Start, PreparationInv
  <1> QED
    BY <1>5, <1>6, <1>7, <1>8 DEF IInv

LEMMA UpdateGoalInv == IInv /\ UpdateGoal => IInv'
  <1> SUFFICES ASSUME IInv, UpdateGoal PROVE IInv'
    OBVIOUS
  <1>1. est \in Estimates /\ Restored \in Estimates
    BY RestoredTyped DEF IInv
  <1>2. est' = Restored /\ Restored' = Restored
        /\ prepared' \in Preparations /\ ~prepared'.valid
    BY DiscardEffect DEF UpdateGoal
  <1>3. TypeOK'
    BY <1>1, <1>2 DEF IInv, UpdateGoal, TypeOK
  <1>4. HeldInv'
    BY <1>2 DEF IInv, UpdateGoal, HeldInv, Usable
  <1>5. BudgetInv'
    BY DEF IInv, UpdateGoal, BudgetInv, Window
  <1>6. PreparationInv'
    BY <1>2 DEF IInv, UpdateGoal, PreparationInv
  <1> QED
    BY <1>3, <1>4, <1>5, <1>6 DEF IInv

LEMMA ReplaceRouteInv ==
  ASSUME IInv, NEW m \in BOOLEAN, ReplaceRoute(m)
  PROVE  IInv'
  <1> DEFINE e == [Restored EXCEPT !.medium = m]
  <1>1. est \in Estimates /\ Restored \in Estimates
    BY RestoredTyped DEF IInv
  <1>2. e = [kind |-> Restored.kind, age |-> Restored.age, fresh |-> Restored.fresh,
             medium |-> m, ahead |-> Restored.ahead]
    BY <1>1 DEF Estimates
  <1>3. e \in Estimates
    BY <1>1, <1>2 DEF Estimates
  <1>4. est' = e /\ Restored' = e /\ prepared' \in Preparations /\ ~prepared'.valid
    BY DiscardEffect DEF ReplaceRoute
  <1>5. TypeOK'
    BY <1>3, <1>4 DEF IInv, ReplaceRoute, TypeOK
  <1>6. HeldInv'
    BY <1>2, <1>4 DEF IInv, ReplaceRoute, HeldInv, Usable
  <1>7. BudgetInv'
    BY DEF IInv, ReplaceRoute, BudgetInv, Window
  <1>8. PreparationInv'
    BY <1>2, <1>4 DEF IInv, ReplaceRoute, PreparationInv
  <1> QED
    BY <1>5, <1>6, <1>7, <1>8 DEF IInv

LEMMA ResetCommandInv ==
  ASSUME IInv, NEW v \in 0..VMax, ResetCommand(v)
  PROVE  IInv'
  <1>1. TypeOK'
    BY DEF IInv, ResetCommand, TypeOK
  <1>2. HeldInv'
    BY DEF IInv, ResetCommand, HeldInv, Usable, Restored
  <1>3. BudgetInv'
    BY DEF IInv, ResetCommand, BudgetInv, Window
  <1>4. PreparationInv'
    BY DEF IInv, ResetCommand, PreparationInv, Restored
  <1> QED
    BY <1>1, <1>2, <1>3, <1>4 DEF IInv

LEMMA SetExternalHoldInv ==
  ASSUME IInv, NEW on \in BOOLEAN, SetExternalHold(on)
  PROVE  IInv'
  <1>1. TypeOK'
    BY DEF IInv, SetExternalHold, TypeOK
  <1>2. HeldInv'
    BY DEF IInv, SetExternalHold, HeldInv, Usable, Restored
  <1>3. BudgetInv'
    BY DEF IInv, SetExternalHold, BudgetInv, Window
  <1>4. PreparationInv'
    BY DEF IInv, SetExternalHold, PreparationInv, Restored
  <1> QED
    BY <1>1, <1>2, <1>3, <1>4 DEF IInv

(* A late cycle is counted as the failure of that very cycle: the run of   *)
(* bad cycles ending in it is one longer than the run before it.           *)
LEMMA NoteFailureInv == IInv /\ NoteFailure => IInv'
  <1> SUFFICES ASSUME IInv, NoteFailure PROVE IInv'
    OBVIOUS
  <1>1. failuresAtStep \in Nat /\ failures \in {0, failuresAtStep + 1}
        /\ failuresAtStep <= FallbackCycles
    BY DEF IInv, TypeOK, BudgetInv, NoteFailure
  <1>2. failures' = failuresAtStep + 1
    BY <1>1 DEF NoteFailure, LateCounted, Upper
  <1>3. mode' = IF failuresAtStep + 1 > FallbackCycles THEN "Braking" ELSE "Tracking"
    BY <1>2 DEF NoteFailure
  <1>4. recent' \in [Window -> BOOLEAN] /\ recent'[1]
    BY ControllerConstants DEF IInv, TypeOK, NoteFailure, Window
  <1>5. \A i \in Window : i > 1 => recent'[i] = recent[i]
    <2>1. \A i \in Window : i # 1 => recent'[i] = recent[i]
      BY Zenon DEF IInv, TypeOK, NoteFailure
    <2> QED
      BY <2>1, ControllerConstants DEF Window
  <1>6. TypeOK'
    BY <1>1, <1>2, <1>3, <1>4, ControllerConstants DEF IInv, TypeOK, NoteFailure, Modes
  <1>7. HeldInv'
    BY DEF IInv, NoteFailure, HeldInv, Usable, Restored
  <1>8. BudgetInv'
    <2>1. \A i \in Window : i <= failuresAtStep + 1 => recent'[i]
      BY <1>1, <1>4, <1>5, ControllerConstants DEF IInv, BudgetInv, NoteFailure, Window
    <2>2. \A i \in Window : i = failuresAtStep + 2 => ~recent'[i]
      BY <1>1, <1>5, ControllerConstants DEF IInv, BudgetInv, NoteFailure, Window
    <2>3. failuresAtStep' = failuresAtStep
      BY DEF NoteFailure
    <2> QED
      BY <1>1, <1>2, <1>3, <2>1, <2>2, <2>3, ControllerConstants DEF BudgetInv, Window
  <1>9. PreparationInv'
    BY DEF IInv, NoteFailure, PreparationInv, Restored
  <1> QED
    BY <1>6, <1>7, <1>8, <1>9 DEF IInv

(* The steps that end tracking: the plan and the preparation only age.     *)
LEMMA BrakingEffect ==
  ASSUME TypeOK, NEW gap \in Nat, NEW st \in Statuses, Braking(st, gap)
  PROVE  /\ mode' \in {"Braking", "Failed"} /\ executes' = "braking"
         /\ cmd' \in 0..VMax /\ status' \in Statuses /\ wasHolding' \in BOOLEAN
         /\ failuresAtStep' = failures
         /\ started' = started /\ externalHold' = externalHold /\ mediumSet' = mediumSet
  <1>1. BrakeBase(cmd, Elapsed(gap)) \in 0..VMax
    BY ElapsedNat, BrakeBaseInBox DEF TypeOK
  <1> QED
    BY <1>1 DEF Braking, Finish, Statuses

LEMMA EndedPlanInv ==
  ASSUME IInv, NEW gap \in Nat, Passed(gap),
         mediumSet' = mediumSet, mode' # "Tracking", executes' # "plan"
  PROVE  /\ est' \in Estimates /\ prepared' \in Preparations
         /\ HeldInv' /\ PreparationInv'
  <1>1. /\ Similar(est', est) /\ Similar(Restored', Restored)
        /\ prepared' \in Preparations /\ prepared'.valid = prepared.valid
    BY PassedEffect DEF IInv
  <1>2. HeldInv'
    BY <1>1 DEF IInv, HeldInv, Similar
  <1>3. PreparationInv'
    BY <1>1 DEF IInv, PreparationInv, Similar
  <1> QED
    BY <1>1, <1>2, <1>3 DEF Similar

LEMMA EndingStepInv ==
  ASSUME IInv, NEW gap \in Nat,
         \/ StaleStep(gap) \/ LatchedStep(gap) \/ BrakingStep(gap) \/ GoalStep(gap)
  PROVE  IInv'
  <1>1. CASE StaleStep(gap)
    <2>1. /\ mode' \in {"Braking", "Failed"} /\ executes' = "braking"
          /\ cmd' \in 0..VMax /\ status' \in Statuses /\ wasHolding' \in BOOLEAN
          /\ failuresAtStep' = failures
          /\ started' = started /\ externalHold' = externalHold /\ mediumSet' = mediumSet
      BY <1>1, BrakingEffect DEF StaleStep, IInv, Statuses
    <2>2. /\ est' \in Estimates /\ prepared' \in Preparations
          /\ HeldInv' /\ PreparationInv'
      BY <1>1, <2>1, EndedPlanInv DEF StaleStep
    <2>3. TypeOK'
      BY <1>1, <2>1, <2>2 DEF StaleStep, IInv, TypeOK, Modes
    <2>4. BudgetInv'
      BY <1>1, <2>1 DEF StaleStep, BudgetInv
    <2> QED
      BY <2>2, <2>3, <2>4 DEF IInv
  <1>2. CASE LatchedStep(gap)
    <2>1. /\ mode' = mode /\ mode \in {"Failed", "GoalReached"} /\ executes' = "zero"
          /\ cmd' \in 0..VMax /\ status' = mode /\ wasHolding' \in BOOLEAN
          /\ failuresAtStep' = failures
          /\ started' = started /\ externalHold' = externalHold /\ mediumSet' = mediumSet
      BY <1>2, ControllerConstants DEF LatchedStep, Finish
    <2>2. /\ est' \in Estimates /\ prepared' \in Preparations
          /\ HeldInv' /\ PreparationInv'
      BY <1>2, <2>1, EndedPlanInv DEF LatchedStep
    <2>3. TypeOK'
      BY <1>2, <2>1, <2>2 DEF LatchedStep, IInv, TypeOK, Modes, Statuses
    <2>4. BudgetInv'
      BY <1>2, <2>1 DEF LatchedStep, IInv, BudgetInv
    <2> QED
      BY <2>2, <2>3, <2>4 DEF IInv
  <1>3. CASE BrakingStep(gap)
    <2>1. /\ mode' \in {"Braking", "Failed"} /\ executes' = "braking"
          /\ cmd' \in 0..VMax /\ status' \in Statuses /\ wasHolding' \in BOOLEAN
          /\ failuresAtStep' = failures
          /\ started' = started /\ externalHold' = externalHold /\ mediumSet' = mediumSet
      BY <1>3, BrakingEffect DEF BrakingStep, IInv, Statuses
    <2>2. /\ est' \in Estimates /\ prepared' \in Preparations
          /\ HeldInv' /\ PreparationInv'
      BY <1>3, <2>1, EndedPlanInv DEF BrakingStep
    <2>3. TypeOK'
      BY <1>3, <2>1, <2>2 DEF BrakingStep, IInv, TypeOK, Modes
    <2>4. BudgetInv'
      BY <1>3, <2>1 DEF BrakingStep, IInv, BudgetInv
    <2> QED
      BY <2>2, <2>3, <2>4 DEF IInv
  <1>4. CASE GoalStep(gap)
    <2>1. /\ mode' = "GoalReached" /\ executes' = "zero"
          /\ cmd' \in 0..VMax /\ status' = "GoalReached" /\ wasHolding' \in BOOLEAN
          /\ failuresAtStep' = failures
          /\ started' = started /\ externalHold' = externalHold /\ mediumSet' = mediumSet
      BY <1>4, ControllerConstants DEF GoalStep, Finish
    <2>2. /\ est' \in Estimates /\ prepared' \in Preparations
          /\ HeldInv' /\ PreparationInv'
      BY <1>4, <2>1, EndedPlanInv DEF GoalStep
    <2>3. TypeOK'
      BY <1>4, <2>1, <2>2 DEF GoalStep, IInv, TypeOK, Modes, Statuses
    <2>4. BudgetInv'
      BY <1>4, <2>1 DEF GoalStep, IInv, BudgetInv
    <2> QED
      BY <2>2, <2>3, <2>4 DEF IInv
  <1> QED
    BY <1>1, <1>2, <1>3, <1>4

(* A preparation keeps the estimate it undoes to, and is one update ahead. *)
LEMMA PrepareInv == IInv /\ Prepare => IInv'
  <1> SUFFICES ASSUME IInv, Prepare PROVE IInv'
    OBVIOUS
  <1> DEFINE r == Restored
             a == Aged(r, Period)
             f == Aged(Linearized(a), -Period)
  <1>1. r \in Estimates /\ r.ahead = 0 /\ r.medium = mediumSet
    BY RestoredTyped DEF IInv, PreparationInv
  <1>2. Period \in Int /\ -Period \in Int
    BY ControllerConstants
  <1>3. /\ a \in Estimates
        /\ a.kind = r.kind /\ a.fresh = r.fresh /\ a.medium = r.medium /\ a.ahead = r.ahead
    BY <1>1, <1>2, AgedPlan
  <1>4. /\ Linearized(a) \in Estimates
        /\ Linearized(a).ahead = a.ahead + 1 /\ Linearized(a).medium = a.medium
        /\ ~Linearized(a).fresh
        /\ Linearized(a).kind = IF a.fresh THEN "rest" ELSE a.kind
    BY <1>3, LinearizedPlan
  <1>5. /\ f \in Estimates
        /\ f.kind = Linearized(a).kind /\ f.fresh = Linearized(a).fresh
        /\ f.medium = Linearized(a).medium /\ f.ahead = Linearized(a).ahead
    BY <1>2, <1>4, AgedPlan
  <1>6. /\ f.kind = IF r.fresh THEN "rest" ELSE r.kind
        /\ ~f.fresh /\ f.ahead = 1 /\ f.medium = mediumSet
    BY <1>1, <1>3, <1>4, <1>5
  <1>7. /\ Restored' = r
        /\ prepared' \in Preparations
        /\ \/ prepared'.valid /\ est' = f
           \/ ~prepared'.valid /\ est' = r
    <2>1. Nothing \in Preparations /\ ~Nothing.valid
      BY DEF Nothing, Preparations, AtRest, Estimates, Kinds
    <2> DEFINE p == [valid |-> TRUE, due |-> Period, before |-> r]
    <2>2. p \in Preparations /\ p.valid /\ p.before = r
      BY <1>1, <1>2 DEF Preparations
    <2> HIDE DEF p
    <2>3. \/ est' = f /\ prepared' = p
          \/ est' = r /\ prepared' = Nothing
      BY DEF Prepare, p
    <2> QED
      BY <2>1, <2>2, <2>3 DEF Restored
  <1> HIDE DEF f, r, a
  <1>8. TypeOK'
    BY <1>1, <1>5, <1>7 DEF IInv, Prepare, history, TypeOK
  <1>9. HeldInv'
    <2>1. mode' = mode /\ wasHolding' = wasHolding /\ executes' = executes
      BY DEF Prepare
    <2>2. /\ mode = "Tracking" /\ ~wasHolding => Usable(r)
          /\ executes = "plan" => r.kind # "held"
      BY DEF IInv, HeldInv, r
    <2>3. Usable(r) => f.kind # "held"
      BY <1>6 DEF Usable
    <2>4. r.kind # "held" => f.kind # "held"
      BY <1>6
    <2>5. ~prepared'.valid \/ ~est'.fresh
      BY <1>6, <1>7
    <2> QED
      BY <1>7, <2>1, <2>2, <2>3, <2>4, <2>5 DEF HeldInv, Usable
  <1>10. BudgetInv'
    BY DEF IInv, Prepare, history, BudgetInv, Window
  <1>11. PreparationInv'
    BY <1>1, <1>6, <1>7 DEF Prepare, history, PreparationInv
  <1> QED
    BY <1>8, <1>9, <1>10, <1>11 DEF IInv

LEMMA Shifted ==
  ASSUME recent \in [Window -> BOOLEAN], NEW bad \in BOOLEAN
  PROVE  /\ Shift(bad) \in [Window -> BOOLEAN]
         /\ Shift(bad)[1] = bad
         /\ \A i \in Window : i > 1 => Shift(bad)[i] = recent[i - 1]
  <1>1. 1 \in Window
    BY ControllerConstants DEF Window
  <1>2. \A i \in Window : i > 1 => i - 1 \in Window
    BY ControllerConstants DEF Window
  <1>3. \A i \in Window : i # 1 => i > 1
    BY ControllerConstants DEF Window
  <1>4. \A i \in Window : i > 1 => i # 1
    OBVIOUS
  <1> QED
    BY <1>1, <1>2, <1>3, <1>4 DEF Shift

(* One more tracking cycle: good cycles end the run of bad ones, a bad one *)
(* makes it longer by one.                                                 *)
LEMMA CycleBudget ==
  ASSUME TypeOK, BudgetInv, mode = "Tracking", NEW bad \in BOOLEAN,
         stepped', recent' = Shift(bad), failuresAtStep' = failures,
         failures' = IF bad THEN failures + 1 ELSE 0,
         \/ mode' = "Tracking" /\ failures' <= FallbackCycles
         \/ mode' # "Tracking" /\ bad /\ failures' > FallbackCycles
  PROVE  BudgetInv' /\ recent' \in [Window -> BOOLEAN] /\ failures' \in 0..(FallbackCycles + 1)
  <1>1. /\ recent' \in [Window -> BOOLEAN]
        /\ recent'[1] = bad
        /\ \A i \in Window : i > 1 => recent'[i] = recent[i - 1]
    BY Shifted DEF TypeOK
  <1>2. failures \in Nat /\ failures <= FallbackCycles
        /\ (\A i \in Window : i <= failures => recent[i]) /\ ~recent[failures + 1]
    BY DEF TypeOK, BudgetInv
  <1>3. \A i \in Window : 1 < i /\ i <= failures + 1 => recent'[i]
    BY <1>1, <1>2, ControllerConstants DEF Window
  <1>4. \A i \in Window : i = failures + 2 => ~recent'[i]
    BY <1>1, <1>2, ControllerConstants DEF Window
  <1>5. failures' \in 0..(FallbackCycles + 1)
    BY <1>2, ControllerConstants
  <1>6. BudgetInv'
    <2>1. CASE mode' = "Tracking" /\ bad
      <3>1. recent'[1] /\ failures' = failures + 1
        BY <1>1, <2>1
      <3>2. failures' <= FallbackCycles
        BY <2>1
      <3>3. \A i \in Window : i <= failures' => recent'[i]
        BY <1>2, <1>3, <3>1, ControllerConstants DEF Window
      <3>4. ~recent'[failures' + 1]
        <4>1. failures + 2 \in Window
          BY <1>2, <3>1, <3>2, ControllerConstants DEF Window
        <4>2. failures' + 1 = failures + 2
          BY <1>2, <3>1
        <4> QED
          BY <1>4, <4>1, <4>2
      <3> QED
        BY <1>2, <1>3, <1>4, <2>1, <3>1, <3>2, <3>3, <3>4 DEF BudgetInv
    <2>2. CASE mode' = "Tracking" /\ ~bad
      <3>1. ~recent'[1] /\ failures' = 0
        BY <1>1, <2>2
      <3>2. ~recent'[failures' + 1] /\ failures' <= FallbackCycles
        BY <3>1, ControllerConstants
      <3>3. \A i \in Window : ~(i <= failures')
        BY <3>1, ControllerConstants DEF Window
      <3> QED
        BY <1>2, <1>3, <1>4, <2>2, <3>1, <3>2, <3>3 DEF BudgetInv
    <2>3. CASE mode' # "Tracking"
      <3>1. bad /\ recent'[1] /\ failures = FallbackCycles
        BY <1>1, <1>2, <2>3, ControllerConstants
      <3>2. \A i \in Window : i = 1 \/ (1 < i /\ i <= failures + 1)
        BY <3>1, ControllerConstants DEF Window
      <3>3. \A i \in Window : recent'[i]
        BY <1>3, <3>1, <3>2
      <3> QED
        BY <2>3, <3>3 DEF BudgetInv
    <2> QED
      BY <2>1, <2>2, <2>3
  <1> QED
    BY <1>1, <1>5, <1>6

LEMMA SolvedStepInv ==
  ASSUME IInv, NEW gap \in Nat, NEW close \in BOOLEAN, NEW atRest \in BOOLEAN,
         NEW verdict \in Verdicts, SolvedStep(gap, close, verdict, atRest)
  PROVE  IInv'
  <1> DEFINE pass  == verdict = "pass"
             since == Dwelt(gap, pass)
             dwelling == wasHolding /\ pass /\ since < ResumeDwell
             holding  == (GateEnabled /\ (~pass \/ dwelling)) \/ externalHold
             b == Built(gap, close)
             kind == IF holding THEN "held" ELSE "passed"
  <1>1. since \in {NoTime} \cup 0..ResumeDwell
    BY ControllerConstants DEF IInv, TypeOK, NoTime, Lower, Dwelt
  <1>2. b \in Estimates /\ b.ahead = 1 /\ b.medium = mediumSet
    BY BuiltPlan DEF IInv
  <1>3. /\ resumeAge' = since
        /\ est' = [b EXCEPT !.kind = kind, !.age = 0, !.ahead = @ - 1]
        /\ mode = "Tracking" /\ mode' = "Tracking" /\ failures' = 0 /\ prepared' = Nothing
        /\ stepped' /\ stepped' \in BOOLEAN /\ recent' = Shift(FALSE)
        /\ sinceUnsafe' = IF ~pass \/ ~wasHolding THEN 0 ELSE Lower(sinceUnsafe + gap, SinceCap)
        /\ stale' = stale
    BY DEF SolvedStep
  <1>4. \/ /\ holding
           /\ Finish(IF externalHold THEN "Blocked" ELSE "Holding", "braking",
                     BrakeBase(cmd, Elapsed(gap)))
        \/ /\ ~holding
           /\ \E v \in PlanCommands(gap, atRest) : Finish("Ok", "plan", v)
    BY DEF SolvedStep
  <1> HIDE DEF since, holding, b
  <1>5. /\ cmd' \in 0..VMax /\ status' \in Statuses /\ wasHolding' \in BOOLEAN
        /\ executes' \in {"plan", "braking"}
        /\ failuresAtStep' = failures
        /\ started' = started /\ externalHold' = externalHold /\ mediumSet' = mediumSet
        /\ \/ holding /\ wasHolding' /\ executes' = "braking"
           \/ ~holding
    <2>1. BrakeBase(cmd, Elapsed(gap)) \in 0..VMax
      BY ElapsedNat, BrakeBaseInBox DEF IInv, TypeOK
    <2>2. PlanCommands(gap, atRest) \subseteq 0..VMax
      BY PlanCommandsInBox DEF IInv, TypeOK
    <2>3. CASE /\ holding
               /\ Finish(IF externalHold THEN "Blocked" ELSE "Holding", "braking",
                         BrakeBase(cmd, Elapsed(gap)))
      BY <2>1, <2>3 DEF Finish, Statuses
    <2>4. CASE ~holding /\ \E v \in PlanCommands(gap, atRest) : Finish("Ok", "plan", v)
      BY <2>2, <2>4 DEF Finish, Statuses
    <2> QED
      BY <1>4, <2>3, <2>4
  <1>6. /\ est' \in Estimates /\ est'.ahead = 0 /\ est'.medium = mediumSet
        /\ est'.kind = kind
    <2>1. est' = [kind |-> kind, age |-> 0, fresh |-> b.fresh, medium |-> b.medium,
                  ahead |-> b.ahead - 1]
      BY <1>2, <1>3 DEF Estimates
    <2> QED
      BY <1>2, <2>1 DEF Estimates, Kinds
  <1>7. prepared' \in Preparations /\ ~prepared'.valid /\ Restored' = est'
    BY <1>3 DEF Nothing, Preparations, AtRest, Estimates, Kinds, Restored
  <1>8. BudgetInv' /\ recent' \in [Window -> BOOLEAN] /\ failures' \in 0..(FallbackCycles + 1)
    <2>1. failures' <= FallbackCycles
      BY <1>3, ControllerConstants
    <2> QED
      BY <1>3, <1>5, <2>1, CycleBudget DEF IInv
  <1>9. TypeOK'
    <2>1. sinceUnsafe' \in 0..SinceCap
      BY <1>3, ControllerConstants DEF IInv, TypeOK, SinceCap, Lower
    <2>2. failuresAtStep' \in 0..(FallbackCycles + 1)
      BY <1>5 DEF IInv, TypeOK
    <2> QED
      BY <1>1, <1>3, <1>5, <1>6, <1>7, <1>8, <2>1, <2>2 DEF IInv, TypeOK, Modes
  <1>10. HeldInv'
    BY <1>5, <1>6, <1>7 DEF HeldInv, Usable
  <1>11. PreparationInv'
    BY <1>5, <1>6, <1>7 DEF PreparationInv
  <1> QED
    BY <1>8, <1>9, <1>10, <1>11 DEF IInv

LEMMA FailedStepInv ==
  ASSUME IInv, NEW gap \in Nat, NEW close \in BOOLEAN, NEW atRest \in BOOLEAN,
         FailedStep(gap, close, atRest)
  PROVE  IInv'
  <1> DEFINE b == Built(gap, close)
  <1>1. /\ b \in Estimates /\ b.ahead = 1 /\ b.medium = mediumSet
        /\ mode = "Tracking" /\ ~wasHolding => b.kind # "held"
    BY BuiltPlan DEF IInv
  <1>2. /\ mode = "Tracking" /\ failures' = failures + 1 /\ prepared' = Nothing
        /\ resumeAge' = IF KeepsHolding THEN NoTime ELSE resumeAge
        /\ est' = [b EXCEPT !.ahead = @ - 1]
        /\ stepped' /\ stepped' \in BOOLEAN /\ recent' = Shift(TRUE)
        /\ sinceUnsafe' = 0 /\ stale' = stale
    BY DEF FailedStep
  <1>3. \/ failures + 1 > FallbackCycles /\ Braking("Braking", gap)
        \/ /\ ~(failures + 1 > FallbackCycles) /\ mode' = "Tracking" /\ KeepsHolding
           /\ Finish(IF externalHold THEN "Blocked" ELSE "Holding", "braking",
                     BrakeBase(cmd, Elapsed(gap)))
        \/ /\ ~(failures + 1 > FallbackCycles) /\ mode' = "Tracking" /\ ~KeepsHolding
           /\ \E v \in PlanCommands(gap, atRest) : Finish("Fallback", "plan", v)
    BY DEF FailedStep
  <1> HIDE DEF b
  <1>4. /\ cmd' \in 0..VMax /\ status' \in Statuses /\ wasHolding' \in BOOLEAN
        /\ executes' \in {"plan", "braking"} /\ mode' \in Modes
        /\ failuresAtStep' = failures
        /\ started' = started /\ externalHold' = externalHold /\ mediumSet' = mediumSet
        /\ \/ failures + 1 > FallbackCycles /\ mode' # "Tracking" /\ executes' = "braking"
           \/ /\ ~(failures + 1 > FallbackCycles) /\ mode' = "Tracking" /\ wasHolding'
              /\ executes' = "braking"
           \/ /\ ~(failures + 1 > FallbackCycles) /\ mode' = "Tracking" /\ ~wasHolding
    <2>1. BrakeBase(cmd, Elapsed(gap)) \in 0..VMax
      BY ElapsedNat, BrakeBaseInBox DEF IInv, TypeOK
    <2>2. PlanCommands(gap, atRest) \subseteq 0..VMax
      BY PlanCommandsInBox DEF IInv, TypeOK
    <2>3. CASE Braking("Braking", gap) /\ failures + 1 > FallbackCycles
      BY <2>3, BrakingEffect DEF IInv, Statuses, Modes
    <2>4. CASE /\ ~(failures + 1 > FallbackCycles) /\ mode' = "Tracking" /\ KeepsHolding
               /\ Finish(IF externalHold THEN "Blocked" ELSE "Holding", "braking",
                         BrakeBase(cmd, Elapsed(gap)))
      BY <2>1, <2>4 DEF Finish, Statuses, Modes
    <2>5. CASE /\ ~(failures + 1 > FallbackCycles) /\ mode' = "Tracking" /\ ~KeepsHolding
               /\ \E v \in PlanCommands(gap, atRest) : Finish("Fallback", "plan", v)
      BY <2>2, <2>5 DEF Finish, Statuses, Modes, KeepsHolding
    <2> QED
      BY <1>3, <2>3, <2>4, <2>5
  <1>5. /\ est' \in Estimates /\ est'.ahead = 0 /\ est'.medium = mediumSet
        /\ est'.kind = b.kind
    <2>1. est' = [kind |-> b.kind, age |-> b.age, fresh |-> b.fresh, medium |-> b.medium,
                  ahead |-> b.ahead - 1]
      BY <1>1, <1>2 DEF Estimates
    <2> QED
      BY <1>1, <2>1 DEF Estimates
  <1>6. prepared' \in Preparations /\ ~prepared'.valid /\ Restored' = est'
    BY <1>2 DEF Nothing, Preparations, AtRest, Estimates, Kinds, Restored
  <1>7. failures \in Nat /\ FallbackCycles \in Nat /\ failures <= FallbackCycles
    BY <1>2, ControllerConstants DEF IInv, TypeOK, BudgetInv
  <1>8. BudgetInv' /\ recent' \in [Window -> BOOLEAN] /\ failures' \in 0..(FallbackCycles + 1)
    <2>1. \/ mode' = "Tracking" /\ failures' <= FallbackCycles
          \/ mode' # "Tracking" /\ failures' > FallbackCycles
      BY <1>2, <1>4, <1>7
    <2> QED
      BY <1>2, <1>4, <2>1, CycleBudget DEF IInv
  <1>9. TypeOK'
    <2>1. sinceUnsafe' \in 0..SinceCap
      BY <1>2, ControllerConstants DEF SinceCap
    <2>2. failuresAtStep' \in 0..(FallbackCycles + 1)
      BY <1>4 DEF IInv, TypeOK
    <2> QED
      BY <1>2, <1>4, <1>5, <1>6, <1>8, <2>1, <2>2 DEF IInv, TypeOK
  <1>10. HeldInv'
    BY <1>1, <1>2, <1>4, <1>5, <1>6 DEF HeldInv, Usable
  <1>11. PreparationInv'
    BY <1>4, <1>5, <1>6 DEF PreparationInv
  <1> QED
    BY <1>8, <1>9, <1>10, <1>11 DEF IInv

LEMMA NextInv == IInv /\ [Next]_vars => IInv'
  <1> SUFFICES ASSUME IInv, [Next]_vars PROVE IInv'
    OBVIOUS
  <1>1. CASE Start
    BY <1>1, StartInv
  <1>2. CASE UpdateGoal
    BY <1>2, UpdateGoalInv
  <1>3. CASE \E m \in BOOLEAN : ReplaceRoute(m)
    BY <1>3, ReplaceRouteInv
  <1>4. CASE \E v \in 0..VMax : ResetCommand(v)
    BY <1>4, ResetCommandInv
  <1>5. CASE \E on \in BOOLEAN : SetExternalHold(on)
    BY <1>5, SetExternalHoldInv
  <1>6. CASE NoteFailure
    BY <1>6, NoteFailureInv
  <1>7. CASE Prepare
    BY <1>7, PrepareInv
  <1>8. CASE \E gap \in 0..MaxGap : Step(gap)
    <2>1. PICK gap \in 0..MaxGap : Step(gap)
      BY <1>8
    <2>2. gap \in Nat
      BY ControllerConstants
    <2>3. CASE StaleStep(gap) \/ LatchedStep(gap) \/ BrakingStep(gap) \/ GoalStep(gap)
      BY <2>2, <2>3, EndingStepInv
    <2>4. CASE \E close, atRest \in BOOLEAN :
                 \/ \E verdict \in Verdicts \ {"fail"} :
                      SolvedStep(gap, close, verdict, atRest)
                 \/ FailedStep(gap, close, atRest)
      BY <2>2, <2>4, SolvedStepInv, FailedStepInv
    <2> QED
      BY <2>1, <2>3, <2>4 DEF Step
  <1>9. CASE UNCHANGED vars
    <2>1. TypeOK'
      BY <1>9 DEF vars, codeVars, history, IInv, TypeOK
    <2>2. HeldInv'
      BY <1>9 DEF vars, codeVars, history, IInv, HeldInv, Usable, Restored
    <2>3. BudgetInv'
      BY <1>9 DEF vars, codeVars, history, IInv, BudgetInv
    <2>4. PreparationInv'
      BY <1>9 DEF vars, codeVars, history, IInv, PreparationInv, Restored
    <2> QED
      BY <2>1, <2>2, <2>3, <2>4 DEF IInv
  <1> QED
    BY <1>1, <1>2, <1>3, <1>4, <1>5, <1>6, <1>7, <1>8, <1>9 DEF Next

(* The controller keeps its invariant, called in any order.                *)
THEOREM Invariant == Spec => []IInv
  <1> QED
    BY InitInv, NextInv, PTL DEF Spec

-----------------------------------------------------------------------------
(* What the runs check, for every value of the constants.                  *)

(* Every variable keeps its range: the failure count its budget, the base  *)
(* command the speed box, whatever step, start, prepare and note_failure do. *)
THEOREM TypeCorrect == Spec => []TypeOK
  <1>1. IInv => TypeOK
    BY DEF IInv
  <1> QED
    BY <1>1, Invariant, PTL

(* No output follows a plan that was held (controller.cpp, step 740-812).  *)
THEOREM HeldPlans == Spec => []HeldPlanNeverExecuted
  <1>1. IInv => HeldPlanNeverExecuted
    BY DEF IInv, HeldInv, HeldPlanNeverExecuted
  <1> QED
    BY <1>1, Invariant, PTL

(* A goal brakes from fresh states when, and only when, the last           *)
(* FallbackCycles + 1 tracking cycles failed or were late (note_failure).  *)
THEOREM FallbackBudget == Spec => []FallbackBudgetExact
  <1>1. IInv => FallbackBudgetExact
    <2> SUFFICES ASSUME IInv PROVE FallbackBudgetExact
      OBVIOUS
    <2>1. ASSUME mode = "Tracking" PROVE \E i \in Window : ~recent[i]
      <3>1. failures + 1 \in Window /\ ~recent[failures + 1]
        BY <2>1, ControllerConstants DEF IInv, TypeOK, BudgetInv, Window
      <3> QED
        BY <3>1
    <2>2. mode \in {"Braking", "Failed"} => stale \/ \A i \in Window : recent[i]
      BY DEF IInv, BudgetInv
    <2> QED
      BY <2>1, <2>2 DEF FallbackBudgetExact
  <1> QED
    BY <1>1, Invariant, PTL

(* An unused preparation never outlives what is built next                 *)
(* (discard_preparation in start, update_goal, replace_route, step).       *)
THEOREM PreparationsUndone == Spec => []PreparationUndone
  <1>1. IInv => PreparationUndone
    BY DEF IInv, PreparationInv, PreparationUndone, Restored
  <1> QED
    BY <1>1, Invariant, PTL

(* The medium reference in use is the one set last, undone preparation or  *)
(* not (medium_switch.cpp, update).                                        *)
THEOREM MediumReference == Spec => []MediumAsSet
  <1>1. IInv => MediumAsSet
    BY DEF IInv, PreparationInv, MediumAsSet, Restored
  <1> QED
    BY <1>1, Invariant, PTL

(* Undoing a preparation restores all that it advanced and nothing that    *)
(* the caller has set since (discard_preparation).                         *)
THEOREM UndonePreparations == Spec => []UndoneWhole
  <1>1. PreparationUndone /\ MediumAsSet => UndoneWhole
    BY DEF UndoneWhole
  <1> QED
    BY <1>1, PreparationsUndone, MediumReference, PTL
-----------------------------------------------------------------------------
(* The resume dwell and the braking limit.                                 *)

(* A hold follows no plan, and its plans have not passed the gate longer   *)
(* than no plan was rejected.                                              *)
DwellInv ==
  /\ wasHolding => executes # "plan"
  /\ GateEnabled /\ wasHolding /\ resumeAge # NoTime => sinceUnsafe >= resumeAge

LEMMA FinishEffect ==
  ASSUME NEW st, NEW how, NEW v, Finish(st, how, v)
  PROVE  /\ status' = st /\ executes' = how /\ cmd' = v
         /\ started' = started /\ externalHold' = externalHold
         /\ st \in {"Holding", "Blocked"} => wasHolding' = TRUE
         /\ st \notin {"Holding", "Blocked"} => ~wasHolding'
  <1>1. /\ status' = st /\ executes' = how /\ cmd' = v
        /\ started' = started /\ externalHold' = externalHold
        /\ wasHolding' = (st \in {"Holding", "Blocked"})
    BY DEF Finish
  <1>2. st \in {"Holding", "Blocked"} => wasHolding' = TRUE
    BY <1>1, Zenon
  <1>3. st \notin {"Holding", "Blocked"} => ~wasHolding'
    BY <1>1, Zenon
  <1> QED
    BY <1>1, <1>2, <1>3

(* What a failed solve sends.                                              *)
LEMMA FailedSends ==
  ASSUME NEW gap, NEW close, NEW atRest, FailedStep(gap, close, atRest)
  PROVE  \/ /\ ~KeepsHolding /\ ~wasHolding' /\ status' = "Fallback"
            /\ executes' = "plan" /\ mode' = "Tracking" /\ cmd' \in PlanCommands(gap, atRest)
         \/ /\ KeepsHolding /\ wasHolding' = TRUE /\ executes' = "braking"
            /\ status' = IF externalHold THEN "Blocked" ELSE "Holding"
            /\ mode' = "Tracking" /\ cmd' = BrakeBase(cmd, Elapsed(gap))
         \/ /\ ~wasHolding' /\ executes' = "braking" /\ Braking("Braking", gap)
            /\ cmd' = BrakeBase(cmd, Elapsed(gap))
  <1> USE DEF FailedStep
  <1>1. CASE failures + 1 > FallbackCycles
    BY <1>1, FinishEffect DEF Braking
  <1>2. CASE ~(failures + 1 > FallbackCycles) /\ KeepsHolding
    BY <1>2, FinishEffect
  <1>3. CASE ~(failures + 1 > FallbackCycles) /\ ~KeepsHolding
    <2>1. PICK v \in PlanCommands(gap, atRest) : Finish("Fallback", "plan", v)
      BY <1>3
    <2>2. ~wasHolding' /\ status' = "Fallback" /\ executes' = "plan" /\ cmd' = v
      BY <2>1 DEF Finish
    <2>3. mode' = "Tracking"
      BY <1>3
    <2> QED
      BY <1>3, <2>1, <2>2, <2>3
  <1> QED
    BY <1>1, <1>2, <1>3

(* What a solved cycle sends: a plan only without any hold.                *)
LEMMA SolvedSends ==
  ASSUME NEW gap, NEW close, NEW verdict, NEW atRest, SolvedStep(gap, close, verdict, atRest)
  PROVE  \/ /\ wasHolding' = TRUE /\ executes' = "braking" /\ mode' = "Tracking"
            /\ status' = IF externalHold THEN "Blocked" ELSE "Holding"
            /\ cmd' = BrakeBase(cmd, Elapsed(gap))
         \/ /\ ~wasHolding' /\ executes' = "plan" /\ status' = "Ok" /\ mode' = "Tracking"
            /\ ~externalHold /\ cmd' \in PlanCommands(gap, atRest)
            /\ GateEnabled => /\ verdict = "pass"
                              /\ wasHolding => ~(Dwelt(gap, verdict = "pass") < ResumeDwell)
  <1> DEFINE holding ==
        \/ GateEnabled /\ (verdict # "pass" \/ (/\ wasHolding /\ verdict = "pass"
                                                /\ Dwelt(gap, verdict = "pass") < ResumeDwell))
        \/ externalHold
  <1>1. /\ mode' = "Tracking"
        /\ IF holding
             THEN Finish(IF externalHold THEN "Blocked" ELSE "Holding", "braking",
                         BrakeBase(cmd, Elapsed(gap)))
             ELSE \E v \in PlanCommands(gap, atRest) : Finish("Ok", "plan", v)
    BY DEF SolvedStep
  <1>2. CASE holding
    <2> DEFINE st == IF externalHold THEN "Blocked" ELSE "Holding"
               v  == BrakeBase(cmd, Elapsed(gap))
    <2>1. Finish(st, "braking", v)
      BY <1>1, <1>2
    <2>2. st \in {"Holding", "Blocked"}
      OBVIOUS
    <2> HIDE DEF st, v, holding
    <2>3. status' = st /\ executes' = "braking" /\ cmd' = v /\ wasHolding' = TRUE
      BY <2>1, <2>2, FinishEffect
    <2>4. mode' = "Tracking"
      BY <1>1
    <2> QED
      BY <2>3, <2>4 DEF st, v
  <1>3. CASE ~holding
    <2>1. PICK v \in PlanCommands(gap, atRest) : Finish("Ok", "plan", v)
      BY <1>1, <1>3
    <2>2. ~wasHolding' /\ status' = "Ok" /\ executes' = "plan" /\ cmd' = v
      BY <2>1 DEF Finish
    <2> QED
      BY <1>1, <1>3, <2>1, <2>2
  <1> QED
    BY <1>2, <1>3

(* What an ending step sends.                                              *)
LEMMA EndingSends ==
  ASSUME NEW gap, StaleStep(gap) \/ LatchedStep(gap) \/ BrakingStep(gap) \/ GoalStep(gap)
  PROVE  /\ ~wasHolding'
         /\ \/ executes' = "zero" /\ cmd' = 0
            \/ executes' = "braking" /\ cmd' = BrakeBase(cmd, Elapsed(gap))
  <1>1. CASE StaleStep(gap) \/ BrakingStep(gap)
    <2>1. PICK st \in {"StaleState", "Braking"} : Braking(st, gap)
      BY <1>1 DEF StaleStep, BrakingStep
    <2> DEFINE v == BrakeBase(cmd, Elapsed(gap))
               sent == IF v = 0 THEN "Failed" ELSE st
    <2>2. Finish(sent, "braking", v) /\ sent \notin {"Holding", "Blocked"}
      BY <2>1 DEF Braking
    <2> HIDE DEF sent
    <2> QED
      BY <2>2, FinishEffect
  <1>2. CASE LatchedStep(gap)
    BY <1>2, FinishEffect DEF LatchedStep
  <1>3. CASE GoalStep(gap)
    BY <1>3, FinishEffect DEF GoalStep
  <1> QED
    BY <1>1, <1>2, <1>3

LEMMA DwellKeptInv ==
  ASSUME IInv, DwellInv, [Next]_vars
  PROVE  DwellInv'
  <1>1. resumeAge \in {NoTime} \cup 0..ResumeDwell /\ sinceUnsafe \in 0..SinceCap
        /\ ResumeDwell \in Nat /\ SinceCap = ResumeDwell /\ NoTime = -1
    BY ControllerConstants DEF IInv, TypeOK, SinceCap, NoTime
  <1>2. CASE Start
    BY <1>2 DEF DwellInv, Start
  <1>3. CASE UpdateGoal \/ (\E m \in BOOLEAN : ReplaceRoute(m))
             \/ (\E v \in 0..VMax : ResetCommand(v))
             \/ (\E on \in BOOLEAN : SetExternalHold(on)) \/ NoteFailure \/ Prepare
             \/ UNCHANGED vars
    <2>1. UNCHANGED <<wasHolding, executes, resumeAge, sinceUnsafe>>
      BY <1>3 DEF UpdateGoal, ReplaceRoute, ResetCommand, SetExternalHold,
         NoteFailure, Prepare, vars, codeVars, history
    <2> QED
      BY <2>1 DEF DwellInv
  <1>4. CASE \E gap \in 0..MaxGap : Step(gap)
    <2>1. PICK gap \in 0..MaxGap : Step(gap)
      BY <1>4
    <2>2. gap \in Nat
      BY ControllerConstants
    <2>3. CASE StaleStep(gap) \/ LatchedStep(gap) \/ BrakingStep(gap) \/ GoalStep(gap)
      BY <2>3, EndingSends DEF DwellInv
    <2>4. ASSUME NEW close \in BOOLEAN, NEW atRest \in BOOLEAN, FailedStep(gap, close, atRest)
          PROVE  DwellInv'
      <3>1. resumeAge' = IF KeepsHolding THEN NoTime ELSE resumeAge
        BY <2>4 DEF FailedStep
      <3>2. \/ ~wasHolding'
            \/ wasHolding' = TRUE /\ KeepsHolding /\ executes' = "braking"
        BY <2>4, FailedSends
      <3> QED
        BY <3>1, <3>2 DEF DwellInv
    <2>5. ASSUME NEW close \in BOOLEAN, NEW atRest \in BOOLEAN,
                 NEW verdict \in Verdicts \ {"fail"}, SolvedStep(gap, close, verdict, atRest)
          PROVE  DwellInv'
      <3> DEFINE pass == verdict = "pass"
      <3>1. /\ resumeAge' = Dwelt(gap, pass)
            /\ sinceUnsafe' = IF ~pass \/ ~wasHolding THEN 0 ELSE Lower(sinceUnsafe + gap, SinceCap)
        BY <2>5 DEF SolvedStep
      <3>2. \/ ~wasHolding'
            \/ executes' = "braking"
        BY <2>5, SolvedSends
      <3> HIDE DEF pass
      <3>3. CASE GateEnabled /\ resumeAge' # NoTime
        <4>1. pass /\ wasHolding
          BY <3>1, <3>3 DEF Dwelt
        <4>2. resumeAge' = IF resumeAge = NoTime THEN 0 ELSE Lower(resumeAge + gap, ResumeDwell)
          BY <3>1, <3>3, <4>1 DEF Dwelt
        <4>3. sinceUnsafe' = Lower(sinceUnsafe + gap, ResumeDwell)
          BY <1>1, <3>1, <4>1
        <4>4. resumeAge # NoTime => sinceUnsafe >= resumeAge
          BY <3>3, <4>1 DEF DwellInv
        <4>5. sinceUnsafe' >= resumeAge'
          BY <1>1, <2>2, <4>2, <4>3, <4>4 DEF Lower
        <4> QED
          BY <3>2, <4>5 DEF DwellInv
      <3> QED
        BY <3>2, <3>3 DEF DwellInv
    <2> QED
      BY <2>1, <2>3, <2>4, <2>5 DEF Step
  <1> QED
    BY <1>2, <1>3, <1>4 DEF Next

LEMMA DwellInvariant == Spec => []DwellInv
  <1>1. Init => DwellInv
    BY DEF Init, DwellInv
  <1> QED
    BY <1>1, Invariant, DwellKeptInv, PTL DEF Spec

(* No hold under the slack gate ends in an executed plan before the dwell  *)
(* (controller.cpp, resume_since_).                                        *)
THEOREM DwellBeforeResume == Spec => ResumeOnlyAfterDwell
  <1> DEFINE Resumes == GateEnabled /\ wasHolding /\ ~wasHolding' /\ executes' = "plan"
  <1>1. ASSUME IInv, DwellInv, [Next]_vars, Resumes
        PROVE  sinceUnsafe' >= ResumeDwell
    <2>1. resumeAge \in {NoTime} \cup 0..ResumeDwell /\ sinceUnsafe \in 0..SinceCap
          /\ ResumeDwell \in Nat /\ SinceCap = ResumeDwell /\ NoTime = -1
      BY <1>1, ControllerConstants DEF IInv, TypeOK, SinceCap, NoTime
    <2>2. executes # "plan" /\ executes' = "plan"
      BY <1>1 DEF DwellInv
    <2>3. \E gap \in 0..MaxGap : Step(gap)
      BY <1>1, <2>2 DEF Next, Start, UpdateGoal, ReplaceRoute, ResetCommand, SetExternalHold,
         NoteFailure, Prepare, vars, codeVars
    <2>4. PICK gap \in 0..MaxGap : Step(gap)
      BY <2>3
    <2>5. gap \in Nat
      BY ControllerConstants
    <2>6. ~(StaleStep(gap) \/ LatchedStep(gap) \/ BrakingStep(gap) \/ GoalStep(gap))
      BY <2>2, EndingSends
    <2>7. ASSUME NEW close \in BOOLEAN, NEW atRest \in BOOLEAN
          PROVE  ~FailedStep(gap, close, atRest)
      BY <1>1, <2>2, FailedSends DEF KeepsHolding
    <2>8. PICK close \in BOOLEAN, atRest \in BOOLEAN, verdict \in Verdicts \ {"fail"} :
            SolvedStep(gap, close, verdict, atRest)
      BY <2>4, <2>6, <2>7 DEF Step
    <2> DEFINE pass == verdict = "pass"
    <2>9. /\ sinceUnsafe' = IF ~pass \/ ~wasHolding THEN 0 ELSE Lower(sinceUnsafe + gap, SinceCap)
          /\ pass /\ ~(Dwelt(gap, pass) < ResumeDwell)
      <3>1. sinceUnsafe' = IF ~pass \/ ~wasHolding THEN 0 ELSE Lower(sinceUnsafe + gap, SinceCap)
        BY <2>8 DEF SolvedStep
      <3>2. GateEnabled /\ wasHolding /\ executes' # "braking"
        BY <1>1, <2>2
      <3> QED
        BY <2>8, <3>1, <3>2, SolvedSends
    <2> HIDE DEF pass
    <2>10. Dwelt(gap, pass) = IF resumeAge = NoTime THEN 0 ELSE Lower(resumeAge + gap, ResumeDwell)
      BY <1>1, <2>9 DEF Dwelt
    <2>11. sinceUnsafe' = Lower(sinceUnsafe + gap, ResumeDwell)
      BY <1>1, <2>1, <2>9
    <2>12. resumeAge # NoTime => sinceUnsafe >= resumeAge
      BY <1>1 DEF DwellInv
    <2>13. CASE resumeAge = NoTime
      <3>1. ~(0 < ResumeDwell)
        BY <2>9, <2>10, <2>13
      <3>2. ResumeDwell = 0
        BY <2>1, <3>1
      <3> QED
        BY <2>1, <2>5, <2>11, <3>2 DEF Lower
    <2>14. CASE resumeAge # NoTime
      <3>1. resumeAge \in 0..ResumeDwell /\ sinceUnsafe >= resumeAge
        BY <2>1, <2>12, <2>14
      <3>2. ~(Lower(resumeAge + gap, ResumeDwell) < ResumeDwell)
        BY <2>9, <2>10, <2>14
      <3> QED
        BY <2>1, <2>5, <2>11, <3>1, <3>2 DEF Lower
    <2> QED
      BY <2>13, <2>14
  <1>2. IInv /\ DwellInv /\ [Next]_vars =>
          [Resumes => sinceUnsafe' >= ResumeDwell]_vars
    BY <1>1
  <1> QED
    BY <1>2, Invariant, DwellInvariant, PTL DEF Spec, ResumeOnlyAfterDwell

LEMMA Monotone ==
  ASSUME NEW a \in Nat, NEW b \in Nat, NEW c \in Nat, b <= c
  PROVE  a * b <= a * c
  OBVIOUS

(* Braking over a step never takes more than over a stage.                 *)
LEMMA StageBounds ==
  ASSUME NEW gap \in Nat
  PROVE  /\ Elapsed(gap) \in Nat /\ Brake * Elapsed(gap) \in Nat /\ Brake * Stage \in Nat
         /\ Brake * Elapsed(gap) <= Brake * Stage
         /\ gap > 0 => Brake * Elapsed(gap) > 0
  <1>1. Elapsed(gap) \in Nat /\ Elapsed(gap) <= Stage /\ (gap > 0 => Elapsed(gap) > 0)
    BY ControllerConstants DEF Elapsed, Lower
  <1>2. Brake \in Nat /\ Brake > 0 /\ Stage \in Nat
    BY ControllerConstants
  <1>3. Brake * Elapsed(gap) <= Brake * Stage
    BY <1>1, <1>2, Monotone
  <1>4. Brake * Elapsed(gap) \in Nat /\ Brake * Stage \in Nat
    BY <1>1, <1>2
  <1>5. Elapsed(gap) > 0 => Brake * Elapsed(gap) >= Brake * 1
    BY <1>1, <1>2, Monotone
  <1> QED
    BY <1>1, <1>2, <1>3, <1>4, <1>5

(* A braking step slows the base, within the limit and at most to rest.    *)
LEMMA BrakeBaseLimits ==
  ASSUME TypeOK, NEW gap \in Nat, NEW v, v = BrakeBase(cmd, Elapsed(gap))
  PROVE  /\ v \in 0..cmd
         /\ v >= cmd - Brake * Stage \/ (v = 0 /\ cmd - Brake * Stage < DeadZone)
         /\ gap > 0 => v = 0 \/ v < cmd
  <1> DEFINE d == Brake * Elapsed(gap)
             s == Brake * Stage
  <1>1. d \in Nat /\ s \in Nat /\ d <= s /\ (gap > 0 => d > 0)
    BY StageBounds
  <1>2. cmd \in Nat /\ DeadZone \in Nat
    BY ControllerConstants DEF TypeOK
  <1>3. v = IF Upper(0, cmd - d) < DeadZone THEN 0 ELSE Upper(0, cmd - d)
    BY DEF BrakeBase
  <1> HIDE DEF d, s
  <1>4. /\ v \in 0..cmd
        /\ v >= cmd - s \/ (v = 0 /\ cmd - s < DeadZone)
        /\ gap > 0 => v = 0 \/ v < cmd
    BY <1>1, <1>2, <1>3 DEF Upper
  <1> QED
    BY <1>4 DEF s

(* So does an executed plan.                                               *)
LEMMA PlanLimits ==
  ASSUME TypeOK, NEW gap \in Nat, NEW atRest \in BOOLEAN, NEW v \in PlanCommands(gap, atRest)
  PROVE  v >= cmd - Brake * Stage \/ (v = 0 /\ cmd - Brake * Stage < DeadZone)
  <1> DEFINE d == Brake * Elapsed(gap)
             s == Brake * Stage
             hi == Lower(VMax, cmd + Accel * Elapsed(gap))
  <1>1. d \in Nat /\ s \in Nat /\ d <= s
    BY StageBounds
  <1>2. cmd \in Nat /\ DeadZone \in Nat /\ Breakaway \in Nat
    BY ControllerConstants DEF TypeOK
  <1>3. PICK u \in Upper(0, cmd - d)..hi : v = BreakawayOutput(u, atRest)
    BY DEF PlanCommands
  <1>4. Upper(0, cmd - d) \in Int /\ Upper(0, cmd - d) >= cmd - d /\ Upper(0, cmd - d) >= 0
    BY <1>1, <1>2 DEF Upper
  <1> HIDE DEF d, s
  <1>5. hi \in Int
    BY StageBounds, ControllerConstants, <1>2 DEF Lower
  <1> HIDE DEF hi
  <1>6. u \in Int /\ u >= cmd - d /\ u >= 0
    BY <1>1, <1>2, <1>3, <1>4, <1>5
  <1>7. v >= cmd - s \/ (v = 0 /\ cmd - s < DeadZone)
    BY <1>1, <1>2, <1>3, <1>6 DEF BreakawayOutput
  <1> QED
    BY <1>7 DEF s

(* No cycle brakes harder than the envelope's limit over a stage but to    *)
(* the dead zone (controller.cpp, the output stage and brake_base).        *)
THEOREM BrakingLimit == Spec => StopsWithinBrakingLimit
  <1> DEFINE Within == \/ cmd' >= cmd - Brake * Stage
                       \/ cmd' = 0 /\ cmd - Brake * Stage < DeadZone
             Excused == executes' = "zero" \/ ResetCommand(cmd')
  <1>1. ASSUME IInv, [Next]_vars PROVE Within \/ Excused \/ UNCHANGED vars
    <2>0. TypeOK /\ cmd \in Nat /\ Brake * Stage \in Nat
      BY <1>1, StageBounds, ControllerConstants DEF IInv, TypeOK
    <2>1. cmd' = cmd => Within
      BY <2>0
    <2> HIDE DEF Within
    <2>2. CASE Start \/ UpdateGoal \/ (\E m \in BOOLEAN : ReplaceRoute(m))
               \/ (\E on \in BOOLEAN : SetExternalHold(on)) \/ NoteFailure
      BY <2>1, <2>2 DEF Start, UpdateGoal, ReplaceRoute, SetExternalHold, NoteFailure
    <2>3. CASE \E v \in 0..VMax : ResetCommand(v)
      <3>1. PICK v \in 0..VMax : ResetCommand(v)
        BY <2>3
      <3>2. cmd' = v
        BY <3>1 DEF ResetCommand
      <3> QED
        BY <3>1, <3>2
    <2>4. CASE Prepare
      BY <2>1, <2>4 DEF Prepare
    <2>5. CASE \E gap \in 0..MaxGap : Step(gap)
      <3>1. PICK gap \in 0..MaxGap : Step(gap)
        BY <2>5
      <3>2. gap \in Nat
        BY ControllerConstants
      <3>3. cmd' = BrakeBase(cmd, Elapsed(gap)) => Within
        BY <2>0, <3>2, BrakeBaseLimits DEF Within
      <3>4. ASSUME NEW atRest \in BOOLEAN, cmd' \in PlanCommands(gap, atRest) PROVE Within
        BY <2>0, <3>2, <3>4, PlanLimits DEF Within
      <3>5. CASE StaleStep(gap) \/ BrakingStep(gap)
        BY <3>3, <3>5, EndingSends
      <3>6. CASE LatchedStep(gap) \/ GoalStep(gap)
        BY <3>3, <3>6, EndingSends
      <3>7. ASSUME NEW close \in BOOLEAN, NEW atRest \in BOOLEAN, FailedStep(gap, close, atRest)
            PROVE  Within
        BY <3>3, <3>4, <3>7, FailedSends
      <3>8. ASSUME NEW close \in BOOLEAN, NEW atRest \in BOOLEAN,
                   NEW verdict \in Verdicts \ {"fail"}, SolvedStep(gap, close, verdict, atRest)
            PROVE  Within
        BY <3>3, <3>4, <3>8, SolvedSends
      <3> QED
        BY <3>1, <3>5, <3>6, <3>7, <3>8 DEF Step
    <2> QED
      BY <1>1, <2>2, <2>3, <2>4, <2>5 DEF Next
  <1>2. IInv /\ [Next]_vars => [\/ cmd' >= cmd - Brake * Stage
                                \/ cmd' = 0 /\ cmd - Brake * Stage < DeadZone
                                \/ executes' = "zero"
                                \/ ResetCommand(cmd')]_vars
    BY <1>1
  <1> QED
    BY <1>2, Invariant, PTL DEF Spec, StopsWithinBrakingLimit

-----------------------------------------------------------------------------
(* The age of the nominal plan, where a cycle is shorter than a plan: a    *)
(* plan older than its horizon is read at its end, as the code clamps it.  *)

HalfCycles == Lower(Stage, Period)     \* two times half a cycle

(* The plan without its preparation is young enough to cover now; a kept   *)
(* preparation was made one period ahead from the plan solved this cycle,  *)
(* so its plan covers that time; a fallback follows a plan that covers now. *)
AgeInv ==
  /\ Restored.age <= PlanAgeCap /\ 2 * Restored.age >= -HalfCycles
  /\ status = "Ok" => Restored.age = 0
  /\ prepared.valid /\ mode = "Tracking" =>
       prepared.due = Period /\ -Period <= est.age /\ est.age < Stage - Period
  /\ status = "Fallback" /\ stepped =>
       ~prepared.valid /\ 2 * (est.age - Stage) < HalfCycles

LEMMA Times ==
  /\ Stage \in Nat /\ Stage > 0 /\ Period \in Nat /\ Period > 0 /\ Horizon \in Nat /\ Horizon > 0
  /\ HalfCycles \in Nat /\ HalfCycles > 0 /\ HalfCycles <= Stage /\ HalfCycles <= Period
  /\ PlanAgeCap \in Nat /\ PlanAgeCap >= Stage + Stage /\ PlanAgeCap = Horizon * Stage + Stage
  <1>1. /\ Stage \in Nat /\ Stage > 0 /\ Period \in Nat /\ Period > 0
        /\ Horizon \in Nat /\ Horizon > 0
    BY ControllerConstants
  <1>2. /\ HalfCycles \in Nat /\ HalfCycles > 0 /\ HalfCycles <= Stage /\ HalfCycles <= Period
    BY <1>1 DEF HalfCycles, Lower
  <1>3. Horizon * Stage \in Nat /\ PlanAgeCap = Horizon * Stage + Stage
    BY <1>1 DEF PlanAgeCap
  <1>4. Stage * 1 <= Stage * Horizon
    BY <1>1, Monotone
  <1> QED
    BY <1>1, <1>2, <1>3, <1>4

LEMMA AgedAge ==
  ASSUME NEW e \in Estimates, NEW gap \in Int
  PROVE  Aged(e, gap).age = Lower(e.age + gap, PlanAgeCap)
  BY DEF Aged, Estimates

(* Whole stages are taken off an age, as many as the plan has.             *)
LEMMA LinearizedAge ==
  ASSUME NEW e \in Estimates, e.age <= PlanAgeCap, 2 * e.age >= -HalfCycles
  PROVE  /\ Linearized(e).age \in Int
         /\ 2 * Linearized(e).age >= -HalfCycles /\ Linearized(e).age <= Stage
         /\ 0 <= e.age /\ e.age < PlanAgeCap =>
              0 <= Linearized(e).age /\ Linearized(e).age < Stage
  <1> DEFINE a == e.age
             q == e.age \div Stage
             shift == Upper(0, Lower(q, Horizon))
  <1>1. a \in Int /\ q \in Int
    BY Times DEF Estimates
  <1>2. q * Stage <= a /\ a < q * Stage + Stage /\ (a >= 0 => q >= 0) /\ (a < 0 => q < 0)
    BY <1>1, Times
  <1>3. Linearized(e).age = IF e.fresh THEN 0 ELSE a - shift * Stage
    BY DEF Linearized, Estimates
  <1> HIDE DEF a, q
  <1>4. CASE a < 0
    <2>1. shift = 0
      BY <1>1, <1>2, <1>4, Times DEF Lower, Upper
    <2>2. 2 * a >= -HalfCycles /\ a = e.age
      BY DEF a
    <2>3. shift * Stage = 0
      BY <2>1, Times
    <2> HIDE DEF shift
    <2> QED
      BY <1>1, <1>3, <1>4, <2>2, <2>3, Times
  <1>5. CASE a >= 0 /\ q <= Horizon
    <2>1. shift = q
      BY <1>1, <1>2, <1>5, Times DEF Lower, Upper
    <2>2. q * Stage \in Int
      BY <1>1, Times
    <2> HIDE DEF shift
    <2> QED
      BY <1>1, <1>2, <1>3, <1>5, <2>1, <2>2, Times
  <1>6. CASE a >= 0 /\ q > Horizon
    <2>1. shift = Horizon
      BY <1>1, <1>2, <1>6, Times DEF Lower, Upper
    <2>2. Horizon * Stage \in Int /\ q * Stage \in Int
      BY <1>1, Times
    <2>3. Stage * (Horizon + 1) <= Stage * q
      BY <1>1, <1>6, Times, Monotone
    <2>4. PlanAgeCap <= q * Stage
      BY <1>1, <2>3, Times
    <2>5. a <= PlanAgeCap /\ a = e.age
      BY DEF a
    <2> HIDE DEF shift
    <2> QED
      BY <1>1, <1>2, <1>3, <1>6, <2>1, <2>2, <2>4, <2>5, Times
  <1> QED
    BY <1>1, <1>4, <1>5, <1>6, Times

(* The plan of the next cycle covers its time.                             *)
LEMMA BuiltAge ==
  ASSUME TypeOK, AgeInv, mode = "Tracking", NEW gap \in Nat, NEW close \in BOOLEAN
  PROVE  /\ Built(gap, close).age \in Int /\ Built(gap, close).age <= PlanAgeCap
         /\ 2 * Built(gap, close).age >= -HalfCycles
         /\ 2 * (Built(gap, close).age - Stage) < HalfCycles
  <1>1. est \in Estimates /\ Restored \in Estimates /\ est.age \in Int /\ Restored.age \in Int
    BY RestoredTyped DEF Estimates
  <1>2. CASE UsePrepared(gap, close)
    <2>1. /\ prepared.valid /\ prepared.due = Period
          /\ 2 * Upper(Period - gap, gap - Period) <= HalfCycles
      BY <1>2 DEF UsePrepared, AgeInv, HalfCycles
    <2>2. Built(gap, close).age = Lower(est.age + gap, PlanAgeCap)
      BY <1>1, <1>2, AgedAge DEF Built
    <2>3. -Period <= est.age /\ est.age < Stage - Period
      BY <2>1 DEF AgeInv
    <2>4. 2 * (Period - gap) <= HalfCycles /\ 2 * (gap - Period) <= HalfCycles
      BY <2>1, Times DEF Upper
    <2>5. /\ 2 * (est.age + gap) >= -HalfCycles
          /\ 2 * (est.age + gap - Stage) < HalfCycles
      BY <1>1, <2>3, <2>4, Times
    <2> QED
      BY <1>1, <2>2, <2>5, Times DEF Lower
  <1>3. CASE ~UsePrepared(gap, close)
    <2> DEFINE r == Aged(Restored, gap)
    <2>1. Built(gap, close) = Linearized(r) /\ r \in Estimates
      BY <1>1, <1>3, AgedPlan DEF Built
    <2>2. r.age = Lower(Restored.age + gap, PlanAgeCap)
      BY <1>1, AgedAge
    <2>3. r.age <= PlanAgeCap /\ 2 * r.age >= -HalfCycles
      BY <1>1, <2>2, Times DEF AgeInv, Lower
    <2> HIDE DEF r
    <2>4. /\ Linearized(r).age \in Int
          /\ 2 * Linearized(r).age >= -HalfCycles /\ Linearized(r).age <= Stage
      BY <2>1, <2>3, LinearizedAge
    <2> QED
      BY <2>1, <2>4, Times
  <1> QED
    BY <1>2, <1>3

(* Where the estimate, the preparation and the status stay, so do the ages. *)
LEMMA PassedAge ==
  ASSUME TypeOK, AgeInv, NEW gap \in Nat, Passed(gap),
         mode' # "Tracking", status' \notin {"Ok", "Fallback"}
  PROVE  AgeInv'
  <1>1. /\ est \in Estimates /\ Restored \in Estimates /\ est.age \in Int
        /\ Restored.age \in Int
    BY RestoredTyped DEF Estimates
  <1>2. Restored' = Aged(Restored, gap)
    <2>1. CASE prepared.valid
      <3>1. prepared'.valid = prepared.valid /\ prepared'.before = Aged(prepared.before, gap)
        BY <2>1 DEF Passed, TypeOK, Preparations
      <3> QED
        BY <2>1, <3>1 DEF Restored
    <2>2. CASE ~prepared.valid
      BY <2>2 DEF Passed, Restored, Nothing
    <2> QED
      BY <2>1, <2>2
  <1>3. Restored'.age = Lower(Restored.age + gap, PlanAgeCap)
    BY <1>1, <1>2, AgedAge
  <1>4. Restored'.age <= PlanAgeCap /\ 2 * Restored'.age >= -HalfCycles
    BY <1>1, <1>3, Times DEF AgeInv, Lower
  <1> QED
    BY <1>4 DEF AgeInv

LEMMA PrepareAge ==
  ASSUME IInv, AgeInv, Prepare, Period < PlanAgeCap
  PROVE  AgeInv'
  <1> DEFINE r == Restored
             a == Aged(r, Period)
             l == Linearized(a)
             f == Aged(l, -Period)
  <1>1. r \in Estimates /\ r.age \in Int
    BY RestoredTyped DEF IInv, Estimates
  <1>2. CASE RtiSplit /\ started /\ mode = "Tracking" /\ status = "Ok" /\ ~externalHold
    <2>1. est' = f /\ prepared' = [valid |-> TRUE, due |-> Period, before |-> r]
      BY <1>2 DEF Prepare
    <2>2. r.age = 0
      BY <1>2 DEF AgeInv
    <2>3. a \in Estimates /\ a.age = Period
      BY <1>1, <2>2, AgedPlan, AgedAge, Times DEF Lower
    <2>4. l \in Estimates /\ 0 <= l.age /\ l.age < Stage /\ l.age \in Int
      <3>1. a.age <= PlanAgeCap /\ 2 * a.age >= -HalfCycles
        BY <2>3, Times
      <3>2. l \in Estimates
        BY <2>3, LinearizedPlan
      <3> QED
        BY <2>3, <3>1, <3>2, LinearizedAge, Times
    <2>5. f.age = Lower(l.age + (-Period), PlanAgeCap)
      BY <2>4, AgedAge, Times
    <2> HIDE DEF l, r, f
    <2>6. -Period <= f.age /\ f.age < Stage - Period
      BY <2>4, <2>5, Times DEF Lower
    <2>7. Restored' = r /\ prepared'.due = Period
      BY <2>1 DEF Restored
    <2>8. status' = status
      BY DEF Prepare
    <2> QED
      BY <1>2, <2>1, <2>2, <2>6, <2>7, <2>8, Times DEF AgeInv
  <1>3. CASE ~(RtiSplit /\ started /\ mode = "Tracking" /\ status = "Ok" /\ ~externalHold)
    <2>1. est' = Restored /\ prepared' = Nothing /\ Restored' = Restored
      BY <1>3 DEF Prepare, Restored, Nothing
    <2>2. status' = status /\ stepped' = stepped /\ mode' = mode
      BY DEF Prepare, history
    <2>3. ~prepared'.valid
      BY <2>1 DEF Nothing
    <2> QED
      BY <2>1, <2>2, <2>3 DEF AgeInv, Restored
  <1> QED
    BY <1>2, <1>3

LEMMA AgeKept ==
  ASSUME IInv, AgeInv, [Next]_vars, Period < PlanAgeCap
  PROVE  AgeInv'
  <1>0. TypeOK /\ Restored \in Estimates
    BY RestoredTyped DEF IInv
  <1>1. CASE Start
    <2> DEFINE e == [Restored EXCEPT !.fresh = TRUE, !.medium = FALSE]
    <2>1. e.age = Restored.age
      BY <1>0 DEF Estimates
    <2>2. Restored' = e /\ ~prepared'.valid
      BY <1>1, DiscardEffect DEF Start
    <2>3. status' = status /\ stepped' = FALSE
      BY <1>1 DEF Start
    <2> QED
      BY <2>1, <2>2, <2>3 DEF AgeInv
  <1>2. CASE UpdateGoal
    <2>1. Restored' = Restored /\ ~prepared'.valid
      BY <1>2, DiscardEffect DEF UpdateGoal
    <2>2. status' = status /\ stepped' = FALSE
      BY <1>2 DEF UpdateGoal
    <2> QED
      BY <2>1, <2>2 DEF AgeInv
  <1>3. ASSUME NEW m \in BOOLEAN, ReplaceRoute(m) PROVE AgeInv'
    <2> DEFINE e == [Restored EXCEPT !.medium = m]
    <2>1. e.age = Restored.age
      BY <1>0 DEF Estimates
    <2>2. Restored' = e /\ ~prepared'.valid
      BY <1>3, DiscardEffect DEF ReplaceRoute
    <2>3. status' = status /\ stepped' = FALSE
      BY <1>3 DEF ReplaceRoute
    <2> QED
      BY <2>1, <2>2, <2>3 DEF AgeInv
  <1>4. CASE (\E v \in 0..VMax : ResetCommand(v)) \/ (\E on \in BOOLEAN : SetExternalHold(on))
             \/ NoteFailure \/ UNCHANGED vars
    <2>1. UNCHANGED <<est, prepared, status>> /\ (stepped' => stepped)
          /\ (mode' = "Tracking" => mode = "Tracking")
      BY <1>4 DEF ResetCommand, SetExternalHold, NoteFailure, vars, codeVars, history
    <2> QED
      BY <2>1 DEF AgeInv, Restored
  <1>5. CASE Prepare
    BY <1>5, PrepareAge
  <1>6. CASE \E gap \in 0..MaxGap : Step(gap)
    <2>1. PICK gap \in 0..MaxGap : Step(gap)
      BY <1>6
    <2>2. gap \in Nat
      BY ControllerConstants
    <2>3. CASE StaleStep(gap) \/ LatchedStep(gap) \/ BrakingStep(gap) \/ GoalStep(gap)
      <3>1. Passed(gap) /\ mode' # "Tracking" /\ status' \notin {"Ok", "Fallback"}
        BY <2>3 DEF StaleStep, LatchedStep, BrakingStep, GoalStep, Braking, Finish
      <3> QED
        BY <1>0, <2>2, <3>1, PassedAge
    <2>4. ASSUME NEW close \in BOOLEAN, NEW atRest \in BOOLEAN, FailedStep(gap, close, atRest)
          PROVE  AgeInv'
      <3> DEFINE b == Built(gap, close)
      <3>1. mode = "Tracking" /\ est' = [b EXCEPT !.ahead = @ - 1] /\ prepared' = Nothing
        BY <2>4 DEF FailedStep
      <3>2. b \in Estimates
        BY <1>0, <2>2, BuiltPlan DEF IInv
      <3>3. est'.age = b.age
        BY <3>1, <3>2 DEF Estimates
      <3>4. ~prepared'.valid /\ Restored' = est'
        BY <3>1 DEF Nothing, Restored
      <3>5. /\ b.age \in Int /\ b.age <= PlanAgeCap /\ 2 * b.age >= -HalfCycles
            /\ 2 * (b.age - Stage) < HalfCycles
        BY <1>0, <2>2, <3>1, BuiltAge
      <3>6. status' # "Ok"
        BY <2>4 DEF FailedStep, Braking, Finish
      <3> HIDE DEF b
      <3> QED
        BY <3>3, <3>4, <3>5, <3>6 DEF AgeInv
    <2>5. ASSUME NEW close \in BOOLEAN, NEW atRest \in BOOLEAN,
                 NEW verdict \in Verdicts \ {"fail"}, SolvedStep(gap, close, verdict, atRest)
          PROVE  AgeInv'
      <3> DEFINE b == Built(gap, close)
      <3>1. prepared' = Nothing /\ est'.age = 0
        <4>1. b \in Estimates
          BY <1>0, <2>2, BuiltPlan DEF IInv
        <4>2. \E k \in {"held", "passed"} :
                est' = [b EXCEPT !.kind = k, !.age = 0, !.ahead = @ - 1]
          BY <2>5 DEF SolvedStep
        <4>3. prepared' = Nothing
          BY <2>5 DEF SolvedStep
        <4> HIDE DEF b
        <4> QED
          BY <4>1, <4>2, <4>3 DEF Estimates
      <3>2. ~prepared'.valid /\ Restored' = est'
        BY <3>1 DEF Nothing, Restored
      <3>3. status' # "Fallback"
        BY <2>5, SolvedSends
      <3> QED
        BY <3>1, <3>2, <3>3, Times DEF AgeInv
    <2> QED
      BY <2>1, <2>3, <2>4, <2>5 DEF Step
  <1> QED
    BY <1>1, <1>2, <1>3, <1>4, <1>5, <1>6 DEF Next

(* Where a cycle is shorter than a plan, a fallback cycle executes the     *)
(* stage of its plan that covers now (controller.cpp, step 640-680).       *)
THEOREM FallbackPlans == Period < PlanAgeCap => (Spec => []FallbackCoversNow)
  <1> SUFFICES ASSUME Period < PlanAgeCap PROVE Spec => []FallbackCoversNow
    OBVIOUS
  <1>1. Init => AgeInv
    <2> SUFFICES ASSUME Init PROVE AgeInv
      OBVIOUS
    <2>1. Restored = AtRest /\ ~prepared.valid /\ status = "None"
      BY DEF Init, Restored, Nothing
    <2> QED
      BY <2>1, Times DEF AgeInv, AtRest
  <1>2. IInv /\ AgeInv /\ [Next]_vars => AgeInv'
    BY AgeKept
  <1>3. IInv /\ AgeInv => FallbackCoversNow
    BY Times DEF AgeInv, FallbackCoversNow, Restored, HalfCycles
  <1> QED
    BY <1>1, <1>2, <1>3, Invariant, PTL DEF Spec

(* What a cycle commands is for now, resumes no plan early and brakes      *)
(* within the limit.                                                       *)
THEOREM SafeCommands == Period < PlanAgeCap => (Spec => CommandsSafe)
  <1> SUFFICES ASSUME Period < PlanAgeCap PROVE Spec => CommandsSafe
    OBVIOUS
  <1>1. Spec => []FallbackCoversNow
    BY FallbackPlans
  <1> QED
    BY <1>1, DwellBeforeResume, BrakingLimit, PTL DEF CommandsSafe

-----------------------------------------------------------------------------
(* The controller implements its contract: what of its state the contract  *)
(* sees, and the contract's step for each of its own.                      *)

Seen(hasRoute, m, holding, blocked, v, st) ==
  [started |-> hasRoute, mode |-> m, holding |-> holding, blocked |-> blocked, cmd |-> v,
   status |-> st]

Ctl == Seen(started, mode, wasHolding, externalHold, cmd, status)

(* The contract's answers, field by field.                                 *)
LEMMA Answered ==
  ASSUME NEW st, NEW v, NEW h
  PROVE  [Ctl EXCEPT !.status = st, !.cmd = v, !.holding = h]
           = Seen(started, mode, h, externalHold, v, st)
  <1> DEFINE c1 == [Ctl EXCEPT !.status = st]
             c2 == [c1 EXCEPT !.cmd = v]
             c3 == [c2 EXCEPT !.holding = h]
  <1>0. [Ctl EXCEPT !.status = st, !.cmd = v, !.holding = h] = c3
    OBVIOUS
  <1>1. c1 = Seen(started, mode, wasHolding, externalHold, cmd, st)
    BY DEF Ctl, Seen
  <1> HIDE DEF c1
  <1>2. c2 = Seen(started, mode, wasHolding, externalHold, v, st)
    BY <1>1 DEF Seen
  <1> HIDE DEF c2
  <1>3. c3 = Seen(started, mode, h, externalHold, v, st)
    BY <1>2 DEF Seen
  <1> HIDE DEF c3
  <1> QED
    BY <1>0, <1>3

LEMMA AnsweredMode ==
  ASSUME NEW m, NEW st, NEW v, NEW h
  PROVE  [Ctl EXCEPT !.mode = m, !.status = st, !.cmd = v, !.holding = h]
           = Seen(started, m, h, externalHold, v, st)
  <1> DEFINE c0 == [Ctl EXCEPT !.mode = m]
             c1 == [c0 EXCEPT !.status = st]
             c2 == [c1 EXCEPT !.cmd = v]
             c3 == [c2 EXCEPT !.holding = h]
  <1>a. [Ctl EXCEPT !.mode = m, !.status = st, !.cmd = v, !.holding = h] = c3
    OBVIOUS
  <1>0. c0 = Seen(started, m, wasHolding, externalHold, cmd, status)
    BY DEF Ctl, Seen
  <1> HIDE DEF c0
  <1>1. c1 = Seen(started, m, wasHolding, externalHold, cmd, st)
    BY <1>0 DEF Seen
  <1> HIDE DEF c1
  <1>2. c2 = Seen(started, m, wasHolding, externalHold, v, st)
    BY <1>1 DEF Seen
  <1> HIDE DEF c2
  <1>3. c3 = Seen(started, m, h, externalHold, v, st)
    BY <1>2 DEF Seen
  <1> HIDE DEF c3
  <1> QED
    BY <1>a, <1>3

LEMMA Fields ==
  /\ Ctl.started = started /\ Ctl.mode = mode /\ Ctl.holding = wasHolding
  /\ Ctl.blocked = externalHold /\ Ctl.cmd = cmd /\ Ctl.status = status
  BY DEF Ctl, Seen

(* Braking is the contract's, strict while the clock moves.                *)
LEMMA SlowedBase ==
  ASSUME TypeOK, NEW gap \in Nat, NEW v, v = BrakeBase(cmd, Elapsed(gap))
  PROVE  v \in Contract!Slowed(Ctl, gap > 0)
  <1> DEFINE s == Brake * Stage
  <1>1. /\ v \in 0..cmd
        /\ v >= cmd - s \/ (v = 0 /\ cmd - s < DeadZone)
        /\ gap > 0 => v = 0 \/ v < cmd
    BY BrakeBaseLimits
  <1>2. s \in Nat /\ cmd \in Nat /\ DeadZone \in Nat
    BY StageBounds, ControllerConstants DEF TypeOK
  <1> HIDE DEF s
  <1>3. v >= cmd - (s + DeadZone)
    BY <1>1, <1>2
  <1> QED
    BY <1>1, <1>3, Fields DEF Contract!Slowed, s

LEMMA BrakesContract ==
  ASSUME TypeOK, TypeOK', NEW gap \in Nat, NEW st \in {"StaleState", "Braking"}, Braking(st, gap)
  PROVE  Ctl' \in Contract!Brakes(Ctl, st, gap > 0)
  <1> DEFINE v == BrakeBase(cmd, Elapsed(gap))
             m == IF v = 0 THEN "Failed" ELSE "Braking"
             sent == IF v = 0 THEN "Failed" ELSE st
  <1>1. v \in Contract!Slowed(Ctl, gap > 0)
    BY SlowedBase
  <1>2. mode' = m /\ Finish(sent, "braking", v) /\ sent \notin {"Holding", "Blocked"}
    BY DEF Braking
  <1>3. /\ status' = sent /\ cmd' = v /\ ~wasHolding'
        /\ started' = started /\ externalHold' = externalHold
    BY <1>2, FinishEffect
  <1>4. wasHolding' = FALSE
    BY <1>3 DEF TypeOK
  <1>5. Ctl' = Seen(started, m, FALSE, externalHold, v, sent)
    BY <1>2, <1>3, <1>4 DEF Ctl
  <1> HIDE DEF m, v, sent
  <1>6. Ctl' = [Ctl EXCEPT !.mode = m, !.status = sent, !.cmd = v, !.holding = FALSE]
    BY <1>5, AnsweredMode
  <1> QED
    BY <1>1, <1>6 DEF Contract!Brakes, m, sent

LEMMA HoldsContract ==
  ASSUME TypeOK, NEW gap \in Nat, wasHolding' = TRUE,
         status' = IF externalHold THEN "Blocked" ELSE "Holding", mode' = mode,
         started' = started, externalHold' = externalHold,
         cmd' = BrakeBase(cmd, Elapsed(gap))
  PROVE  Ctl' \in Contract!Holds(Ctl, gap > 0)
  <1> DEFINE v == BrakeBase(cmd, Elapsed(gap))
  <1>1. v \in Contract!Slowed(Ctl, gap > 0)
    BY SlowedBase
  <1> DEFINE st == IF Ctl.blocked THEN "Blocked" ELSE "Holding"
  <1>2. Ctl' = Seen(started, mode, TRUE, externalHold, v, st)
    BY Fields DEF Ctl
  <1> HIDE DEF v, st
  <1>3. Ctl' = [Ctl EXCEPT !.status = st, !.cmd = v, !.holding = TRUE]
    BY <1>2, Answered
  <1> QED
    BY <1>1, <1>3 DEF Contract!Holds, st

LEMMA ExecutesContract ==
  ASSUME TypeOK, TypeOK', NEW st \in {"Ok", "Fallback"}, ~externalHold,
         st = "Fallback" => ~wasHolding, ~wasHolding', status' = st,
         mode' = mode, started' = started, externalHold' = externalHold
  PROVE  Ctl' \in Contract!Executes(Ctl)
  <1>1. wasHolding' = FALSE /\ cmd' \in 0..VMax
    BY DEF TypeOK
  <1> DEFINE sts == IF Ctl.blocked THEN {} ELSE IF Ctl.holding THEN {"Ok"} ELSE {"Ok", "Fallback"}
             out(s, v) == [Ctl EXCEPT !.status = s, !.cmd = v, !.holding = FALSE]
  <1>2. Ctl' = out(st, cmd')
    <2>1. Ctl' = Seen(started, mode, FALSE, externalHold, cmd', st)
      BY <1>1 DEF Ctl
    <2> QED
      BY <2>1, Answered
  <1>3. st \in sts
    BY Fields
  <1>4. Contract!Executes(Ctl) = {out(s, v) : s \in sts, v \in 0..VMax}
    BY DEF Contract!Executes
  <1> HIDE DEF sts, out
  <1> QED
    BY <1>1, <1>2, <1>3, <1>4

(* Every step answers as the contract's, with its clock: a fresh state     *)
(* unless it says StaleState, and braking strict once time has passed.     *)
LEMMA StepContract ==
  ASSUME IInv, IInv', NEW gap \in Nat, Step(gap)
  PROVE  started /\ \E fresh \in BOOLEAN : Ctl' \in Contract!Stepped(Ctl, fresh, gap > 0)
  <1>0. TypeOK /\ TypeOK' /\ Ctl.mode = mode
    BY Fields DEF IInv
  <1>1. CASE StaleStep(gap)
    <2>1. started /\ mode \in {"Tracking", "Braking"} /\ Braking("StaleState", gap)
      BY <1>1 DEF StaleStep
    <2>2. Ctl' \in Contract!Brakes(Ctl, "StaleState", gap > 0)
      BY <1>0, <2>1, BrakesContract
    <2>3. Ctl' \in Contract!Stepped(Ctl, FALSE, gap > 0)
      BY <1>0, <2>1, <2>2 DEF Contract!Stepped
    <2> QED
      BY <2>1, <2>3
  <1>2. CASE LatchedStep(gap)
    <2>1. started /\ mode \in {"Failed", "GoalReached"} /\ Finish(mode, "zero", 0) /\ mode' = mode
      BY <1>2 DEF LatchedStep
    <2>2. /\ status' = mode /\ cmd' = 0 /\ ~wasHolding'
          /\ started' = started /\ externalHold' = externalHold
      BY <2>1, FinishEffect
    <2>3. wasHolding' = FALSE
      BY <1>0, <2>2 DEF TypeOK
    <2>4. Ctl' = Seen(started, mode, FALSE, externalHold, 0, mode)
      BY <2>1, <2>2, <2>3 DEF Ctl
    <2>a. Ctl' = [Ctl EXCEPT !.status = Ctl.mode, !.cmd = 0, !.holding = FALSE]
      BY <1>0, <2>4, Answered
    <2>5. Ctl' \in Contract!Stepped(Ctl, TRUE, gap > 0)
      BY <1>0, <2>1, <2>a DEF Contract!Stepped, Contract!Latched
    <2> QED
      BY <2>1, <2>5
  <1>3. CASE BrakingStep(gap)
    <2>1. started /\ mode = "Braking" /\ Braking("Braking", gap)
      BY <1>3 DEF BrakingStep
    <2>2. Ctl' \in Contract!Brakes(Ctl, "Braking", gap > 0)
      BY <1>0, <2>1, BrakesContract
    <2>3. Ctl' \in Contract!Stepped(Ctl, TRUE, gap > 0)
      BY <1>0, <2>1, <2>2 DEF Contract!Stepped
    <2> QED
      BY <2>1, <2>3
  <1>4. CASE GoalStep(gap)
    <2>1. started /\ mode = "Tracking" /\ mode' = "GoalReached" /\ Finish("GoalReached", "zero", 0)
      BY <1>4 DEF GoalStep
    <2>2. /\ status' = "GoalReached" /\ cmd' = 0 /\ ~wasHolding'
          /\ started' = started /\ externalHold' = externalHold
      BY <2>1 DEF Finish
    <2>3. wasHolding' = FALSE
      BY <1>0, <2>2 DEF TypeOK
    <2>4. Ctl' = Seen(started, "GoalReached", FALSE, externalHold, 0, "GoalReached")
      BY <2>1, <2>2, <2>3 DEF Ctl
    <2>a. Ctl' = [Ctl EXCEPT !.mode = "GoalReached", !.status = "GoalReached", !.cmd = 0,
                             !.holding = FALSE]
      BY <2>4, AnsweredMode
    <2>5. Ctl' \in Contract!Stepped(Ctl, TRUE, gap > 0)
      BY <1>0, <2>1, <2>a DEF Contract!Stepped, Contract!Reached
    <2> QED
      BY <2>1, <2>5
  <1>5. ASSUME mode = "Tracking",
               \/ Ctl' \in Contract!Brakes(Ctl, "Braking", gap > 0)
               \/ Ctl' \in Contract!Holds(Ctl, gap > 0)
               \/ Ctl' \in Contract!Executes(Ctl)
        PROVE  Ctl' \in Contract!Stepped(Ctl, TRUE, gap > 0)
    BY <1>0, <1>5 DEF Contract!Stepped
  <1>6. ASSUME NEW close \in BOOLEAN, NEW atRest \in BOOLEAN, FailedStep(gap, close, atRest)
        PROVE  started /\ Ctl' \in Contract!Stepped(Ctl, TRUE, gap > 0)
    <2>1. started /\ mode = "Tracking"
      BY <1>6 DEF FailedStep
    <2>2. started' = started /\ externalHold' = externalHold
      BY <1>6 DEF FailedStep, Braking, Finish
    <2>3. CASE /\ ~KeepsHolding /\ ~wasHolding' /\ status' = "Fallback" /\ mode' = "Tracking"
      <3>1. ~wasHolding /\ ~externalHold
        BY <2>3 DEF KeepsHolding
      <3>2. Ctl' \in Contract!Executes(Ctl)
        BY <1>0, <2>1, <2>2, <2>3, <3>1, ExecutesContract
      <3> QED
        BY <1>5, <2>1, <3>2
    <2>4. CASE /\ wasHolding' = TRUE /\ mode' = "Tracking"
               /\ status' = IF externalHold THEN "Blocked" ELSE "Holding"
               /\ cmd' = BrakeBase(cmd, Elapsed(gap))
      <3>1. Ctl' \in Contract!Holds(Ctl, gap > 0)
        BY <1>0, <2>1, <2>2, <2>4, HoldsContract
      <3> QED
        BY <1>5, <2>1, <3>1
    <2>5. CASE Braking("Braking", gap)
      <3>1. Ctl' \in Contract!Brakes(Ctl, "Braking", gap > 0)
        BY <1>0, <2>5, BrakesContract
      <3> QED
        BY <1>5, <2>1, <3>1
    <2> QED
      BY <1>6, <2>3, <2>4, <2>5, FailedSends
  <1>7. ASSUME NEW close \in BOOLEAN, NEW atRest \in BOOLEAN,
               NEW verdict \in Verdicts \ {"fail"}, SolvedStep(gap, close, verdict, atRest)
        PROVE  started /\ Ctl' \in Contract!Stepped(Ctl, TRUE, gap > 0)
    <2>1. started /\ mode = "Tracking"
      BY <1>7 DEF SolvedStep
    <2>2. started' = started /\ externalHold' = externalHold
      BY <1>7 DEF SolvedStep, Finish
    <2>3. CASE /\ ~wasHolding' /\ status' = "Ok" /\ mode' = "Tracking" /\ ~externalHold
      <3>1. Ctl' \in Contract!Executes(Ctl)
        BY <1>0, <2>1, <2>2, <2>3, ExecutesContract
      <3> QED
        BY <1>5, <2>1, <3>1
    <2>4. CASE /\ wasHolding' = TRUE /\ mode' = "Tracking"
               /\ status' = IF externalHold THEN "Blocked" ELSE "Holding"
               /\ cmd' = BrakeBase(cmd, Elapsed(gap))
      <3>1. Ctl' \in Contract!Holds(Ctl, gap > 0)
        BY <1>0, <2>1, <2>2, <2>4, HoldsContract
      <3> QED
        BY <1>5, <2>1, <3>1
    <2> QED
      BY <1>7, <2>3, <2>4, SolvedSends
  <1> QED
    BY <1>1, <1>2, <1>3, <1>4, <1>6, <1>7 DEF Step

LEMMA RestartAnswered ==
  ASSUME NEW a, NEW m, NEW h
  PROVE  [Ctl EXCEPT !.started = a, !.mode = m, !.holding = h]
           = Seen(a, m, h, externalHold, cmd, status)
  <1> DEFINE c1 == [Ctl EXCEPT !.started = a]
             c2 == [c1 EXCEPT !.mode = m]
             c3 == [c2 EXCEPT !.holding = h]
  <1>0. [Ctl EXCEPT !.started = a, !.mode = m, !.holding = h] = c3
    OBVIOUS
  <1>1. c1 = Seen(a, mode, wasHolding, externalHold, cmd, status)
    BY DEF Ctl, Seen
  <1> HIDE DEF c1
  <1>2. c2 = Seen(a, m, wasHolding, externalHold, cmd, status)
    BY <1>1 DEF Seen
  <1> HIDE DEF c2
  <1>3. c3 = Seen(a, m, h, externalHold, cmd, status)
    BY <1>2 DEF Seen
  <1> HIDE DEF c3
  <1> QED
    BY <1>0, <1>3

LEMMA ContractStep ==
  ASSUME IInv, IInv', [Next]_vars
  PROVE  \/ Ctl' = Contract!Started(Ctl)
         \/ \E v \in 0..VMax : Ctl' = [Ctl EXCEPT !.cmd = v]
         \/ \E on \in BOOLEAN : Ctl' = [Ctl EXCEPT !.blocked = on]
         \/ Ctl' \in Contract!Late(Ctl)
         \/ started /\ \E fresh, moves \in BOOLEAN : Ctl' \in Contract!Stepped(Ctl, fresh, moves)
         \/ Ctl' = Ctl
  <1>1. CASE Start
    <2>1. Ctl' = Seen(TRUE, "Tracking", FALSE, externalHold, cmd, status)
      BY <1>1 DEF Start, Ctl
    <2>2. Ctl' = [Ctl EXCEPT !.started = TRUE, !.mode = "Tracking", !.holding = FALSE]
      BY <2>1, RestartAnswered
    <2> QED
      BY <2>2 DEF Contract!Started
  <1>2. CASE UpdateGoal \/ (\E m \in BOOLEAN : ReplaceRoute(m)) \/ Prepare \/ UNCHANGED vars
    <2>1. UNCHANGED <<started, mode, wasHolding, externalHold, cmd, status>>
      BY <1>2 DEF UpdateGoal, ReplaceRoute, Prepare, vars, codeVars
    <2> QED
      BY <2>1 DEF Ctl
  <1>3. ASSUME NEW v \in 0..VMax, ResetCommand(v)
        PROVE  Ctl' = [Ctl EXCEPT !.cmd = v]
    BY <1>3 DEF ResetCommand, Ctl, Seen
  <1>4. ASSUME NEW on \in BOOLEAN, SetExternalHold(on)
        PROVE  Ctl' = [Ctl EXCEPT !.blocked = on]
    BY <1>4 DEF SetExternalHold, Ctl, Seen
  <1>5. CASE NoteFailure
    <2>1. mode = "Tracking" /\ mode' \in {mode, "Braking"}
          /\ UNCHANGED <<started, wasHolding, externalHold, cmd, status>>
      BY <1>5 DEF NoteFailure
    <2>2. Ctl' \in {Ctl, [Ctl EXCEPT !.mode = "Braking"]} /\ Ctl.mode = "Tracking"
      BY <2>1 DEF Ctl, Seen
    <2> QED
      BY <2>2 DEF Contract!Late
  <1>6. CASE \E gap \in 0..MaxGap : Step(gap)
    <2>1. PICK gap \in 0..MaxGap : Step(gap)
      BY <1>6
    <2>2. gap \in Nat
      BY ControllerConstants
    <2>3. started /\ \E fresh \in BOOLEAN : Ctl' \in Contract!Stepped(Ctl, fresh, gap > 0)
      BY <2>1, <2>2, StepContract
    <2>4. (gap > 0) \in BOOLEAN
      OBVIOUS
    <2> QED
      BY <2>3, <2>4
  <1> QED
    BY <1>1, <1>2, <1>3, <1>4, <1>5, <1>6 DEF Next

(* Called in any order, the controller answers as its contract allows: the *)
(* node's model, which knows only the contract, rests on this.             *)
THEOREM ContractKept == Spec => KeepsContract
  <1>1. Init => Contract!Init
    BY DEF Init, Contract!Init, Contract!Created, Seen
  <1>2. IInv /\ IInv' /\ [Next]_vars => [Contract!Next]_Ctl
    <2> SUFFICES ASSUME IInv, IInv', [Next]_vars, Ctl' # Ctl PROVE Contract!Next
      OBVIOUS
    <2> QED
      BY ContractStep, Fields DEF Contract!Next, Ctl, Seen
  <1> QED
    BY <1>1, <1>2, Invariant, PTL DEF Spec, KeepsContract, Contract!Spec, Ctl, Seen
=============================================================================

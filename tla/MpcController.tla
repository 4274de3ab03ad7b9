---------------------------- MODULE MpcController ----------------------------
(***************************************************************************)
(* The cycle of the whole-body MPC controller                              *)
(* (mobile_manipulator_mpc/src/controller.cpp, class Controller): which    *)
(* plan a cycle executes, when it holds, brakes, fails or reports the goal *)
(* reached, and the preparation of the next cycle (rti_split).             *)
(*                                                                         *)
(* Kept: every branch of start, update_goal, replace_route, set_medium,    *)
(* reset_command, note_failure, set_external_hold, prepare and step.       *)
(* Abstracted: the QP is its verdict ("fail", "unsafe": the slack gate     *)
(* rejects the plan, "pass"); a plan is what is known of it ("rest",       *)
(* "held", "passed"); the base command is one non-negative speed (v and    *)
(* omega follow the same rules, sign by sign); joint velocities, routes    *)
(* and collision rows are left out.  Time is counted in ticks.             *)
(***************************************************************************)
EXTENDS Integers, FiniteSets

CONSTANTS
  FallbackCycles,   \* failures in a row that are ridden out
  GateEnabled,      \* the slack gate is on
  RtiSplit,         \* the preparation/feedback split is on
  ResumeDwell,      \* ticks of passing plans before a hold ends
  Period,           \* ticks of a cycle
  Stage,            \* ticks of one stage of the plan (dt)
  Horizon,          \* stages of the plan
  MaxGap,           \* bound: ticks between two steps
  VMax, Accel, Brake, DeadZone, Breakaway  \* the base's speed, per tick

ASSUME ControllerConstants ==
  /\ FallbackCycles \in Nat
  /\ GateEnabled \in BOOLEAN
  /\ RtiSplit \in BOOLEAN
  /\ ResumeDwell \in Nat
  /\ Period \in Nat \ {0} /\ Stage \in Nat \ {0} /\ Horizon \in Nat \ {0}
  /\ MaxGap \in Nat \ {0}
  /\ VMax \in Nat /\ Accel \in Nat /\ Brake \in Nat \ {0}
  /\ DeadZone \in Nat /\ Breakaway \in 1..VMax

Modes    == {"Tracking", "Braking", "Failed", "GoalReached"}
Statuses == {"None", "Ok", "Fallback", "Braking", "Failed", "GoalReached",
             "StaleState", "Holding", "Blocked"}
Verdicts == {"pass", "unsafe", "fail"}
Kinds    == {"rest", "held", "passed"}
NoTime   == -1        \* a time that is NaN in the code

(* Bound: a plan older than this is only known to be older.                *)
PlanAgeCap == (Horizon + 1) * Stage

(* What linearize() advances and a Snapshot keeps: the nominal plan (its   *)
(* kind and the time since its stage 0), fresh_plan_, the medium reference *)
(* of the inputs and the number of updates of the tightness filter and the *)
(* side picker that no cycle has used yet.                                 *)
Estimates ==
  [kind : Kinds, age : Int, fresh : BOOLEAN, medium : BOOLEAN, ahead : Int]

AtRest == [kind |-> "rest", age |-> 0, fresh |-> TRUE, medium |-> FALSE, ahead |-> 0]

(* prepared_: the ticks left to its cycle (t_next) and the snapshot before *)
(* it; without a preparation only `valid` means anything.                  *)
Preparations == [valid : BOOLEAN, due : Int, before : Estimates]
Nothing == [valid |-> FALSE, due |-> 0, before |-> AtRest]

VARIABLES
  started,         \* route_ is set
  mode, failures, failuresAtStep, wasHolding, resumeAge, externalHold,
  est, prepared,
  cmd,             \* last_command_
  status,          \* out_.status ("None" before the first step)
  executes,        \* what the last output follows: "none", "plan", "braking", "zero"
  (* History, for the properties only. *)
  stepped,         \* the last call was a step that tracked
  recent,          \* recent[i]: the i-th latest tracking cycle failed or was late
  stale,           \* the goal's braking began with a stale state
  sinceUnsafe,     \* ticks since a cycle whose plan failed, did not pass or began a hold
  mediumSet        \* the medium reference the caller set last

codeVars == <<started, mode, failures, failuresAtStep, wasHolding, resumeAge,
              externalHold, est, prepared, cmd, status, executes>>
history  == <<stepped, recent, stale, sinceUnsafe, mediumSet>>
vars == <<codeVars, history>>

Window == 1..(FallbackCycles + 1)
SinceCap == ResumeDwell     \* bound of the history variable sinceUnsafe

Init ==
  /\ started = FALSE
  /\ mode = "Tracking"
  /\ failures = 0 /\ failuresAtStep = 0
  /\ wasHolding = FALSE
  /\ resumeAge = NoTime
  /\ externalHold = FALSE
  /\ est = AtRest
  /\ prepared = Nothing
  /\ cmd = 0
  /\ status = "None" /\ executes = "none"
  /\ stepped = FALSE
  /\ recent = [i \in Window |-> FALSE]
  /\ stale = FALSE
  /\ sinceUnsafe = 0
  /\ mediumSet = FALSE

-----------------------------------------------------------------------------
(* Helpers.                                                                *)

Lower(a, b) == IF a <= b THEN a ELSE b
Upper(a, b) == IF a >= b THEN a ELSE b

(* Time passing for a nominal plan.                                        *)
Aged(e, gap) == [e EXCEPT !.age = Lower(@ + gap, PlanAgeCap)]

(* Mutants: braking passes zero; braking stops at once.                    *)
BrakesPastZero(v, elapsed) == v - Brake * elapsed
BrakesAtOnce(v, elapsed) == 0

(* towards_zero / brake_base: one braking step, the dead zone zeroed.      *)
BrakeBase(v, elapsed) ==
  LET next == Upper(0, v - Brake * elapsed)
  IN  IF next < DeadZone THEN 0 ELSE next

(* breakaway_output: the dead zone zeroed, at rest lifted to the breakaway. *)
BreakawayOutput(v, atRest) ==
  IF v < DeadZone THEN 0
  ELSE IF atRest /\ v > 0 /\ v < Breakaway THEN Breakaway
  ELSE v

(* Mutant: the plan is read from where the last cycle left it.             *)
LinearizedUnshifted(e) ==
  IF e.fresh
    THEN [e EXCEPT !.kind = "rest", !.age = 0, !.fresh = FALSE, !.ahead = @ + 1]
    ELSE [e EXCEPT !.ahead = @ + 1]

(* linearize(): the nominal restarts at rest or advances by whole stages,  *)
(* and the filters are updated once.                                       *)
Linearized(e) ==
  LET shift == Upper(0, Lower(e.age \div Stage, Horizon))
  IN  IF e.fresh
        THEN [e EXCEPT !.kind = "rest", !.age = 0, !.fresh = FALSE, !.ahead = @ + 1]
        ELSE [e EXCEPT !.age = @ - shift * Stage, !.ahead = @ + 1]

(* Mutant: an unused preparation is dropped but not undone.                *)
RestoredToPrepared == est

(* discard_preparation(): an unused preparation is undone.                 *)
Restored == IF prepared.valid THEN prepared.before ELSE est

DiscardPreparation(e) == est' = e /\ prepared' = Nothing

(* since_last limited to a stage; one stage before the first step.         *)
Elapsed(gap) == IF status = "None" THEN Stage ELSE Lower(gap, Stage)

Shift(bad) == [i \in Window |-> IF i = 1 THEN bad ELSE recent[i - 1]]

-----------------------------------------------------------------------------
(* The caller's operations.                                                *)

(* start: a new goal.                                                      *)
Start ==
  /\ started' = TRUE
  /\ DiscardPreparation([Restored EXCEPT !.fresh = TRUE, !.medium = FALSE])
  /\ mode' = "Tracking"
  /\ failures' = 0
  /\ wasHolding' = FALSE
  /\ resumeAge' = NoTime
  /\ stepped' = FALSE
  /\ recent' = [i \in Window |-> FALSE]
  /\ stale' = FALSE
  /\ mediumSet' = FALSE
  /\ UNCHANGED <<failuresAtStep, externalHold, cmd, status, executes, sinceUnsafe>>

(* update_goal: the active goal's route, pose and references change.       *)
UpdateGoal ==
  /\ started
  /\ DiscardPreparation(Restored)
  /\ stepped' = FALSE
  /\ UNCHANGED <<started, mode, failures, failuresAtStep, wasHolding, resumeAge,
                 externalHold, cmd, status, executes, recent, stale, sinceUnsafe, mediumSet>>

(* Mutant: the medium is set before the route is replaced.                 *)
MediumBeforeRoute(m) ==
  /\ started
  /\ DiscardPreparation(IF prepared.valid THEN prepared.before
                        ELSE [est EXCEPT !.medium = m])
  /\ mediumSet' = m
  /\ stepped' = FALSE
  /\ UNCHANGED <<started, mode, failures, failuresAtStep, wasHolding, resumeAge,
                 externalHold, cmd, status, executes, recent, stale, sinceUnsafe>>

(* replace_route, then set_medium, as MediumSwitch calls them.             *)
ReplaceRoute(m) ==
  /\ started
  /\ DiscardPreparation([Restored EXCEPT !.medium = m])
  /\ mediumSet' = m
  /\ stepped' = FALSE
  /\ UNCHANGED <<started, mode, failures, failuresAtStep, wasHolding, resumeAge,
                 externalHold, cmd, status, executes, recent, stale, sinceUnsafe>>

(* reset_command: the caller's account of the base command.                *)
ResetCommand(v) ==
  /\ cmd' = v
  /\ stepped' = FALSE
  /\ UNCHANGED <<started, mode, failures, failuresAtStep, wasHolding, resumeAge,
                 externalHold, est, prepared, status, executes, recent, stale,
                 sinceUnsafe, mediumSet>>

(* set_external_hold: blocked by the collision monitor, or no longer.      *)
SetExternalHold(on) ==
  /\ externalHold' = on
  /\ stepped' = FALSE
  /\ UNCHANGED <<started, mode, failures, failuresAtStep, wasHolding, resumeAge,
                 est, prepared, cmd, status, executes, recent, stale, sinceUnsafe, mediumSet>>

(* Mutant: a late cycle whose solve failed counts twice.                   *)
LateCountedTwice == failures + 1

(* failures_ after a late cycle: the failures at its step and itself.      *)
LateCounted == Upper(failures, failuresAtStep + 1)

(* note_failure: the last step overran its cycle.  Called right after it.  *)
NoteFailure ==
  /\ stepped
  /\ mode = "Tracking"
  /\ failures' = LateCounted
  /\ mode' = IF LateCounted > FallbackCycles THEN "Braking" ELSE mode
  /\ recent' = [recent EXCEPT ![1] = TRUE]
  /\ UNCHANGED <<started, failuresAtStep, wasHolding, resumeAge, externalHold, est,
                 prepared, cmd, status, executes, stepped, stale, sinceUnsafe, mediumSet>>

(* prepare: the next cycle's linearization at t_next, kept undoable.       *)
Prepare ==
  LET e == Restored
      ready == /\ RtiSplit /\ started /\ mode = "Tracking" /\ status = "Ok"
               /\ ~externalHold
  IN  /\ est' = IF ready
                  THEN Aged(Linearized(Aged(e, Period)), -Period)
                  ELSE e
      /\ prepared' = IF ready THEN [valid |-> TRUE, due |-> Period, before |-> e]
                   ELSE Nothing
      /\ UNCHANGED <<started, mode, failures, failuresAtStep, wasHolding, resumeAge,
                     externalHold, cmd, status, executes, history>>

-----------------------------------------------------------------------------
(* step: one cycle, gap ticks after the last one.                          *)

(* Time passes for the plan and for a kept preparation.                    *)
Passed(gap) ==
  /\ est' = Aged(est, gap)
  /\ prepared' = IF prepared.valid
                   THEN [prepared EXCEPT !.due = Upper(@ - gap, -MaxGap),
                                         !.before = Aged(@, gap)]
                   ELSE Nothing

(* The end of every step: what was sent, and whether it held.              *)
Finish(st, how, v) ==
  /\ status' = st
  /\ executes' = how
  /\ cmd' = v
  /\ wasHolding' = (st \in {"Holding", "Blocked"})
  /\ failuresAtStep' = failures
  /\ UNCHANGED <<started, externalHold, mediumSet>>

(* The lambda `braking`: brake, and fail once the command is zero.         *)
Braking(st, gap) ==
  LET v == BrakeBase(cmd, Elapsed(gap))
  IN  /\ mode' = IF v = 0 THEN "Failed" ELSE "Braking"
      /\ Finish(IF v = 0 THEN "Failed" ELSE st, "braking", v)

(* A stale state brakes a goal that tracks or brakes.                      *)
StaleStep(gap) ==
  /\ started
  /\ mode \in {"Tracking", "Braking"}
  /\ Braking("StaleState", gap)
  /\ Passed(gap)
  /\ stepped' = FALSE
  /\ stale' = TRUE
  /\ UNCHANGED <<failures, resumeAge, recent, sinceUnsafe>>

(* A failed or finished goal stays so: zero command.                       *)
LatchedStep(gap) ==
  /\ started
  /\ mode \in {"Failed", "GoalReached"}
  /\ Finish(mode, "zero", 0)
  /\ Passed(gap)
  /\ stepped' = FALSE
  /\ UNCHANGED <<mode, failures, resumeAge, recent, stale, sinceUnsafe>>

BrakingStep(gap) ==
  /\ started
  /\ mode = "Braking"
  /\ Braking("Braking", gap)
  /\ Passed(gap)
  /\ stepped' = FALSE
  /\ UNCHANGED <<failures, resumeAge, recent, stale, sinceUnsafe>>

(* The measured state is within the goal tolerance.                        *)
GoalStep(gap) ==
  /\ started
  /\ mode = "Tracking"
  /\ mode' = "GoalReached"
  /\ Finish("GoalReached", "zero", 0)
  /\ Passed(gap)
  /\ stepped' = FALSE
  /\ UNCHANGED <<failures, resumeAge, recent, stale, sinceUnsafe>>

(* The preparation is used when this cycle is the one it was made for      *)
(* (within half a cycle) and the measured state is close to the predicted. *)
UsePrepared(gap, close) ==
  /\ prepared.valid
  /\ close
  /\ 2 * Upper(prepared.due - gap, gap - prepared.due) <= Lower(Stage, Period)

(* The linearization a tracking cycle solves.                              *)
Built(gap, close) ==
  IF UsePrepared(gap, close) THEN Aged(est, gap) ELSE Linearized(Aged(Restored, gap))

(* The command of an executed plan: any speed within the rate band and the *)
(* box, through the output stage.                                          *)
PlanCommands(gap, atRest) ==
  LET e == Elapsed(gap)
  IN  {BreakawayOutput(u, atRest) :
         u \in Upper(0, cmd - Brake * e)..Lower(VMax, cmd + Accel * e)}

(* Mutant: the dwell's start is kept when no hold is on.                   *)
DwellKept(gap, pass) ==
  IF ~GateEnabled THEN resumeAge
  ELSE IF ~pass THEN NoTime
  ELSE IF resumeAge = NoTime THEN 0
  ELSE Lower(resumeAge + gap, ResumeDwell)

(* resume_since_: how long the plans of a hold have passed the gate.       *)
Dwelt(gap, pass) ==
  IF ~GateEnabled THEN resumeAge
  ELSE IF ~pass \/ ~wasHolding THEN NoTime
  ELSE IF resumeAge = NoTime THEN 0
  ELSE Lower(resumeAge + gap, ResumeDwell)

(* A solved cycle: the gate, the resume dwell and the external hold decide *)
(* whether the plan is executed; it is the next nominal in any case.       *)
SolvedStep(gap, close, verdict, atRest) ==
  LET pass  == verdict = "pass"
      since == Dwelt(gap, pass)
      dwelling == wasHolding /\ pass /\ since < ResumeDwell
      holding  == (GateEnabled /\ (~pass \/ dwelling)) \/ externalHold
  IN  /\ started
      /\ mode = "Tracking"
      /\ verdict # "fail"
      /\ resumeAge' = since
      /\ est' = [Built(gap, close) EXCEPT !.kind = IF holding THEN "held" ELSE "passed",
                                          !.age = 0, !.ahead = @ - 1]
      /\ prepared' = Nothing
      /\ failures' = 0
      /\ mode' = "Tracking"
      /\ IF holding
           THEN Finish(IF externalHold THEN "Blocked" ELSE "Holding", "braking",
                       BrakeBase(cmd, Elapsed(gap)))
           ELSE \E v \in PlanCommands(gap, atRest) : Finish("Ok", "plan", v)
      /\ stepped' = TRUE
      /\ recent' = Shift(FALSE)
      /\ sinceUnsafe' = IF ~pass \/ ~wasHolding THEN 0 ELSE Lower(sinceUnsafe + gap, SinceCap)
      /\ UNCHANGED stale

(* Mutant: a failed solve keeps an external hold only.                     *)
KeepsExternalHoldOnly == externalHold

(* A failed solve keeps the hold it finds.                                 *)
KeepsHolding == wasHolding \/ externalHold

(* A failed solve: in a hold it keeps holding, else the shifted previous   *)
(* plan stands in; too many in a row brake.                                *)
FailedStep(gap, close, atRest) ==
  LET e == [Built(gap, close) EXCEPT !.ahead = @ - 1]
  IN  /\ started
      /\ mode = "Tracking"
      /\ failures' = failures + 1
      /\ resumeAge' = IF KeepsHolding THEN NoTime ELSE resumeAge
      /\ est' = e
      /\ prepared' = Nothing
      /\ IF failures + 1 > FallbackCycles
           THEN Braking("Braking", gap)
           ELSE /\ mode' = "Tracking"
                /\ IF KeepsHolding
                     THEN Finish(IF externalHold THEN "Blocked" ELSE "Holding", "braking",
                                 BrakeBase(cmd, Elapsed(gap)))
                     ELSE \E v \in PlanCommands(gap, atRest) : Finish("Fallback", "plan", v)
      /\ stepped' = TRUE
      /\ recent' = Shift(TRUE)
      /\ sinceUnsafe' = 0
      /\ UNCHANGED stale

Step(gap) ==
  \/ StaleStep(gap)
  \/ LatchedStep(gap)
  \/ BrakingStep(gap)
  \/ GoalStep(gap)
  \/ \E close, atRest \in BOOLEAN :
       \/ \E verdict \in Verdicts \ {"fail"} : SolvedStep(gap, close, verdict, atRest)
       \/ FailedStep(gap, close, atRest)

Next ==
  \/ Start
  \/ UpdateGoal
  \/ \E m \in BOOLEAN : ReplaceRoute(m)
  \/ \E v \in 0..VMax : ResetCommand(v)
  \/ \E on \in BOOLEAN : SetExternalHold(on)
  \/ NoteFailure
  \/ Prepare
  \/ \E gap \in 0..MaxGap : Step(gap)

Spec == Init /\ [][Next]_vars

-----------------------------------------------------------------------------
(* Properties.                                                             *)

TypeOK ==
  /\ started \in BOOLEAN
  /\ mode \in Modes
  /\ failures \in 0..(FallbackCycles + 1)
  /\ failuresAtStep \in 0..(FallbackCycles + 1)
  /\ wasHolding \in BOOLEAN
  /\ resumeAge \in {NoTime} \cup 0..ResumeDwell
  /\ externalHold \in BOOLEAN
  /\ est \in Estimates
  /\ prepared \in Preparations
  /\ cmd \in 0..VMax
  /\ status \in Statuses
  /\ executes \in {"none", "plan", "braking", "zero"}
  /\ stepped \in BOOLEAN
  /\ recent \in [Window -> BOOLEAN]
  /\ stale \in BOOLEAN
  /\ sinceUnsafe \in 0..SinceCap
  /\ mediumSet \in BOOLEAN

(* A plan that was held (rejected by the slack gate, dwelling, or blocked) *)
(* is never what a later cycle executes, although it is the next nominal:  *)
(* the shifted plan of a failed solve must not be one (step, 802-810).     *)
HeldPlanNeverExecuted == executes = "plan" => est.kind # "held"

(* The fallback budget is exact, over preemptions and holds: a goal is     *)
(* braked from fresh states only, and always, when the last               *)
(* FallbackCycles + 1 tracking cycles in a row failed or were late         *)
(* (note_failure counts a cycle whose solve failed only once).             *)
FallbackBudgetExact ==
  /\ mode = "Tracking" => \E i \in Window : ~recent[i]
  /\ mode \in {"Braking", "Failed"} => stale \/ \A i \in Window : recent[i]

(* A hold under the gate ends in an executed plan only after at least the  *)
(* resume dwell without a rejected or failed plan, however the hold began  *)
(* and whatever preempted the goal meanwhile.                              *)
ResumeOnlyAfterDwell ==
  [][GateEnabled /\ wasHolding /\ ~wasHolding' /\ executes' = "plan"
       => sinceUnsafe' >= ResumeDwell]_vars

(* An unused preparation is undone before anything else is built on it:    *)
(* the filters it advanced are ahead of the cycles only while it is kept.  *)
PreparationUndone ==
  /\ est.ahead = (IF prepared.valid THEN 1 ELSE 0)
  /\ prepared.valid => prepared.before.ahead = 0

(* Undoing a preparation never brings back a medium reference that the     *)
(* caller has replaced (medium_switch.cpp orders its calls for this).      *)
MediumAsSet ==
  /\ est.medium = mediumSet
  /\ prepared.valid => prepared.before.medium = mediumSet

(* Undoing a preparation undoes all of it, and nothing the caller did.      *)
UndoneWhole == PreparationUndone /\ MediumAsSet

(* The plan a fallback cycle executes is read at the stage that covers     *)
(* now, or misses it by at most half a cycle (a preparation used early or  *)
(* late): failures, holds, preemptions and undone preparations never leave *)
(* it advanced too little or twice.                                        *)
FallbackCoversNow ==
  status = "Fallback" /\ stepped =>
    /\ 2 * est.age >= -Lower(Stage, Period)
    /\ 2 * (est.age - Stage) < Lower(Stage, Period)

(* The base is never stopped harder than the envelope's braking limit over *)
(* a stage, but for the dead zone, whichever branch a cycle takes from     *)
(* whichever one; only a reached goal, a latched end or the caller's own   *)
(* account of the command (reset_command) takes more at once.              *)
StopsWithinBrakingLimit ==
  [][\/ cmd' >= cmd - Brake * Stage
     \/ cmd' = 0 /\ cmd - Brake * Stage < DeadZone
     \/ executes' = "zero"
     \/ ResetCommand(cmd')]_vars

(* What a cycle commands is for now, resumes no plan early and brakes      *)
(* within the limit.                                                       *)
CommandsSafe == []FallbackCoversNow /\ ResumeOnlyAfterDwell /\ StopsWithinBrakingLimit

-----------------------------------------------------------------------------
(* The contract.                                                           *)

Contract == INSTANCE ControllerContract WITH
  BrakeLimit <- Brake * Stage + DeadZone,
  ctl <- [started |-> started, mode |-> mode, holding |-> wasHolding,
          blocked |-> externalHold, cmd |-> cmd, status |-> status]

(* Whatever is called in whatever order, every answer of the controller is *)
(* one its contract allows: a late or failed cycle never revives a braking *)
(* goal, a blocked controller never executes a plan, a fallback never      *)
(* follows a hold, and braking stays within its limit.                     *)
KeepsContract == Contract!Spec
=============================================================================

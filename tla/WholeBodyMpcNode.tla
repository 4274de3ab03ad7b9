--------------------------- MODULE WholeBodyMpcNode ---------------------------
(***************************************************************************)
(* The node that serves wholebody_mpc/follow_path                          *)
(* (mobile_manipulator_mpc/src/wholebody_mpc_node.cpp): the io thread that *)
(* accepts and cancels goals, the timer that runs the control cycle, the   *)
(* base ramp after a goal, the arm's stream and hold, exceptions and the   *)
(* pre-shutdown callback.                                                  *)
(*                                                                         *)
(* The controller is its contract (ControllerContract).  A cycle holds     *)
(* loop_mutex_ and is four steps, between which the io thread runs: take   *)
(* a goal, sense, command, outcome.  The medium reference, the statistics  *)
(* and the messages' contents are left out; a base command is one speed.   *)
(***************************************************************************)
EXTENDS Integers, FiniteSets

CONSTANTS
  Goals,             \* the goals, 1..n in the order they are accepted
  VMax,              \* largest base speed
  BrakeLimit,        \* the most a controller's step brakes
  RampBrake,         \* braking of a ramp's tick
  DeadZone,          \* speeds below it are sent as zero
  ExecutedFeedback,  \* parameter executed_feedback
  ProgressWindow     \* cycles without progress that end a goal

ASSUME NodeConstants ==
  /\ IsFiniteSet(Goals) /\ Goals = 1..Cardinality(Goals)
  /\ VMax \in Nat /\ BrakeLimit \in Nat /\ RampBrake \in Nat \ {0} /\ DeadZone \in Nat
  /\ ExecutedFeedback \in BOOLEAN
  /\ ProgressWindow \in Nat

NoGoal == 0
Live   == {"executing", "canceling"}
Ended  == {"succeeded", "aborted", "canceled"}

VARIABLES
  handle,       \* the action server's state of each goal
  pending,      \* pending_
  superseded,   \* on_accepted's local: replaced in pending_, not yet aborted
  active,       \* active_
  pc,           \* the next step of the cycle; "timer": none runs
  ctl,          \* the controller
  fresh, complete,       \* the measured state
  detector,              \* the blocked detector's state
  still,                 \* cycles since progress_time_; NoAnchor: unset
  cmd,                   \* cmd_: the base command sent last
  ramp, rampActive,
  arm,                   \* the arm trajectory sent last: "none", "plan", "hold"
  goalStreamed, armHeld,
  shuttingDown,
  (* History, for the properties only. *)
  unmoved,      \* cycles of this chain of preempting goals without progress
  holds,        \* holds sent since the last plan, in this chain
  gaveUp        \* ending a goal failed

vars == <<handle, pending, superseded, active, pc, ctl, fresh, complete, detector, still,
          cmd, ramp, rampActive, arm, goalStreamed, armHeld, shuttingDown,
          unmoved, holds, gaveUp>>

goalVars == <<handle, pending, active>>
baseVars == <<cmd, ramp, rampActive>>
armVars  == <<arm, goalStreamed, armHeld, holds>>
progress == <<detector, still, unmoved>>

Controller == INSTANCE ControllerContract

NoAnchor == -1

Init ==
  /\ handle = [g \in Goals |-> "unsent"]
  /\ pending = NoGoal /\ superseded = NoGoal /\ active = NoGoal
  /\ pc = "timer"
  /\ ctl = Controller!Created
  /\ fresh = FALSE /\ complete = FALSE
  /\ detector = "Clear"
  /\ still = NoAnchor
  /\ cmd = 0 /\ ramp = 0 /\ rampActive = FALSE
  /\ arm = "none" /\ goalStreamed = FALSE /\ armHeld = FALSE
  /\ shuttingDown = FALSE
  /\ unmoved = 0 /\ holds = 0 /\ gaveUp = FALSE

-----------------------------------------------------------------------------
(* The io thread and the action server.                                    *)

(* Mutant: the goal replaced in pending_ is forgotten.                     *)
AcceptOverwriting(g) ==
  /\ superseded = NoGoal
  /\ handle[g] = "unsent" /\ \A h \in Goals : h < g => handle[h] # "unsent"
  /\ handle' = [handle EXCEPT ![g] = "executing"]
  /\ pending' = g
  /\ UNCHANGED <<superseded, active, pc, ctl, fresh, complete, progress, baseVars, armVars,
                 shuttingDown, gaveUp>>

(* on_accepted, under goal_mutex_: the newest goal is the pending one.     *)
Accept(g) ==
  /\ superseded = NoGoal
  /\ handle[g] = "unsent" /\ \A h \in Goals : h < g => handle[h] # "unsent"
  /\ handle' = [handle EXCEPT ![g] = "executing"]
  /\ superseded' = pending
  /\ pending' = g
  /\ UNCHANGED <<active, pc, ctl, fresh, complete, progress, baseVars, armVars,
                 shuttingDown, gaveUp>>

(* on_accepted, after the mutex: the replaced goal never started.          *)
AbortSuperseded ==
  /\ superseded # NoGoal
  /\ handle' = [handle EXCEPT ![superseded] = "aborted"]
  /\ superseded' = NoGoal
  /\ UNCHANGED <<pending, active, pc, ctl, fresh, complete, progress, baseVars, armVars,
                 shuttingDown, gaveUp>>

(* Every cancel request is accepted.                                       *)
Cancel(g) ==
  /\ handle[g] = "executing"
  /\ handle' = [handle EXCEPT ![g] = "canceling"]
  /\ UNCHANGED <<pending, superseded, active, pc, ctl, fresh, complete, progress, baseVars,
                 armVars, shuttingDown, gaveUp>>

-----------------------------------------------------------------------------
(* Ending a goal, and the base ramp.                                       *)

(* Mutants: braking passes zero; the last step to zero is not taken.       *)
BrakedPastZero(v, k) == v - RampBrake * k
BrakedShortOfZero(v, k) == IF v <= RampBrake * k THEN v ELSE v - RampBrake * k

(* brake_base over k ticks.                                                *)
Braked(v, k) == IF v - RampBrake * k < DeadZone \/ v <= RampBrake * k THEN 0
                ELSE v - RampBrake * k

(* The arm's braking hold.                                                 *)
HoldArm ==
  /\ arm' = "hold" /\ armHeld' = TRUE /\ holds' = holds + 1
  /\ UNCHANGED goalStreamed

(* Mutants: every end ramps; the ramp does not start from the command sent. *)
StopBaseRamping(ramps, k) ==
  LET v == Braked(cmd, k)
  IN  cmd' = v /\ ramp' = v /\ rampActive' = (v # 0) /\ ctl' = [ctl EXCEPT !.cmd = v]

StopBaseFromOldRamp(ramps, k) ==
  LET v == IF ramps THEN Braked(cmd, k) ELSE 0
  IN  cmd' = v /\ rampActive' = (v # 0) /\ ctl' = [ctl EXCEPT !.cmd = v] /\ UNCHANGED ramp

(* The base's part of end_goal: k braking steps of a ramp from the command *)
(* sent last, or zero at once at the goal and at shutdown.                 *)
StopBase(ramps, k) ==
  LET v == IF ramps THEN Braked(cmd, k) ELSE 0
  IN  /\ cmd' = v
      /\ ramp' = IF ramps THEN v ELSE cmd
      /\ rampActive' = (v # 0)
      /\ ctl' = [ctl EXCEPT !.cmd = v]

(* end_goal                                                                *)
EndGoal(g, how, handles, ramps) ==
  /\ StopBase(ramps, 1)
  /\ IF goalStreamed /\ ~armHeld /\ complete THEN HoldArm ELSE UNCHANGED armVars
  /\ handle' = [handles EXCEPT ![g] = how]
  /\ active' = NoGoal

(* Ending the goal throws after the base was commanded (once, or again in  *)
(* stop_goal): it is dropped, and its handle's destructor cancels it.      *)
DropGoal(handles, ramps) ==
  /\ \E k \in 1..2 : StopBase(ramps, k)
  /\ UNCHANGED armVars
  /\ handle' = [handles EXCEPT ![active] = "canceled"]
  /\ active' = NoGoal
  /\ gaveUp' = TRUE

(* tick_ramp, when no goal is active: one or, late, two ticks.             *)
TickRamp ==
  /\ pc = "timer" /\ ~shuttingDown
  /\ pending = NoGoal /\ active = NoGoal
  /\ rampActive
  /\ \E k \in 1..2 : /\ ramp' = Braked(ramp, k)
                     /\ cmd' = ramp'
                     /\ rampActive' = (ramp' # 0)
  /\ UNCHANGED <<goalVars, superseded, pc, ctl, fresh, complete, progress, armVars,
                 shuttingDown, gaveUp>>

-----------------------------------------------------------------------------
(* The control cycle.                                                      *)

(* Mutant: a preempting goal resets what the active one has done.          *)
ResetAlways(preempt) ==
  /\ detector' = "Clear" /\ still' = NoAnchor
  /\ unmoved' = IF preempt THEN unmoved ELSE 0
  /\ armHeld' = FALSE /\ goalStreamed' = FALSE
  /\ holds' = IF preempt THEN holds ELSE 0
  /\ UNCHANGED arm

(* What start_goal resets; a preempting goal keeps it.                     *)
ResetForGoal(preempt) ==
  IF preempt
    THEN UNCHANGED <<progress, armVars>>
    ELSE /\ detector' = "Clear" /\ still' = NoAnchor /\ unmoved' = 0
         /\ armHeld' = FALSE /\ goalStreamed' = FALSE /\ holds' = 0
         /\ UNCHANGED arm

(* take_goal: a pending goal is started, or preempts the active one in     *)
(* place; then a ramp is handed over to the controller.                    *)
TakeGoal(valid) ==
  LET g == pending
      preempt == active # NoGoal
      handles == IF preempt THEN [handle EXCEPT ![active] = "aborted"] ELSE handle
      started == IF preempt THEN ctl ELSE Controller!Started(ctl)
  IN  /\ pc = "timer" /\ ~shuttingDown
      /\ pending # NoGoal
      /\ pending' = NoGoal
      /\ IF valid
           THEN /\ handle' = handles
                /\ active' = g
                /\ pc' = "sense"
                /\ ctl' = IF rampActive THEN [started EXCEPT !.cmd = ramp] ELSE started
                /\ rampActive' = FALSE
                /\ UNCHANGED <<cmd, ramp>>
                /\ ResetForGoal(preempt)
           ELSE /\ EndGoal(g, "aborted", handles, TRUE)
                /\ pc' = "timer"
                /\ UNCHANGED progress
      /\ UNCHANGED <<superseded, fresh, complete, shuttingDown, gaveUp>>

(* Mutant: a waiting goal does not interrupt the active one.               *)
NextCycleIgnoringPending ==
  /\ pc = "timer" /\ ~shuttingDown
  /\ active # NoGoal
  /\ pc' = "sense"
  /\ UNCHANGED <<goalVars, superseded, ctl, fresh, complete, progress, baseVars, armVars,
                 shuttingDown, gaveUp>>

(* The active goal's next cycle.                                           *)
NextCycle ==
  /\ pc = "timer" /\ ~shuttingDown
  /\ pending = NoGoal /\ active # NoGoal
  /\ pc' = "sense"
  /\ UNCHANGED <<goalVars, superseded, ctl, fresh, complete, progress, baseVars, armVars,
                 shuttingDown, gaveUp>>

(* Mutant: cancel requests are not looked at.                              *)
CancelIgnored == FALSE

CancelRequested == handle[active] = "canceling"

(* A canceled goal ends before anything is measured.                       *)
SenseCanceled ==
  /\ pc = "sense"
  /\ CancelRequested
  /\ EndGoal(active, "canceled", handle, TRUE)
  /\ pc' = "timer"
  /\ UNCHANGED <<pending, superseded, fresh, complete, progress, shuttingDown, gaveUp>>

(* No complete state yet.  Once complete, it stays so (ros_state.cpp).     *)
SenseIncomplete ==
  /\ pc = "sense"
  /\ ~CancelRequested
  /\ ~complete
  /\ EndGoal(active, "aborted", handle, TRUE)
  /\ pc' = "timer"
  /\ UNCHANGED <<pending, superseded, fresh, complete, progress, shuttingDown, gaveUp>>

(* BlockedDetector::update: its verdicts follow one another like this.     *)
DetectorNext ==
  CASE detector = "Clear"   -> {"Clear", "Blocked", "Failed"}
    [] detector = "Blocked" -> {"Blocked", "Clear", "Failed"}
    [] detector = "Failed"  -> {"Failed"}

(* Mutant: the executed command whatever the parameter says.               *)
PreviousExecuted == 0..VMax

(* The previous base command: the executed one (at most half a second old, *)
(* scaled or stopped by the collision monitor), or the controller's own.   *)
Previous == IF ExecutedFeedback THEN 0..VMax ELSE {ctl.cmd}

SenseState(now) ==
  /\ pc = "sense"
  /\ ~CancelRequested
  /\ complete' = TRUE
  /\ fresh' = now
  /\ detector' \in DetectorNext
  /\ IF detector' = "Failed"
       THEN /\ EndGoal(active, "aborted", handle, TRUE)
            /\ pc' = "timer"
       ELSE /\ \E v \in Previous :
                 ctl' = [ctl EXCEPT !.blocked = (detector' = "Blocked"), !.cmd = v]
            /\ pc' = "command"
            /\ UNCHANGED <<handle, active, baseVars, armVars>>
  /\ UNCHANGED <<pending, superseded, still, unmoved, shuttingDown, gaveUp>>

(* The controller's step; its base command is sent, and the arm streams    *)
(* the plan or is held once.                                               *)
Command ==
  /\ pc = "command"
  /\ ctl' \in Controller!Stepped(ctl, fresh, TRUE)
  /\ cmd' = ctl'.cmd
  /\ IF ctl'.status \in {"Ok", "Fallback"}
       THEN /\ arm' = "plan" /\ goalStreamed' = TRUE /\ armHeld' = FALSE /\ holds' = 0
       ELSE IF ctl'.status \in {"Braking", "StaleState", "Holding", "Blocked"} /\ ~armHeld
         THEN HoldArm
         ELSE UNCHANGED armVars
  /\ pc' = "outcome"
  /\ UNCHANGED <<goalVars, superseded, fresh, complete, progress, ramp, rampActive,
                 shuttingDown, gaveUp>>

(* no_progress: the base has not moved for the window.                     *)
Progress(moved) ==
  /\ still' = IF moved \/ still = NoAnchor THEN 0 ELSE still + 1
  /\ unmoved' = IF moved THEN 0 ELSE unmoved + 1

(* The goal's outcome, or a late cycle counted as a failure.               *)
Outcome ==
  /\ pc = "outcome"
  /\ pc' = "timer"
  /\ \/ /\ ctl.status = "GoalReached"
        /\ EndGoal(active, "succeeded", handle, FALSE)
        /\ UNCHANGED <<still, unmoved>>
     \/ /\ ctl.status = "Failed"
        /\ EndGoal(active, "aborted", handle, TRUE)
        /\ UNCHANGED <<still, unmoved>>
     \/ /\ ctl.status \notin {"GoalReached", "Failed"}
        /\ \E moved \in BOOLEAN : Progress(moved)
        /\ IF still' > ProgressWindow
             THEN EndGoal(active, "aborted", handle, TRUE)
             ELSE /\ ctl' \in Controller!Late(ctl)
                  /\ UNCHANGED <<handle, active, baseVars, armVars>>
  /\ UNCHANGED <<pending, superseded, fresh, complete, detector, shuttingDown, gaveUp>>

(* An exception anywhere in the cycle ends the goal (stop_goal).           *)
CycleThrows ==
  /\ pc \in {"sense", "command", "outcome"}
  /\ EndGoal(active, "aborted", handle, TRUE)
  /\ pc' = "timer"
  /\ UNCHANGED <<pending, superseded, fresh, complete, progress, shuttingDown, gaveUp>>

EndGoalThrows ==
  /\ pc \in {"sense", "command", "outcome"}
  /\ DropGoal(handle, TRUE)
  /\ pc' = "timer"
  /\ UNCHANGED <<pending, superseded, fresh, complete, progress, shuttingDown>>

(* on_shutdown, which waits for a running cycle.                           *)
Shutdown ==
  LET handles == IF pending = NoGoal THEN handle
                 ELSE [handle EXCEPT ![pending] = "aborted"]
  IN  /\ pc = "timer" /\ ~shuttingDown
      /\ shuttingDown' = TRUE
      /\ pending' = NoGoal
      /\ IF active # NoGoal
           THEN \/ EndGoal(active, "aborted", handles, FALSE) /\ UNCHANGED gaveUp
                \/ DropGoal(handles, FALSE)
           ELSE /\ handle' = handles
                /\ rampActive' = FALSE
                /\ cmd' = IF rampActive THEN 0 ELSE cmd
                /\ UNCHANGED <<active, ramp, ctl, armVars, gaveUp>>
      /\ UNCHANGED <<superseded, pc, fresh, complete, progress>>

Cycle ==
  \/ TickRamp
  \/ \E valid \in BOOLEAN : TakeGoal(valid)
  \/ NextCycle
  \/ SenseCanceled
  \/ SenseIncomplete
  \/ \E now \in BOOLEAN : SenseState(now)
  \/ Command
  \/ Outcome
  \/ CycleThrows
  \/ EndGoalThrows

Next ==
  \/ \E g \in Goals : Accept(g) \/ Cancel(g)
  \/ AbortSuperseded
  \/ Cycle
  \/ Shutdown

Spec == Init /\ [][Next]_vars

(* The timer keeps firing until shutdown, and on_accepted returns.         *)
FairSpec == Spec /\ WF_vars(Cycle) /\ WF_vars(AbortSuperseded)

-----------------------------------------------------------------------------
(* Properties.                                                             *)

TypeOK ==
  /\ handle \in [Goals -> {"unsent"} \cup Live \cup Ended]
  /\ pending \in Goals \cup {NoGoal}
  /\ superseded \in Goals \cup {NoGoal}
  /\ active \in Goals \cup {NoGoal}
  /\ pc \in {"timer", "sense", "command", "outcome"}
  /\ ctl \in Controller!Controllers
  /\ fresh \in BOOLEAN /\ complete \in BOOLEAN
  /\ detector \in {"Clear", "Blocked", "Failed"}
  /\ still \in NoAnchor..(ProgressWindow + 1)
  /\ cmd \in 0..VMax /\ ramp \in 0..VMax /\ rampActive \in BOOLEAN
  /\ arm \in {"none", "plan", "hold"}
  /\ goalStreamed \in BOOLEAN /\ armHeld \in BOOLEAN
  /\ shuttingDown \in BOOLEAN
  /\ unmoved \in 0..(ProgressWindow + 2)
  /\ holds \in Nat
  /\ gaveUp \in BOOLEAN

(* Every accepted goal that has no result is one the node still knows, and *)
(* only the newest is waiting: no interleaving of accepting, preempting,   *)
(* canceling, exceptions and shutdown loses a goal or keeps an older one.  *)
NoGoalForgotten ==
  /\ \A g \in Goals : handle[g] \in Live => g \in {pending, superseded, active}
  /\ \A g \in {pending, superseded, active} \ {NoGoal} : handle[g] \in Live
  /\ pending # NoGoal => \A g \in {superseded, active} : g < pending

(* Without a goal the base is at rest or on its ramp there, from the       *)
(* command sent last, however the goal ended (end_goal, tick_ramp).        *)
BaseRampsToRest ==
  pc = "timer" /\ active = NoGoal =>
    IF rampActive THEN ramp = cmd /\ cmd > 0 ELSE cmd = 0

(* Without a goal the arm is not left on a streamed plan: the end of a     *)
(* goal, preempted or not, holds it unless it is held (goal_streamed_ and  *)
(* arm_held_ over preemptions and rejected goals).                         *)
ArmHeldWhenIdle ==
  pc = "timer" /\ active = NoGoal /\ ~gaveUp => arm # "plan"

(* The arm is held once per hold: a second hold would restart its braking. *)
HeldOnce == holds <= 1

(* After the pre-shutdown callback nothing moves and no goal runs.         *)
ShutdownStops == shuttingDown => cmd = 0 /\ active = NoGoal /\ ~rampActive

(* Without a goal nothing the node commands moves the robot on.            *)
RestsWithoutGoal == BaseRampsToRest /\ ArmHeldWhenIdle /\ HeldOnce /\ ShutdownStops

(* The no-progress window carries over preemptions (the behaviour tree     *)
(* resends its goal on every replan), so a stuck base ends its goals.      *)
StuckGoalsEnd == pc = "timer" /\ active # NoGoal => unmoved <= ProgressWindow + 1

(* "A new goal continues from the ramped command": the controller's        *)
(* previous command is the one sent last (run_cycle, 626-631).             *)
ContinuesFromSent == pc = "command" => ctl.cmd = cmd

(* A waiting goal is started or ended.                                     *)
PendingGoalsTaken ==
  \A g \in Goals : pending = g /\ ~shuttingDown ~> pending # g

(* A canceled goal ends, unless it came in after the shutdown.             *)
CanceledGoalsEnd ==
  \A g \in Goals : handle[g] = "canceling" ~> handle[g] \in Ended \/ shuttingDown

(* A braking goal ends, although newer goals preempt it.                   *)
BrakingGoalsEnd == ctl.mode = "Braking" /\ active # NoGoal ~> active = NoGoal

(* A ramp ends at rest or in a new goal.                                   *)
RampsEnd == rampActive ~> cmd = 0 \/ active # NoGoal

(* Whatever the node has begun ends: a waiting, canceled, braking or stuck *)
(* goal, and the ramp after it.                                            *)
GoalsEnd ==
  /\ PendingGoalsTaken /\ CanceledGoalsEnd /\ BrakingGoalsEnd /\ RampsEnd
  /\ []StuckGoalsEnd
=============================================================================

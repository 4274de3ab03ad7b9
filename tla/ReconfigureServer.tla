--------------------------- MODULE ReconfigureServer ---------------------------
(***************************************************************************)
(* The server of /reconfigure_panel in footprint mode "profiles"           *)
(* (mobile_manipulator_manipulation/src/reconfigure_panel_server.cpp): the *)
(* action callbacks, the goal thread, the footprint healing timer and the  *)
(* execution of the arm's trajectory by MoveIt.                            *)
(*                                                                         *)
(* The goal thread is a program counter; a step of it ends where another   *)
(* thread may see the difference.  An arm posture is one of a small set,   *)
(* and a footprint profile the postures that fit it.  Every refusal before *)
(* the arm moves is one code; planning is its outcome; the numbers of the  *)
(* result are left out.                                                    *)
(***************************************************************************)
EXTENDS Integers, FiniteSets

CONSTANTS
  Goals,        \* the goals, 1..n in the order they arrive
  Postures,     \* postures of the arm and its panel
  Profiles,     \* footprint profiles
  Fits,         \* the postures that fit a profile
  FirstProfile, \* parameter initial_footprint_profile
  FirstPosture, \* the arm's, inside it
  Worlds        \* what may happen: [late |-> MoveIt answers after the server's
                \* deadlines, lags |-> joint states lag behind the arm]

ASSUME ServerConstants ==
  /\ IsFiniteSet(Goals) /\ Goals = 1..Cardinality(Goals)
  /\ Fits \in [Profiles -> SUBSET Postures]
  /\ FirstProfile \in Profiles
  /\ FirstPosture \in Fits[FirstProfile]
  /\ Worlds \subseteq [late : BOOLEAN, lags : BOOLEAN]

NoGoal   == 0
Live     == {"executing", "canceling"}
Ended    == {"succeeded", "aborted", "canceled"}
Costmaps == {"global", "local"}

(* The result codes: REFUSED stands for every code of a goal that did not  *)
(* move the arm, but CANCELED.                                             *)
Codes == {"SUCCESS", "CANCELED", "REFUSED", "EXECUTION_FAILED", "ARM_FAULT",
          "PROFILE_VIOLATED_AFTER_EXECUTION"}

VARIABLES
  handle,     \* the action server's state of each goal
  busy,       \* busy_
  stopping,   \* stopping_: the destructor runs
  queued,     \* the accepted goal whose thread is not started yet
  worker,     \* the goal of worker_
  pc,         \* the next step of worker_; "idle": it returned
  want, target,        \* the requested profile, the planned final posture
  previous,            \* the profile when the goal started
  moved,
  code, violated,      \* the result
  current,    \* current_profile_
  footprint,  \* the polygon published last to each costmap
  zones,      \* the profile of the collision monitor's zones published last
  healing,    \* heal_footprints holds mutex_ and has judged this costmap
  exec,       \* MoveIt's execution of each goal's trajectory
  arm,        \* the arm's posture
  joints,     \* joints_: the posture received last
  fresh,      \* a joint state arrived since the execution ended
  world,      \* the environment of this behaviour, chosen at the start
  (* History, for the properties only. *)
  reported,   \* what the last goal that moved the arm reported of where it is
  abandoned   \* a goal ended while MoveIt could still move the arm for it

action == <<handle, busy, stopping, queued>>
thread == <<worker, pc, want, target, previous, moved, code, violated>>
nav    == <<current, footprint, zones>>
robot  == <<exec, arm, joints, fresh>>
history == <<reported, abandoned>>
vars   == <<action, thread, nav, healing, robot, world, history>>

Init ==
  /\ handle = [g \in Goals |-> "unsent"]
  /\ busy = FALSE /\ stopping = FALSE
  /\ queued = NoGoal /\ worker = NoGoal /\ pc = "idle"
  /\ want = FirstProfile /\ target = FirstPosture /\ previous = FirstProfile
  /\ moved = FALSE /\ code = "REFUSED" /\ violated = FALSE
  /\ current = FirstProfile
  /\ footprint = [c \in Costmaps |-> FirstProfile]
  /\ zones = FirstProfile
  /\ healing = "no"
  /\ exec = [g \in Goals |-> "none"]
  /\ arm = FirstPosture /\ joints = FirstPosture /\ fresh = TRUE
  /\ world \in Worlds
  /\ reported = "fits" /\ abandoned = FALSE

-----------------------------------------------------------------------------
(* The action server's callbacks, one at a time.                           *)

(* The goal callback: busy_ is taken, or the goal is rejected.             *)
Request(g) ==
  /\ ~stopping
  /\ queued = NoGoal
  /\ handle[g] = "unsent" /\ \A h \in Goals : h < g => handle[h] # "unsent"
  /\ IF busy
       THEN handle' = [handle EXCEPT ![g] = "rejected"] /\ UNCHANGED <<busy, queued>>
       ELSE handle' = [handle EXCEPT ![g] = "executing"] /\ busy' = TRUE /\ queued' = g
  /\ UNCHANGED <<stopping, thread, nav, healing, robot, world, history>>

(* The accepted callback joins the last goal's thread, then starts one.    *)
StartWorker(profile) ==
  /\ queued # NoGoal
  /\ pc = "idle"
  /\ worker' = queued /\ queued' = NoGoal
  /\ pc' = "check"
  /\ want' = profile /\ previous' = current
  /\ moved' = FALSE /\ violated' = FALSE
  /\ UNCHANGED <<handle, busy, stopping, target, code, nav, healing, robot, world, history>>

(* Every cancel request is accepted.                                       *)
Cancel(g) ==
  /\ ~stopping
  /\ queued = NoGoal
  /\ handle[g] = "executing"
  /\ handle' = [handle EXCEPT ![g] = "canceling"]
  /\ UNCHANGED <<busy, stopping, queued, thread, nav, healing, robot, world, history>>

(* Shutdown: the callbacks end, the context is gone, and the destructor    *)
(* tells the goal thread.                                                  *)
Destroy ==
  /\ ~stopping
  /\ queued = NoGoal /\ healing = "no"
  /\ stopping' = TRUE
  /\ UNCHANGED <<handle, busy, queued, thread, nav, healing, robot, world, history>>

-----------------------------------------------------------------------------
(* The goal thread.                                                        *)

Goto(next) ==
  /\ pc' = next
  /\ UNCHANGED <<worker, want, target, previous, moved, code, violated>>

(* Mutant: only a message is thrown.                                       *)
ThrowMessage(result) ==
  /\ pc' = "finished"
  /\ code' = "none"
  /\ UNCHANGED <<worker, want, target, previous, moved, violated>>

(* throw Finished                                                          *)
Throw(result) ==
  /\ pc' = "finished"
  /\ code' = result
  /\ UNCHANGED <<worker, want, target, previous, moved, violated>>

Canceling == handle[worker] = "canceling" \/ stopping

(* mutex_ is not held by the healing timer.                                *)
Unlocked == healing = "no"

(* CHECKING, and the Octomap refresh.                                      *)
Check ==
  /\ pc = "check" /\ Unlocked
  /\ \/ Goto("plan")
     \/ Throw("REFUSED")
     \/ Canceling /\ Throw("CANCELED")
  /\ UNCHANGED <<action, nav, healing, robot, world, history>>

(* PLANNING: a cancel waits for the plan and discards it.                  *)
Plan ==
  /\ pc = "plan"
  /\ \/ /\ target' \in Postures
        /\ pc' = "verify"
        /\ UNCHANGED <<worker, want, previous, moved, code, violated>>
     \/ Throw("REFUSED")
     \/ Canceling /\ Throw("CANCELED")
  /\ UNCHANGED <<action, nav, healing, robot, world, history>>

(* VERIFYING_PLAN: the planned state fits the requested profile; a cancel  *)
(* so far ends the goal.                                                   *)
VerifyPlan ==
  /\ pc = "verify"
  /\ \/ target \notin Fits[want] /\ Throw("REFUSED")
     \/ target \in Fits[want] /\ Canceling /\ Throw("CANCELED")
     \/ target \in Fits[want] /\ handle[worker] # "canceling" /\ Goto("execute")
  /\ UNCHANGED <<action, nav, healing, robot, world, history>>

(* EXECUTING: the trajectory is sent.                                      *)
Execute ==
  /\ pc = "execute" /\ Unlocked
  /\ \/ Throw("REFUSED") /\ UNCHANGED exec
     \/ /\ pc' = "accept"
        /\ moved' = TRUE
        /\ exec' = [exec EXCEPT ![worker] = "requested"]
        /\ UNCHANGED <<worker, want, target, previous, code, violated>>
  /\ UNCHANGED <<action, nav, healing, arm, joints, fresh, world, history>>

(* Mutant: a cancel ends the goal before the execution's handle is known.  *)
AwaitAcceptanceOrCancel ==
  /\ pc = "accept"
  /\ \/ exec[worker] \notin {"requested", "rejected"} /\ Goto("run")
     \/ exec[worker] = "rejected" /\ Throw("EXECUTION_FAILED")
     \/ Canceling /\ Throw("CANCELED")
  /\ UNCHANGED <<action, nav, healing, robot, world, history>>

(* The acceptance is awaited for 5 s, without looking at cancels.          *)
AwaitAcceptance ==
  /\ pc = "accept"
  /\ \/ exec[worker] \notin {"requested", "rejected"} /\ Goto("run")
     \/ exec[worker] = "rejected" /\ Throw("EXECUTION_FAILED")
     \/ world.late /\ exec[worker] = "requested" /\ Throw("EXECUTION_FAILED")
  /\ UNCHANGED <<action, nav, healing, robot, world, history>>

(* Mutant: the execution has no deadline.                                  *)
AwaitExecutionForever ==
  /\ pc = "run"
  /\ \/ /\ exec[worker] = "succeeded"
        /\ Goto("settle")
        /\ fresh' = FALSE
     \/ /\ exec[worker] = "failed"
        /\ \E why \in {"EXECUTION_FAILED", "ARM_FAULT"} : Throw(why)
        /\ UNCHANGED fresh
     \/ exec[worker] = "running" /\ Canceling /\ Goto("stopCanceled") /\ UNCHANGED fresh
  /\ UNCHANGED <<action, nav, healing, exec, arm, joints, world, history>>

(* The execution's result, a cancel or the deadline; a failed execution    *)
(* asks whether the arm is active, and that wait too sees a cancel.        *)
AwaitExecution ==
  /\ pc = "run"
  /\ \/ /\ exec[worker] = "succeeded"
        /\ Goto("settle")
        /\ fresh' = FALSE
     \/ /\ exec[worker] = "failed"
        /\ \/ \E why \in {"EXECUTION_FAILED", "ARM_FAULT"} : Throw(why)
           \/ Canceling /\ Throw("CANCELED")
        /\ UNCHANGED fresh
     \/ exec[worker] = "running" /\ Canceling /\ Goto("stopCanceled") /\ UNCHANGED fresh
     \/ exec[worker] = "running" /\ Goto("stopOverdue") /\ UNCHANGED fresh
  /\ UNCHANGED <<action, nav, healing, exec, arm, joints, world, history>>

(* cancel_execution: "stop" and a cancel, then at most 3 s for each.       *)
StopExecution ==
  /\ \/ pc = "stopCanceled" /\ Throw("CANCELED")
     \/ pc = "stopOverdue" /\ Throw("EXECUTION_FAILED")
  /\ world.late \/ exec[worker] # "running"
  /\ UNCHANGED <<action, nav, healing, robot, world, history>>

(* Mutant: any joint state will do.                                        *)
SettleAtOnce ==
  /\ pc = "settle"
  /\ Goto("measure")
  /\ UNCHANGED <<action, nav, healing, robot, world, history>>

(* VERIFYING_STATE: a joint state since the end within 2 s, then the hold. *)
Settle ==
  /\ pc = "settle" /\ Unlocked
  /\ \/ fresh /\ Goto("measure")
     \/ ~fresh /\ Throw("EXECUTION_FAILED")
  /\ UNCHANGED <<action, nav, healing, robot, world, history>>

(* The measured state against the requested profile.                       *)
Measure ==
  /\ pc = "measure" /\ Unlocked
  /\ IF joints \in Fits[want]
       THEN Goto("switch")
       ELSE /\ violated' = (joints \notin Fits[previous])
            /\ code' = "PROFILE_VIOLATED_AFTER_EXECUTION"
            /\ pc' = "finished"
            /\ UNCHANGED <<worker, want, target, previous, moved>>
  /\ UNCHANGED <<action, nav, healing, robot, world, history>>

(* SWITCHING_FOOTPRINT: the polygons and the zones are published.          *)
Switch ==
  /\ pc = "switch"
  /\ footprint' = [c \in Costmaps |-> want]
  /\ zones' = want
  /\ Goto("apply")
  /\ UNCHANGED <<action, current, healing, robot, world, history>>

Apply ==
  /\ pc = "apply" /\ Unlocked
  /\ current' = want
  /\ code' = "SUCCESS" /\ violated' = FALSE
  /\ reported' = "fits"
  /\ pc' = "free"
  /\ UNCHANGED <<worker, want, target, previous, moved, action, footprint, zones, healing,
                 robot, world, abandoned>>

(* Mutant: a canceled goal does not look where the arm stopped.            *)
ViolatedUnlessCanceled ==
  IF moved /\ code \notin {"PROFILE_VIOLATED_AFTER_EXECUTION", "CANCELED"}
    THEN joints \notin Fits[previous]
    ELSE violated

(* profile_violated of a goal that ended early: judged once the arm moved, *)
(* unless it was already.                                                  *)
Violated ==
  IF moved /\ code # "PROFILE_VIOLATED_AFTER_EXECUTION"
    THEN joints \notin Fits[previous]
    ELSE violated

Judgement(outside) == IF outside THEN "violated" ELSE "fits"

(* catch (Finished)                                                        *)
Finish ==
  /\ pc = "finished" /\ Unlocked
  /\ violated' = Violated
  /\ reported' = IF moved THEN Judgement(violated') ELSE reported
  /\ pc' = "free"
  /\ UNCHANGED <<worker, want, target, previous, moved, code, action, nav, healing, robot,
                 world, abandoned>>

(* catch (std::exception): a client threw, or a lookup before the motion;  *)
(* canceling an execution throws once its result has arrived.  Nothing is  *)
(* judged, though the arm may have moved.                                  *)
CatchException ==
  /\ \/ pc \in {"check", "plan", "verify", "execute"}
     \/ pc \in {"stopCanceled", "stopOverdue"} /\ exec[worker] # "running"
  /\ code' = "EXECUTION_FAILED"
  /\ reported' = IF moved THEN "unjudged" ELSE reported
  /\ pc' = "free"
  /\ UNCHANGED <<worker, want, target, previous, moved, violated, action, nav, healing, robot,
                 world, abandoned>>

(* Mutant: the server is freed by the result's report.                     *)
FreeWithReport ==
  /\ pc = "free"
  /\ Goto("report")
  /\ abandoned' = (abandoned \/ exec[worker] \in {"requested", "running"})
  /\ UNCHANGED <<action, nav, healing, robot, world, reported>>

(* report: the server is freed first.                                      *)
Free ==
  /\ pc = "free"
  /\ busy' = FALSE
  /\ Goto("report")
  /\ abandoned' = (abandoned \/ exec[worker] \in {"requested", "running"})
  /\ UNCHANGED <<handle, stopping, queued, nav, healing, robot, world, reported>>

Outcome == IF code = "SUCCESS" THEN "succeeded"
           ELSE IF code = "CANCELED" THEN "canceled" ELSE "aborted"

(* Then the goal ends; after the shutdown it cannot be told.               *)
Report ==
  /\ pc = "report"
  /\ handle' = IF stopping THEN handle ELSE [handle EXCEPT ![worker] = Outcome]
  /\ Goto("idle")
  /\ UNCHANGED <<busy, stopping, queued, nav, healing, robot, world, history>>

Worker ==
  \/ Check \/ Plan \/ VerifyPlan \/ Execute \/ AwaitAcceptance \/ AwaitExecution
  \/ StopExecution \/ Settle \/ Measure \/ Switch \/ Apply \/ Finish \/ CatchException
  \/ Free \/ Report

-----------------------------------------------------------------------------
(* The healing timer: a costmap that shows another profile, judged between *)
(* goals with the base at rest, gets the active one again.                 *)

(* Mutant: judged during a goal too.                                       *)
JudgeAnyTime(c) ==
  /\ ~stopping
  /\ healing = "no"
  /\ healing' = c
  /\ UNCHANGED <<action, thread, nav, robot, world, history>>

Judge(c) ==
  /\ ~stopping
  /\ healing = "no"
  /\ ~busy
  /\ healing' = c
  /\ UNCHANGED <<action, thread, nav, robot, world, history>>

Republish ==
  /\ healing # "no"
  /\ footprint' = [footprint EXCEPT ![healing] = current]
  /\ healing' = "no"
  /\ UNCHANGED <<action, thread, current, zones, robot, world, history>>

-----------------------------------------------------------------------------
(* MoveIt, the arm and its joint states.                                   *)

Accepts(g) ==
  /\ exec[g] = "requested"
  /\ \E answer \in {"running", "rejected"} : exec' = [exec EXCEPT ![g] = answer]
  /\ UNCHANGED <<action, thread, nav, healing, arm, joints, fresh, world, history>>

(* The arm moves; its joint state is there at once, or lags.               *)
Moved(posture) ==
  /\ arm' = posture
  /\ joints' = IF world.lags THEN joints ELSE posture
  /\ UNCHANGED fresh

Moves(g) ==
  /\ exec[g] = "running"
  /\ \E posture \in Postures : Moved(posture)
  /\ UNCHANGED <<action, thread, nav, healing, exec, world, history>>

Ends(g) ==
  /\ exec[g] = "running"
  /\ \E how \in {"succeeded", "failed"} : exec' = [exec EXCEPT ![g] = how]
  /\ \E posture \in Postures : Moved(posture)
  /\ UNCHANGED <<action, thread, nav, healing, world, history>>

JointState ==
  /\ ~stopping
  /\ joints' = arm /\ fresh' = TRUE
  /\ UNCHANGED <<action, thread, nav, healing, exec, arm, world, history>>

Next ==
  \/ \E g \in Goals : Request(g) \/ Cancel(g) \/ Accepts(g) \/ Moves(g) \/ Ends(g)
  \/ \E profile \in Profiles : StartWorker(profile)
  \/ Destroy
  \/ Worker
  \/ \E c \in Costmaps : Judge(c)
  \/ Republish
  \/ JointState

Spec == Init /\ [][Next]_vars

(* Threads run, and the timer releases mutex_; MoveIt promises nothing.    *)
FairSpec ==
  /\ Spec
  /\ WF_vars(Worker)
  /\ WF_vars(\E profile \in Profiles : StartWorker(profile))
  /\ WF_vars(Republish)

-----------------------------------------------------------------------------
(* Properties.                                                             *)

Steps == {"idle", "check", "plan", "verify", "execute", "accept", "run", "stopCanceled",
          "stopOverdue", "settle", "measure", "switch", "apply", "finished", "free", "report"}

TypeOK ==
  /\ handle \in [Goals -> {"unsent", "rejected"} \cup Live \cup Ended]
  /\ busy \in BOOLEAN /\ stopping \in BOOLEAN
  /\ queued \in Goals \cup {NoGoal} /\ worker \in Goals \cup {NoGoal}
  /\ pc \in Steps
  /\ want \in Profiles /\ target \in Postures /\ previous \in Profiles
  /\ moved \in BOOLEAN /\ code \in Codes /\ violated \in BOOLEAN
  /\ current \in Profiles
  /\ footprint \in [Costmaps -> Profiles] /\ zones \in Profiles
  /\ healing \in Costmaps \cup {"no"}
  /\ exec \in [Goals -> {"none", "requested", "rejected", "running", "succeeded", "failed"}]
  /\ arm \in Postures /\ joints \in Postures
  /\ fresh \in BOOLEAN /\ world \in Worlds
  /\ reported \in {"fits", "violated", "unjudged"} /\ abandoned \in BOOLEAN

Idle == pc = "idle" /\ queued = NoGoal

(* "A client that sends its next goal as soon as this result arrives is    *)
(* not rejected as busy": busy_ is set only while a goal has no result.    *)
FreeOnceReported == busy => \E g \in Goals : handle[g] \in Live

(* Costmaps, zones and the active profile never disagree but while a goal  *)
(* switches them; healing never puts an older profile back.                *)
FootprintsAgree ==
  pc # "apply" => /\ \A c \in Costmaps : footprint[c] = current
                  /\ zones = current

(* After a goal succeeded the arm fits the published footprint, unless an  *)
(* execution the server has given up still moves it.                       *)
SuccessFits ==
  Idle /\ code = "SUCCESS" /\ ~abandoned => arm \in Fits[current]

(* "The measured state left the previously active profile (failed or       *)
(* canceled execution)": an idle server whose arm does not fit the         *)
(* published footprint has said so in the result of the goal that moved    *)
(* the arm last (ReconfigurePanel.action: profile_violated).               *)
StrandedArmReported ==
  Idle /\ ~stopping /\ arm \notin Fits[current] => reported = "violated"

(* No goal ends while MoveIt may still move the arm for it: canceled, late *)
(* or failed (cancel_execution, 521-546).                                  *)
ArmAtRestWhenIdle == Idle => \A g \in Goals : exec[g] \notin {"requested", "running"}

(* What an idle server last reported is true of the arm: it fits the       *)
(* footprint after a success, and, when MoveIt answers in time and the     *)
(* joint states are fresh, it rests and a posture that does not fit has    *)
(* been reported (profile_violated), unless canceling threw because the    *)
(* trajectory had just ended: then nothing was judged.                     *)
ResultTellsTheArm ==
  /\ SuccessFits /\ FreeOnceReported
  /\ ~world.late /\ ~world.lags =>
       ArmAtRestWhenIdle /\ (reported # "unjudged" => StrandedArmReported)

(* Every accepted goal ends though MoveIt may never answer: where it may   *)
(* be late every wait has a deadline.                                      *)
GoalsEnd ==
  \A g \in Goals :
    world.late /\ handle[g] \in Live ~> handle[g] \in Ended \/ stopping
=============================================================================

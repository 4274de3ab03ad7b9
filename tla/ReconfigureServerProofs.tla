------------------------ MODULE ReconfigureServerProofs ------------------------
(***************************************************************************)
(* What the reconfiguration server keeps of its goals, its footprints and  *)
(* the arm, proved for any number of goals, any profiles and postures and  *)
(* any answers of MoveIt.                                                  *)
(***************************************************************************)
EXTENDS ReconfigureServer, FiniteSetTheorems, TLAPS

-----------------------------------------------------------------------------
(***************************************************************************)
(* The inductive invariant.                                                *)
(***************************************************************************)

Active  == {"requested", "running"}
Asking  == {"check", "plan", "verify", "execute"}
Moving  == {"run", "stopCanceled", "stopOverdue"}
Arrived == {"settle", "measure", "switch", "apply"}

\* busy_ is the goal that waits for its thread or the one whose thread has not
\* freed the server; both are live, and a waiting goal has no execution yet.
BusyInv ==
  /\ queued # NoGoal => /\ busy /\ handle[queued] \in Live
                        /\ pc \in {"idle", "report"}
                        /\ exec[queued] = "none"
                        /\ pc = "report" => queued # worker
  /\ pc # "idle" => worker \in Goals /\ handle[worker] \in Live
  /\ pc \notin {"idle", "report"} => busy
  /\ busy => queued # NoGoal \/ pc \notin {"idle", "report"}
  /\ \A g \in Goals : handle[g] = "unsent" => exec[g] = "none"

\* The healing timer judges between goals and its mutex holds the next goal at its
\* check, so the active profile it puts back is the one shown everywhere else.
LockInv ==
  /\ healing # "no" => pc \in {"idle", "check", "free", "report"}
  /\ pc # "apply" => zones = current /\ \A c \in Costmaps : footprint[c] = current
  /\ pc = "apply" => zones = want /\ \A c \in Costmaps : footprint[c] = want

\* What the thread's step says of its execution.  Unless the server gave one up,
\* only the goal it runs can move the arm, and only from the request to the result;
\* a MoveIt that answers in time leaves none to give up.
ExecInv ==
  /\ pc \in Asking => exec[worker] = "none" /\ ~moved
  /\ pc = "accept" => exec[worker] # "none" /\ moved
  /\ pc \in Moving => exec[worker] \in {"running", "succeeded", "failed"} /\ moved
  /\ pc \in Arrived => exec[worker] = "succeeded" /\ moved
  /\ pc = "finished" => code # "SUCCESS" /\ moved = (exec[worker] # "none")
  /\ pc = "free" /\ code = "SUCCESS" => exec[worker] = "succeeded"
  /\ ~abandoned => \A g \in Goals : exec[g] \in Active =>
       g = worker /\ pc \in {"accept", "finished", "free"} \cup Moving
  /\ ~world.late => ~abandoned /\ (pc \in {"finished", "free"} => exec[worker] \notin Active)

\* From a joint state newer than the execution on, the received posture is the
\* arm's, and what was judged of it stays true.
FitInv ==
  ~abandoned =>
    /\ pc = "settle" /\ fresh => joints = arm
    /\ pc = "measure" => joints = arm
    /\ pc \in {"switch", "apply"} => arm \in Fits[want]
    /\ pc \in {"free", "report", "idle"} /\ code = "SUCCESS" => arm \in Fits[current]

\* With prompt answers and joint states a posture outside the active profile has
\* been reported, or not been judged, whenever no trajectory is under way.
PromptInv ==
  /\ pc \notin {"idle", "free", "report"} => previous = current
  /\ ~world.lags => joints = arm
  /\ ~world.late /\ ~world.lags =>
       /\ pc \in {"idle", "report", "free"} \cup Asking =>
            (arm \notin Fits[current] => reported # "fits")
       /\ pc = "finished" /\ ~moved => (arm \notin Fits[current] => reported # "fits")
       /\ pc = "finished" /\ code = "PROFILE_VIOLATED_AFTER_EXECUTION" =>
            (moved /\ (arm \notin Fits[current] => violated))

ServerInv == TypeOK /\ BusyInv /\ LockInv /\ ExecInv /\ FitInv /\ PromptInv

LEMMA Places == NoGoal \notin Goals
  <1>1. Cardinality(Goals) \in Nat /\ Goals = 1..Cardinality(Goals)
    BY FS_CardinalityType, ServerConstants
  <1> QED
    BY <1>1 DEF NoGoal

LEMMA InitInv == Init => ServerInv
  <1> USE Places, ServerConstants DEF Init, NoGoal
  <1>1. ASSUME Init PROVE TypeOK
    <2>1. FirstPosture \in Postures
      BY ServerConstants
    <2>2. /\ handle \in [Goals -> {"unsent", "rejected"} \cup Live \cup Ended]
          /\ exec \in [Goals -> {"none", "requested", "rejected", "running", "succeeded",
                                "failed"}]
      BY <1>1
    <2>3. footprint \in [Costmaps -> Profiles] /\ zones \in Profiles
      BY <1>1
    <2>4. pc \in Steps /\ code \in Codes /\ healing \in Costmaps \cup {"no"}
      BY <1>1 DEF Steps, Codes
    <2>5. /\ queued \in Goals \cup {NoGoal} /\ worker \in Goals \cup {NoGoal}
          /\ want \in Profiles /\ previous \in Profiles /\ current \in Profiles
          /\ world \in Worlds
      BY <1>1
    <2>6. target \in Postures /\ arm \in Postures /\ joints \in Postures
      BY <1>1, <2>1
    <2>7. /\ busy \in BOOLEAN /\ stopping \in BOOLEAN /\ moved \in BOOLEAN
          /\ violated \in BOOLEAN /\ fresh \in BOOLEAN /\ abandoned \in BOOLEAN
          /\ reported \in {"fits", "violated", "unjudged"}
      BY <1>1
    <2> QED
      BY <2>2, <2>3, <2>4, <2>5, <2>6, <2>7 DEF TypeOK
  <1>2. ASSUME Init PROVE BusyInv /\ LockInv
    BY <1>2 DEF BusyInv, LockInv
  <1>3. ASSUME Init PROVE ExecInv /\ FitInv /\ PromptInv
    BY <1>3 DEF ExecInv, FitInv, PromptInv, Active, Asking, Moving, Arrived
  <1> QED
    BY <1>1, <1>2, <1>3 DEF ServerInv

LEMMA RequestInv ==
  ASSUME NEW g \in Goals, ServerInv, Request(g)
  PROVE  ServerInv'
  <1> USE Places, ServerConstants DEF Request, action, thread, nav, robot, history
  <1>1. TypeOK'
    <2>1. /\ handle' \in [Goals -> {"unsent", "rejected"} \cup Live \cup Ended]
          /\ busy' \in BOOLEAN /\ queued' \in Goals \cup {NoGoal}
      BY DEF ServerInv, TypeOK, Live, Ended
    <2>2. UNCHANGED <<stopping, thread, nav, healing, robot, world, history>>
      OBVIOUS
    <2> QED
      BY <2>1, <2>2 DEF ServerInv, TypeOK
  <1>2. BusyInv'
    BY DEF ServerInv, TypeOK, BusyInv, Live, Ended
  <1>3. LockInv'
    BY DEF ServerInv, TypeOK, BusyInv, LockInv
  <1>4. ExecInv'
    BY DEF ServerInv, TypeOK, BusyInv, ExecInv, Active, Asking, Moving, Arrived
  <1>5. FitInv'
    BY DEF ServerInv, TypeOK, BusyInv, ExecInv, FitInv, Active, Asking, Moving, Arrived
  <1>6. PromptInv'
    BY DEF ServerInv, TypeOK, BusyInv, ExecInv, FitInv, PromptInv, Active, Asking, Moving, Arrived
  <1> QED
    BY <1>1, <1>2, <1>3, <1>4, <1>5, <1>6 DEF ServerInv

LEMMA StartWorkerInv ==
  ASSUME NEW profile \in Profiles, ServerInv, StartWorker(profile)
  PROVE  ServerInv'
  <1> USE Places, ServerConstants DEF StartWorker, action, thread, nav, robot, history
  <1>1. TypeOK'
    BY DEF ServerInv, TypeOK, BusyInv, Live, Ended, Codes, Steps, Costmaps
  <1>2. BusyInv'
    BY DEF ServerInv, TypeOK, BusyInv, Live, Ended
  <1>3. LockInv'
    BY DEF ServerInv, TypeOK, BusyInv, LockInv
  <1>4. ExecInv'
    BY DEF ServerInv, TypeOK, BusyInv, ExecInv, Active, Asking, Moving, Arrived
  <1>5. FitInv'
    BY DEF ServerInv, TypeOK, BusyInv, ExecInv, FitInv, Active, Asking, Moving, Arrived
  <1>6. PromptInv'
    BY DEF ServerInv, TypeOK, BusyInv, ExecInv, FitInv, PromptInv, Active, Asking, Moving, Arrived
  <1> QED
    BY <1>1, <1>2, <1>3, <1>4, <1>5, <1>6 DEF ServerInv

LEMMA CancelInv ==
  ASSUME NEW g \in Goals, ServerInv, Cancel(g)
  PROVE  ServerInv'
  <1> USE Places, ServerConstants DEF Cancel, action, thread, nav, robot, history
  <1>1. TypeOK'
    BY DEF ServerInv, TypeOK, BusyInv, Live, Ended, Codes, Steps, Costmaps
  <1>2. BusyInv'
    BY DEF ServerInv, TypeOK, BusyInv, Live, Ended
  <1>3. LockInv'
    BY DEF ServerInv, TypeOK, BusyInv, LockInv
  <1>4. ExecInv'
    BY DEF ServerInv, TypeOK, BusyInv, ExecInv, Active, Asking, Moving, Arrived
  <1>5. FitInv'
    BY DEF ServerInv, TypeOK, BusyInv, ExecInv, FitInv, Active, Asking, Moving, Arrived
  <1>6. PromptInv'
    BY DEF ServerInv, TypeOK, BusyInv, ExecInv, FitInv, PromptInv, Active, Asking, Moving, Arrived
  <1> QED
    BY <1>1, <1>2, <1>3, <1>4, <1>5, <1>6 DEF ServerInv

LEMMA DestroyInv ==
  ASSUME ServerInv, Destroy
  PROVE  ServerInv'
  <1> USE Places, ServerConstants DEF Destroy, action, thread, nav, robot, history
  <1>1. TypeOK'
    BY DEF ServerInv, TypeOK, BusyInv, Live, Ended, Codes, Steps, Costmaps
  <1>2. BusyInv'
    BY DEF ServerInv, TypeOK, BusyInv, Live, Ended
  <1>3. LockInv'
    BY DEF ServerInv, TypeOK, BusyInv, LockInv
  <1>4. ExecInv'
    BY DEF ServerInv, TypeOK, BusyInv, ExecInv, Active, Asking, Moving, Arrived
  <1>5. FitInv'
    BY DEF ServerInv, TypeOK, BusyInv, ExecInv, FitInv, Active, Asking, Moving, Arrived
  <1>6. PromptInv'
    BY DEF ServerInv, TypeOK, BusyInv, ExecInv, FitInv, PromptInv, Active, Asking, Moving, Arrived
  <1> QED
    BY <1>1, <1>2, <1>3, <1>4, <1>5, <1>6 DEF ServerInv

LEMMA CheckInv ==
  ASSUME ServerInv, Check
  PROVE  ServerInv'
  <1> USE Places, ServerConstants DEF Check, Goto, Throw, Canceling, Unlocked, action, thread,
        nav, robot, history
  <1>1. TypeOK'
    BY DEF ServerInv, TypeOK, BusyInv, Live, Ended, Codes, Steps, Costmaps
  <1>2. BusyInv'
    BY DEF ServerInv, TypeOK, BusyInv, Live, Ended
  <1>3. LockInv'
    BY DEF ServerInv, TypeOK, BusyInv, LockInv
  <1>4. ExecInv'
    BY DEF ServerInv, TypeOK, BusyInv, ExecInv, Active, Asking, Moving, Arrived
  <1>5. FitInv'
    BY DEF ServerInv, TypeOK, BusyInv, ExecInv, FitInv, Active, Asking, Moving, Arrived
  <1>6. PromptInv'
    BY DEF ServerInv, TypeOK, BusyInv, ExecInv, FitInv, PromptInv, Active, Asking, Moving, Arrived
  <1> QED
    BY <1>1, <1>2, <1>3, <1>4, <1>5, <1>6 DEF ServerInv

LEMMA PlanInv ==
  ASSUME ServerInv, Plan
  PROVE  ServerInv'
  <1> USE Places, ServerConstants DEF Plan, Goto, Throw, Canceling, Unlocked, action, thread,
        nav, robot, history
  <1>1. TypeOK'
    BY DEF ServerInv, TypeOK, BusyInv, Live, Ended, Codes, Steps, Costmaps
  <1>2. BusyInv'
    BY DEF ServerInv, TypeOK, BusyInv, Live, Ended
  <1>3. LockInv'
    BY DEF ServerInv, TypeOK, BusyInv, LockInv
  <1>4. ExecInv'
    BY DEF ServerInv, TypeOK, BusyInv, ExecInv, Active, Asking, Moving, Arrived
  <1>5. FitInv'
    BY DEF ServerInv, TypeOK, BusyInv, ExecInv, FitInv, Active, Asking, Moving, Arrived
  <1>6. PromptInv'
    BY DEF ServerInv, TypeOK, BusyInv, ExecInv, FitInv, PromptInv, Active, Asking, Moving, Arrived
  <1> QED
    BY <1>1, <1>2, <1>3, <1>4, <1>5, <1>6 DEF ServerInv

LEMMA VerifyPlanInv ==
  ASSUME ServerInv, VerifyPlan
  PROVE  ServerInv'
  <1> USE Places, ServerConstants DEF VerifyPlan, Goto, Throw, Canceling, Unlocked, action,
        thread, nav, robot, history
  <1>1. TypeOK'
    BY DEF ServerInv, TypeOK, BusyInv, Live, Ended, Codes, Steps, Costmaps
  <1>2. BusyInv'
    BY DEF ServerInv, TypeOK, BusyInv, Live, Ended
  <1>3. LockInv'
    BY DEF ServerInv, TypeOK, BusyInv, LockInv
  <1>4. ExecInv'
    BY DEF ServerInv, TypeOK, BusyInv, ExecInv, Active, Asking, Moving, Arrived
  <1>5. FitInv'
    BY DEF ServerInv, TypeOK, BusyInv, ExecInv, FitInv, Active, Asking, Moving, Arrived
  <1>6. PromptInv'
    BY DEF ServerInv, TypeOK, BusyInv, ExecInv, FitInv, PromptInv, Active, Asking, Moving, Arrived
  <1> QED
    BY <1>1, <1>2, <1>3, <1>4, <1>5, <1>6 DEF ServerInv

LEMMA ExecuteInv ==
  ASSUME ServerInv, Execute
  PROVE  ServerInv'
  <1> USE Places, ServerConstants DEF Execute, Goto, Throw, Canceling, Unlocked, action,
        thread, nav, robot, history
  <1>1. TypeOK'
    BY DEF ServerInv, TypeOK, BusyInv, Live, Ended, Codes, Steps, Costmaps
  <1>2. BusyInv'
    BY DEF ServerInv, TypeOK, BusyInv, Live, Ended
  <1>3. LockInv'
    BY DEF ServerInv, TypeOK, BusyInv, LockInv
  <1>4. ExecInv'
    BY DEF ServerInv, TypeOK, BusyInv, ExecInv, Active, Asking, Moving, Arrived
  <1>5. FitInv'
    BY DEF ServerInv, TypeOK, BusyInv, ExecInv, FitInv, Active, Asking, Moving, Arrived
  <1>6. PromptInv'
    BY DEF ServerInv, TypeOK, BusyInv, ExecInv, FitInv, PromptInv, Active, Asking, Moving, Arrived
  <1> QED
    BY <1>1, <1>2, <1>3, <1>4, <1>5, <1>6 DEF ServerInv

LEMMA AwaitAcceptanceInv ==
  ASSUME ServerInv, AwaitAcceptance
  PROVE  ServerInv'
  <1> USE Places, ServerConstants DEF AwaitAcceptance, Goto, Throw, Canceling, Unlocked,
        action, thread, nav, robot, history
  <1>1. TypeOK'
    BY DEF ServerInv, TypeOK, BusyInv, Live, Ended, Codes, Steps, Costmaps
  <1>2. BusyInv'
    BY DEF ServerInv, TypeOK, BusyInv, Live, Ended
  <1>3. LockInv'
    BY DEF ServerInv, TypeOK, BusyInv, LockInv
  <1>4. ExecInv'
    BY DEF ServerInv, TypeOK, BusyInv, ExecInv, Active, Asking, Moving, Arrived
  <1>5. FitInv'
    BY DEF ServerInv, TypeOK, BusyInv, ExecInv, FitInv, Active, Asking, Moving, Arrived
  <1>6. PromptInv'
    BY DEF ServerInv, TypeOK, BusyInv, ExecInv, FitInv, PromptInv, Active, Asking, Moving, Arrived
  <1> QED
    BY <1>1, <1>2, <1>3, <1>4, <1>5, <1>6 DEF ServerInv

LEMMA AwaitExecutionInv ==
  ASSUME ServerInv, AwaitExecution
  PROVE  ServerInv'
  <1> USE Places, ServerConstants DEF AwaitExecution, Goto, Throw, Canceling, Unlocked,
        action, thread, nav, robot, history
  <1>1. TypeOK'
    <2>1. pc' \in Steps /\ code' \in Codes /\ fresh' \in BOOLEAN
      BY DEF ServerInv, TypeOK, Codes, Steps
    <2>2. UNCHANGED <<action, worker, want, target, previous, moved, violated, nav, healing,
                      exec, arm, joints, world, history>>
      OBVIOUS
    <2> QED
      BY <2>1, <2>2 DEF ServerInv, TypeOK
  <1>2. BusyInv'
    BY DEF ServerInv, TypeOK, BusyInv, Live, Ended
  <1>3. LockInv'
    BY DEF ServerInv, TypeOK, BusyInv, LockInv
  <1>4. ExecInv'
    BY DEF ServerInv, TypeOK, BusyInv, ExecInv, Active, Asking, Moving, Arrived
  <1>5. FitInv'
    BY DEF ServerInv, TypeOK, BusyInv, ExecInv, FitInv, Active, Asking, Moving, Arrived
  <1>6. PromptInv'
    BY DEF ServerInv, TypeOK, BusyInv, ExecInv, FitInv, PromptInv, Active, Asking, Moving, Arrived
  <1> QED
    BY <1>1, <1>2, <1>3, <1>4, <1>5, <1>6 DEF ServerInv

LEMMA StopExecutionInv ==
  ASSUME ServerInv, StopExecution
  PROVE  ServerInv'
  <1> USE Places, ServerConstants DEF StopExecution, Goto, Throw, Canceling, Unlocked, action,
        thread, nav, robot, history
  <1>1. TypeOK'
    BY DEF ServerInv, TypeOK, BusyInv, Live, Ended, Codes, Steps, Costmaps
  <1>2. BusyInv'
    BY DEF ServerInv, TypeOK, BusyInv, Live, Ended
  <1>3. LockInv'
    BY DEF ServerInv, TypeOK, BusyInv, LockInv
  <1>4. ExecInv'
    BY DEF ServerInv, TypeOK, BusyInv, ExecInv, Active, Asking, Moving, Arrived
  <1>5. FitInv'
    BY DEF ServerInv, TypeOK, BusyInv, ExecInv, FitInv, Active, Asking, Moving, Arrived
  <1>6. PromptInv'
    BY DEF ServerInv, TypeOK, BusyInv, ExecInv, FitInv, PromptInv, Active, Asking, Moving, Arrived
  <1> QED
    BY <1>1, <1>2, <1>3, <1>4, <1>5, <1>6 DEF ServerInv

LEMMA SettleInv ==
  ASSUME ServerInv, Settle
  PROVE  ServerInv'
  <1> USE Places, ServerConstants DEF Settle, Goto, Throw, Canceling, Unlocked, action,
        thread, nav, robot, history
  <1>1. TypeOK'
    BY DEF ServerInv, TypeOK, BusyInv, Live, Ended, Codes, Steps, Costmaps
  <1>2. BusyInv'
    BY DEF ServerInv, TypeOK, BusyInv, Live, Ended
  <1>3. LockInv'
    BY DEF ServerInv, TypeOK, BusyInv, LockInv
  <1>4. ExecInv'
    BY DEF ServerInv, TypeOK, BusyInv, ExecInv, Active, Asking, Moving, Arrived
  <1>5. FitInv'
    BY DEF ServerInv, TypeOK, BusyInv, ExecInv, FitInv, Active, Asking, Moving, Arrived
  <1>6. PromptInv'
    BY DEF ServerInv, TypeOK, BusyInv, ExecInv, FitInv, PromptInv, Active, Asking, Moving, Arrived
  <1> QED
    BY <1>1, <1>2, <1>3, <1>4, <1>5, <1>6 DEF ServerInv

LEMMA MeasureInv ==
  ASSUME ServerInv, Measure
  PROVE  ServerInv'
  <1> USE Places, ServerConstants DEF Measure, Goto, Throw, Canceling, Unlocked, action,
        thread, nav, robot, history
  <1>1. TypeOK'
    BY DEF ServerInv, TypeOK, BusyInv, Live, Ended, Codes, Steps, Costmaps
  <1>2. BusyInv'
    BY DEF ServerInv, TypeOK, BusyInv, Live, Ended
  <1>3. LockInv'
    BY DEF ServerInv, TypeOK, BusyInv, LockInv
  <1>4. ExecInv'
    BY DEF ServerInv, TypeOK, BusyInv, ExecInv, Active, Asking, Moving, Arrived
  <1>5. FitInv'
    BY DEF ServerInv, TypeOK, BusyInv, ExecInv, FitInv, Active, Asking, Moving, Arrived
  <1>6. PromptInv'
    BY DEF ServerInv, TypeOK, BusyInv, ExecInv, FitInv, PromptInv, Active, Asking, Moving, Arrived
  <1> QED
    BY <1>1, <1>2, <1>3, <1>4, <1>5, <1>6 DEF ServerInv

LEMMA SwitchInv ==
  ASSUME ServerInv, Switch
  PROVE  ServerInv'
  <1> USE Places, ServerConstants DEF Switch, Goto, Throw, Canceling, Unlocked, action,
        thread, nav, robot, history
  <1>1. TypeOK'
    BY DEF ServerInv, TypeOK, BusyInv, Live, Ended, Codes, Steps, Costmaps
  <1>2. BusyInv'
    BY DEF ServerInv, TypeOK, BusyInv, Live, Ended
  <1>3. LockInv'
    BY DEF ServerInv, TypeOK, BusyInv, LockInv
  <1>4. ExecInv'
    BY DEF ServerInv, TypeOK, BusyInv, ExecInv, Active, Asking, Moving, Arrived
  <1>5. FitInv'
    BY DEF ServerInv, TypeOK, BusyInv, ExecInv, FitInv, Active, Asking, Moving, Arrived
  <1>6. PromptInv'
    BY DEF ServerInv, TypeOK, BusyInv, ExecInv, FitInv, PromptInv, Active, Asking, Moving, Arrived
  <1> QED
    BY <1>1, <1>2, <1>3, <1>4, <1>5, <1>6 DEF ServerInv

LEMMA ApplyInv ==
  ASSUME ServerInv, Apply
  PROVE  ServerInv'
  <1> USE Places, ServerConstants DEF Apply, Unlocked, action, thread, nav, robot, history
  <1>1. TypeOK'
    BY DEF ServerInv, TypeOK, BusyInv, Live, Ended, Codes, Steps, Costmaps
  <1>2. BusyInv'
    BY DEF ServerInv, TypeOK, BusyInv, Live, Ended
  <1>3. LockInv'
    BY DEF ServerInv, TypeOK, BusyInv, LockInv
  <1>4. ExecInv'
    BY DEF ServerInv, TypeOK, BusyInv, ExecInv, Active, Asking, Moving, Arrived
  <1>5. FitInv'
    BY DEF ServerInv, TypeOK, BusyInv, ExecInv, FitInv, Active, Asking, Moving, Arrived
  <1>6. PromptInv'
    BY DEF ServerInv, TypeOK, BusyInv, ExecInv, FitInv, PromptInv, Active, Asking, Moving, Arrived
  <1> QED
    BY <1>1, <1>2, <1>3, <1>4, <1>5, <1>6 DEF ServerInv

LEMMA FinishInv ==
  ASSUME ServerInv, Finish
  PROVE  ServerInv'
  <1> USE Places, ServerConstants DEF Finish, Violated, Judgement, Unlocked, action, thread,
        nav, robot, history
  <1>1. TypeOK'
    BY DEF ServerInv, TypeOK, BusyInv, Live, Ended, Codes, Steps, Costmaps
  <1>2. BusyInv'
    BY DEF ServerInv, TypeOK, BusyInv, Live, Ended
  <1>3. LockInv'
    BY DEF ServerInv, TypeOK, BusyInv, LockInv
  <1>4. ExecInv'
    BY DEF ServerInv, TypeOK, BusyInv, ExecInv, Active, Asking, Moving, Arrived
  <1>5. FitInv'
    BY DEF ServerInv, TypeOK, BusyInv, ExecInv, FitInv, Active, Asking, Moving, Arrived
  <1>6. PromptInv'
    BY DEF ServerInv, TypeOK, BusyInv, ExecInv, FitInv, PromptInv, Active, Asking, Moving, Arrived
  <1> QED
    BY <1>1, <1>2, <1>3, <1>4, <1>5, <1>6 DEF ServerInv

LEMMA CatchExceptionInv ==
  ASSUME ServerInv, CatchException
  PROVE  ServerInv'
  <1> USE Places, ServerConstants DEF CatchException, action, thread, nav, robot, history
  <1>1. TypeOK'
    BY DEF ServerInv, TypeOK, BusyInv, Live, Ended, Codes, Steps, Costmaps
  <1>2. BusyInv'
    BY DEF ServerInv, TypeOK, BusyInv, Live, Ended
  <1>3. LockInv'
    BY DEF ServerInv, TypeOK, BusyInv, LockInv
  <1>4. ExecInv'
    BY DEF ServerInv, TypeOK, BusyInv, ExecInv, Active, Asking, Moving, Arrived
  <1>5. FitInv'
    BY DEF ServerInv, TypeOK, BusyInv, ExecInv, FitInv, Active, Asking, Moving, Arrived
  <1>6. PromptInv'
    BY DEF ServerInv, TypeOK, BusyInv, ExecInv, FitInv, PromptInv, Active, Asking, Moving, Arrived
  <1> QED
    BY <1>1, <1>2, <1>3, <1>4, <1>5, <1>6 DEF ServerInv

LEMMA FreeInv ==
  ASSUME ServerInv, Free
  PROVE  ServerInv'
  <1> USE Places, ServerConstants DEF Free, Goto, Outcome, action, thread, nav, robot, history
  <1>1. TypeOK'
    BY DEF ServerInv, TypeOK, BusyInv, Live, Ended, Codes, Steps, Costmaps
  <1>2. BusyInv'
    BY DEF ServerInv, TypeOK, BusyInv, Live, Ended
  <1>3. LockInv'
    BY DEF ServerInv, TypeOK, BusyInv, LockInv
  <1>4. ExecInv'
    BY DEF ServerInv, TypeOK, BusyInv, ExecInv, Active, Asking, Moving, Arrived
  <1>5. FitInv'
    BY DEF ServerInv, TypeOK, BusyInv, ExecInv, FitInv, Active, Asking, Moving, Arrived
  <1>6. PromptInv'
    BY DEF ServerInv, TypeOK, BusyInv, ExecInv, FitInv, PromptInv, Active, Asking, Moving, Arrived
  <1> QED
    BY <1>1, <1>2, <1>3, <1>4, <1>5, <1>6 DEF ServerInv

LEMMA ReportInv ==
  ASSUME ServerInv, Report
  PROVE  ServerInv'
  <1> USE Places, ServerConstants DEF Report, Goto, Outcome, action, thread, nav, robot, history
  <1>1. TypeOK'
    BY DEF ServerInv, TypeOK, BusyInv, Live, Ended, Codes, Steps, Costmaps
  <1>2. BusyInv'
    BY DEF ServerInv, TypeOK, BusyInv, Live, Ended
  <1>3. LockInv'
    BY DEF ServerInv, TypeOK, BusyInv, LockInv
  <1>4. ExecInv'
    BY DEF ServerInv, TypeOK, BusyInv, ExecInv, Active, Asking, Moving, Arrived
  <1>5. FitInv'
    BY DEF ServerInv, TypeOK, BusyInv, ExecInv, FitInv, Active, Asking, Moving, Arrived
  <1>6. PromptInv'
    BY DEF ServerInv, TypeOK, BusyInv, ExecInv, FitInv, PromptInv, Active, Asking, Moving, Arrived
  <1> QED
    BY <1>1, <1>2, <1>3, <1>4, <1>5, <1>6 DEF ServerInv

LEMMA JudgeInv ==
  ASSUME NEW c \in Costmaps, ServerInv, Judge(c)
  PROVE  ServerInv'
  <1> USE Places, ServerConstants DEF Judge, action, thread, nav, robot, history
  <1>1. TypeOK'
    BY DEF ServerInv, TypeOK, BusyInv, Live, Ended, Codes, Steps, Costmaps
  <1>2. BusyInv'
    BY DEF ServerInv, TypeOK, BusyInv, Live, Ended
  <1>3. LockInv'
    BY DEF ServerInv, TypeOK, BusyInv, LockInv
  <1>4. ExecInv'
    BY DEF ServerInv, TypeOK, BusyInv, ExecInv, Active, Asking, Moving, Arrived
  <1>5. FitInv'
    BY DEF ServerInv, TypeOK, BusyInv, ExecInv, FitInv, Active, Asking, Moving, Arrived
  <1>6. PromptInv'
    BY DEF ServerInv, TypeOK, BusyInv, ExecInv, FitInv, PromptInv, Active, Asking, Moving, Arrived
  <1> QED
    BY <1>1, <1>2, <1>3, <1>4, <1>5, <1>6 DEF ServerInv

LEMMA RepublishInv ==
  ASSUME ServerInv, Republish
  PROVE  ServerInv'
  <1> USE Places, ServerConstants DEF Republish, action, thread, nav, robot, history
  <1>1. TypeOK'
    BY DEF ServerInv, TypeOK, BusyInv, Live, Ended, Codes, Steps, Costmaps
  <1>2. BusyInv'
    BY DEF ServerInv, TypeOK, BusyInv, Live, Ended
  <1>3. LockInv'
    BY DEF ServerInv, TypeOK, BusyInv, LockInv
  <1>4. ExecInv'
    BY DEF ServerInv, TypeOK, BusyInv, ExecInv, Active, Asking, Moving, Arrived
  <1>5. FitInv'
    BY DEF ServerInv, TypeOK, BusyInv, ExecInv, FitInv, Active, Asking, Moving, Arrived
  <1>6. PromptInv'
    BY DEF ServerInv, TypeOK, BusyInv, ExecInv, FitInv, PromptInv, Active, Asking, Moving, Arrived
  <1> QED
    BY <1>1, <1>2, <1>3, <1>4, <1>5, <1>6 DEF ServerInv

LEMMA AcceptsInv ==
  ASSUME NEW g \in Goals, ServerInv, Accepts(g)
  PROVE  ServerInv'
  <1> USE Places, ServerConstants DEF Accepts, action, thread, nav, robot, history
  <1>1. TypeOK'
    BY DEF ServerInv, TypeOK, BusyInv, Live, Ended, Codes, Steps, Costmaps
  <1>2. BusyInv'
    BY DEF ServerInv, TypeOK, BusyInv, Live, Ended
  <1>3. LockInv'
    BY DEF ServerInv, TypeOK, BusyInv, LockInv
  <1>4. ExecInv'
    BY DEF ServerInv, TypeOK, BusyInv, ExecInv, Active, Asking, Moving, Arrived
  <1>5. FitInv'
    BY DEF ServerInv, TypeOK, BusyInv, ExecInv, FitInv, Active, Asking, Moving, Arrived
  <1>6. PromptInv'
    BY DEF ServerInv, TypeOK, BusyInv, ExecInv, FitInv, PromptInv, Active, Asking, Moving, Arrived
  <1> QED
    BY <1>1, <1>2, <1>3, <1>4, <1>5, <1>6 DEF ServerInv

LEMMA MovesInv ==
  ASSUME NEW g \in Goals, ServerInv, Moves(g)
  PROVE  ServerInv'
  <1> USE Places, ServerConstants DEF Moves, Moved, action, thread, nav, robot, history
  <1>1. TypeOK'
    BY DEF ServerInv, TypeOK, BusyInv, Live, Ended, Codes, Steps, Costmaps
  <1>2. BusyInv'
    BY DEF ServerInv, TypeOK, BusyInv, Live, Ended
  <1>3. LockInv'
    BY DEF ServerInv, TypeOK, BusyInv, LockInv
  <1>4. ExecInv'
    BY DEF ServerInv, TypeOK, BusyInv, ExecInv, Active, Asking, Moving, Arrived
  <1>5. FitInv'
    BY DEF ServerInv, TypeOK, BusyInv, ExecInv, FitInv, Active, Asking, Moving, Arrived
  <1>6. PromptInv'
    BY DEF ServerInv, TypeOK, BusyInv, ExecInv, FitInv, PromptInv, Active, Asking, Moving, Arrived
  <1> QED
    BY <1>1, <1>2, <1>3, <1>4, <1>5, <1>6 DEF ServerInv

LEMMA EndsInv ==
  ASSUME NEW g \in Goals, ServerInv, Ends(g)
  PROVE  ServerInv'
  <1> USE Places, ServerConstants DEF Ends, Moved, action, thread, nav, robot, history
  <1>1. TypeOK'
    BY DEF ServerInv, TypeOK, BusyInv, Live, Ended, Codes, Steps, Costmaps
  <1>2. BusyInv'
    BY DEF ServerInv, TypeOK, BusyInv, Live, Ended
  <1>3. LockInv'
    BY DEF ServerInv, TypeOK, BusyInv, LockInv
  <1>4. ExecInv'
    BY DEF ServerInv, TypeOK, BusyInv, ExecInv, Active, Asking, Moving, Arrived
  <1>5. FitInv'
    BY DEF ServerInv, TypeOK, BusyInv, ExecInv, FitInv, Active, Asking, Moving, Arrived
  <1>6. PromptInv'
    BY DEF ServerInv, TypeOK, BusyInv, ExecInv, FitInv, PromptInv, Active, Asking, Moving, Arrived
  <1> QED
    BY <1>1, <1>2, <1>3, <1>4, <1>5, <1>6 DEF ServerInv

LEMMA JointStateInv ==
  ASSUME ServerInv, JointState
  PROVE  ServerInv'
  <1> USE Places, ServerConstants DEF JointState, action, thread, nav, robot, history
  <1>1. TypeOK'
    BY DEF ServerInv, TypeOK, BusyInv, Live, Ended, Codes, Steps, Costmaps
  <1>2. BusyInv'
    BY DEF ServerInv, TypeOK, BusyInv, Live, Ended
  <1>3. LockInv'
    BY DEF ServerInv, TypeOK, BusyInv, LockInv
  <1>4. ExecInv'
    BY DEF ServerInv, TypeOK, BusyInv, ExecInv, Active, Asking, Moving, Arrived
  <1>5. FitInv'
    BY DEF ServerInv, TypeOK, BusyInv, ExecInv, FitInv, Active, Asking, Moving, Arrived
  <1>6. PromptInv'
    BY DEF ServerInv, TypeOK, BusyInv, ExecInv, FitInv, PromptInv, Active, Asking, Moving, Arrived
  <1> QED
    BY <1>1, <1>2, <1>3, <1>4, <1>5, <1>6 DEF ServerInv

LEMMA NextInv == ServerInv /\ [Next]_vars => ServerInv'
  <1> SUFFICES ASSUME ServerInv, [Next]_vars PROVE ServerInv'
    OBVIOUS
  <1>1. CASE \E g \in Goals : Request(g) \/ Cancel(g) \/ Accepts(g) \/ Moves(g) \/ Ends(g)
    BY <1>1, RequestInv, CancelInv, AcceptsInv, MovesInv, EndsInv
  <1>2. CASE \E profile \in Profiles : StartWorker(profile)
    BY <1>2, StartWorkerInv
  <1>3. CASE Destroy \/ Republish \/ JointState
    BY <1>3, DestroyInv, RepublishInv, JointStateInv
  <1>4. CASE Worker
    BY <1>4, CheckInv, PlanInv, VerifyPlanInv, ExecuteInv, AwaitAcceptanceInv,
       AwaitExecutionInv, StopExecutionInv, SettleInv, MeasureInv, SwitchInv, ApplyInv,
       FinishInv, CatchExceptionInv, FreeInv, ReportInv DEF Worker
  <1>5. CASE \E c \in Costmaps : Judge(c)
    BY <1>5, JudgeInv
  <1>6. CASE UNCHANGED vars
    BY <1>6 DEF vars, action, thread, nav, robot, history, ServerInv, TypeOK, BusyInv, LockInv,
       ExecInv, FitInv, PromptInv
  <1> QED
    BY <1>1, <1>2, <1>3, <1>4, <1>5, <1>6 DEF Next

LEMMA Invariant == Spec => []ServerInv
  BY InitInv, NextInv, PTL DEF Spec

-----------------------------------------------------------------------------
(***************************************************************************)
(* The theorems.                                                           *)
(***************************************************************************)

\* The goals, the thread, the footprints and the arm have their types in every
\* reachable state.
THEOREM TypeCorrect == Spec => []TypeOK
  <1>1. ServerInv => TypeOK
    BY DEF ServerInv
  <1> QED
    BY <1>1, Invariant, PTL

\* The two costmaps, the collision monitor's zones and the active profile agree in
\* every state but the one step that switches them, although the healing timer
\* publishes polygons of its own.
THEOREM OneFootprint == Spec => []FootprintsAgree
  <1>1. ServerInv => FootprintsAgree
    BY DEF ServerInv, LockInv, FootprintsAgree
  <1> QED
    BY <1>1, Invariant, PTL

\* What an idle server last answered is true of the arm: after a success it fits the
\* published footprint, busy_ is never left set, and with prompt answers the arm
\* rests and a posture outside the footprint was reported by the goal that led there,
\* unless that goal ended by an exception, which judges nothing.
THEOREM TrueResults == Spec => []ResultTellsTheArm
  <1>1. ServerInv => SuccessFits
    BY DEF ServerInv, FitInv, SuccessFits, Idle
  <1>2. ServerInv => FreeOnceReported
    BY Places DEF ServerInv, TypeOK, BusyInv, FreeOnceReported
  <1>3. ServerInv /\ ~world.late /\ ~world.lags =>
          (reported # "unjudged" => StrandedArmReported)
    BY DEF ServerInv, TypeOK, PromptInv, StrandedArmReported, Idle
  <1>4. ServerInv /\ ~world.late => ArmAtRestWhenIdle
    BY DEF ServerInv, ExecInv, ArmAtRestWhenIdle, Idle, Active, Moving
  <1>5. ServerInv => ResultTellsTheArm
    BY <1>1, <1>2, <1>3, <1>4 DEF ResultTellsTheArm
  <1> QED
    BY <1>5, Invariant, PTL

\* MoveIt holds a trajectory of at most one goal, the one the thread waits for, until
\* the server gives an execution up: a second goal never moves the arm against the
\* first.
OneTrajectory ==
  ~abandoned => \A g, h \in Goals : exec[g] \in Active /\ exec[h] \in Active => g = h

\* No two goals' trajectories are open at once unless one was given up at a deadline;
\* with a MoveIt that answers in time that never happens.
THEOREM NoRivalTrajectories == Spec => [](OneTrajectory /\ (~world.late => ~abandoned))
  <1>1. ServerInv => OneTrajectory /\ (~world.late => ~abandoned)
    BY DEF ServerInv, ExecInv, OneTrajectory
  <1> QED
    BY <1>1, Invariant, PTL

=============================================================================

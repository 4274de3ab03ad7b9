----------------------------- MODULE ArmRecovery -----------------------------
(***************************************************************************)
(* The arm's hardware interface (unity_arm_system.cpp), the controller     *)
(* manager that runs it (external) and arm_recovery_supervisor.cpp, which  *)
(* brings the arm back after a pause of Unity's feedback.                  *)
(*                                                                         *)
(* Stamps are kept relative: what matters of Unity's current stamp is      *)
(* whether it is newer than, the same as or older than the last one a      *)
(* receiver accepted. Ages are in ticks, capped where they stop to matter. *)
(***************************************************************************)
EXTENDS Naturals

CONSTANTS
  Timeout,        \* state_timeout of the hardware, ticks
  MaxGap,         \* FeedbackFreshness::max_gap_s_
  FreshFor,       \* FeedbackFreshness::fresh_for_s_
  Retry,          \* retry_s
  ActivationWait, \* on_activate waits this long for a state
  Faults          \* what may go wrong in the manager's answers

ASSUME RecoveryAssumption ==
  /\ {Timeout, MaxGap, FreshFor, Retry, ActivationWait} \subseteq Nat \ {0}
  /\ Faults \subseteq {"refuses", "loses"}

VARIABLES
  hw,         \* UnityArmSystem's members
  fresh,      \* FeedbackFreshness's members, with the stamp's relation
  sup,        \* the supervisor: where its request is, what it saw, last_attempt_
  component,  \* the manager's state of the hardware component
  ctrl,       \* the arm's controllers are active
  waited,     \* ticks on_activate has waited, counting from 1
  box,        \* an undelivered /arm/state message per receiver, depth 1
  whole,      \* the newest message names six finite joints
  smooth,     \* Unity plays, messages and loops keep up with the ticks
  sent,       \* Unity has published in this tick
  faults      \* what goes wrong in the manager in this behaviour

vars == <<hw, fresh, sup, component, ctrl, waited, box, whole, smooth, sent, faults>>

Relations == {"newer", "same", "older"}
Receivers == {"hardware", "supervisor"}
Phases == {"idle", "list", "listed", "set", "refused", "switch", "switched", "lost"}
Capped(n, cap) == IF n < cap THEN n ELSE cap
NoState == MaxGap + 1

Init ==
  /\ hw = [active |-> FALSE, claimed |-> FALSE, fault |-> FALSE, have |-> FALSE,
           age |-> Timeout, rel |-> "newer", cmd |-> "newer"]
  /\ fresh = [last |-> NoState, have |-> FALSE, run |-> FALSE, since |-> 0, rel |-> "newer"]
  /\ sup = [phase |-> "idle", seen |-> "inactive", since |-> Retry]
  /\ component = "inactive" /\ ctrl = FALSE /\ waited = 0
  /\ box = [r \in Receivers |-> FALSE] /\ whole = TRUE
  /\ smooth = FALSE /\ sent = FALSE
  /\ faults \in {{}, Faults}

-----------------------------------------------------------------------------
\* Unity (external) publishes /arm/state and /clock. A step of the simulation
\* moves the stamp on; a paused one repeats it; a new Play starts over at zero.
Advanced(rel) == IF rel = "older" THEN {"older", "newer"} ELSE {"newer"}

Publish(kind, complete) ==
  /\ smooth => kind = "step" /\ complete /\ ~sent
  /\ \E h \in Advanced(hw.rel), f \in Advanced(fresh.rel), c \in Advanced(hw.cmd) :
       LET To(rel, next) == CASE kind = "step" -> next
                              [] kind = "repeat" -> rel
                              [] kind = "restart" -> "older"
       IN /\ hw' = [hw EXCEPT !.rel = IF hw.have THEN To(@, h) ELSE @,
                              !.cmd = IF hw.active THEN To(@, c) ELSE @]
          /\ fresh' = [fresh EXCEPT !.rel = IF fresh.have THEN To(@, f) ELSE @]
  /\ box' = [r \in Receivers |-> TRUE] /\ whole' = complete /\ sent' = smooth
  /\ UNCHANGED <<sup, component, ctrl, waited, smooth, faults>>

\* Pauses and lags come at any time, until they end.
Calm ==
  /\ ~smooth /\ smooth' = TRUE
  /\ UNCHANGED <<hw, fresh, sup, component, ctrl, waited, box, whole, sent, faults>>

\* Wall time. While everything is smooth no tick passes without a message, and
\* none before it was received.
Tick ==
  /\ smooth => sent /\ box = [r \in Receivers |-> FALSE]
  /\ waited <= ActivationWait
  /\ hw' = [hw EXCEPT !.age = Capped(@ + 1, Timeout)]
  /\ fresh' = [fresh EXCEPT !.last = Capped(@ + 1, NoState),
                            !.since = IF fresh.run THEN Capped(@ + 1, FreshFor) ELSE 0]
  /\ sup' = [sup EXCEPT !.since = Capped(@ + 1, Retry)]
  /\ waited' = IF waited > 0 THEN waited + 1 ELSE 0
  /\ sent' = FALSE
  /\ UNCHANGED <<component, ctrl, box, whole, smooth, faults>>

-----------------------------------------------------------------------------
\* The hardware interface.
Fresh(h) == ~h.fault /\ h.have /\ h.age < Timeout

\* The subscription, run by spin_some: an incomplete packet throws and is
\* ignored, a stamp that went back is a new simulation epoch.
Received(h) ==
  IF ~box["hardware"] \/ ~whole \/ h.rel = "same" THEN h
  ELSE IF h.rel = "older" THEN [h EXCEPT !.fault = TRUE]
  ELSE [h EXCEPT !.rel = "same", !.age = 0, !.have = TRUE]

\* on_activate, called by the manager on the supervisor's request: it spins
\* until a state is fresh, or the wait is over. cq_ is set to q_.
OnActivate ==
  /\ sup.phase = "set"
  /\ LET spins == ~hw.fault /\ ~Fresh(hw)
         h == IF spins THEN Received(hw) ELSE hw
     IN /\ box' = IF spins THEN [box EXCEPT !["hardware"] = FALSE] ELSE box
        /\ IF Fresh(h)
           THEN /\ hw' = [h EXCEPT !.active = TRUE, !.cmd = "newer"]
                /\ component' = "active" /\ waited' = 0
                /\ sup' = [sup EXCEPT !.phase = "switch"]
           ELSE LET ends == hw.fault \/ waited > ActivationWait
                IN /\ hw' = h /\ UNCHANGED component
                   /\ sup' = IF ends THEN [sup EXCEPT !.phase = "refused"] ELSE sup
                   /\ waited' = IF ends THEN 0 ELSE IF waited = 0 THEN 1 ELSE waited
  /\ whole' = (whole \/ ~box'["hardware"])
  /\ UNCHANGED <<fresh, ctrl, smooth, sent, faults>>

\* read: what it spins in, and whether it reports an error.
\* far is a state stamp further than the timeout from the manager's clock.
Stale(h, far) == ~h.have \/ h.age >= Timeout \/ far
ReadFails(h, far) == h.active /\ (h.fault \/ Stale(h, far))

\* The manager (external) deactivates the component and its controllers on an
\* error; whether that runs on_deactivate depends on its version.
Deactivated(h, calls) ==
  IF calls THEN [h EXCEPT !.active = FALSE, !.claimed = FALSE] ELSE h

\* perform_command_mode_switch, in the manager's cycle between read and write.
Switched(h, asked) == IF asked THEN [h EXCEPT !.claimed = TRUE] ELSE h

\* Mutant: an arm that no controller claims is commanded.
WriteSendsUnclaimed(h) == h.active /\ Fresh(h) /\ h.cmd = "newer"
WriteSends(h) == h.active /\ h.claimed /\ Fresh(h) /\ h.cmd = "newer"
\* Mutant: an invalid command leaves the arm claimed.
WrittenKeepingClaim(h, valid) ==
  IF ~WriteSends(h) THEN h
  ELSE IF valid THEN [h EXCEPT !.cmd = "same"] ELSE [h EXCEPT !.fault = TRUE]
Written(h, valid) ==
  IF ~WriteSends(h) THEN h
  ELSE IF valid THEN [h EXCEPT !.cmd = "same"]
  ELSE [h EXCEPT !.fault = TRUE, !.claimed = FALSE]

\* One cycle of the controller manager: read, the pending switch, write.
\* answers: the switch is answered in this cycle; refuses: without success.
Cycle(far, valid, answers, refuses, calls) ==
  /\ waited = 0
  /\ smooth => ~far
  /\ answers => sup.phase = "switch"
  /\ refuses => answers /\ "refuses" \in faults
  /\ LET h == Received(hw)
         failed == ReadFails(h, far)
         ok == answers /\ ~refuses /\ ~failed /\ component = "active"
         w == Written(Switched(h, ok), valid)
         error == failed \/ (w.fault /\ ~h.fault)
     IN /\ hw' = IF failed THEN Deactivated([h EXCEPT !.claimed = FALSE], calls)
                 ELSE IF error THEN Deactivated(w, calls) ELSE w
        /\ component' = IF error THEN "inactive" ELSE component
        /\ ctrl' = ((ctrl \/ ok) /\ ~error)
        /\ sup' = IF answers THEN [sup EXCEPT !.phase = "switched"] ELSE sup
  /\ box' = [box EXCEPT !["hardware"] = FALSE] /\ whole' = TRUE
  /\ UNCHANGED <<fresh, waited, smooth, sent, faults>>

-----------------------------------------------------------------------------
\* The supervisor, on an executor of its own.

\* FeedbackFreshness::on_state: a repeat, a regression or a gap restarts the window.
OnState ==
  /\ box["supervisor"]
  /\ fresh' = IF fresh.rel = "newer"
              THEN [last |-> 0, have |-> TRUE, run |-> TRUE, rel |-> "same",
                    since |-> IF fresh.last > MaxGap THEN 0 ELSE fresh.since]
              ELSE [fresh EXCEPT !.last = 0, !.run = FALSE, !.since = 0]
  /\ box' = [box EXCEPT !["supervisor"] = FALSE]
  /\ UNCHANGED <<hw, sup, component, ctrl, waited, whole, smooth, sent, faults>>

FeedbackFresh == fresh.last < MaxGap /\ fresh.run /\ fresh.since >= FreshFor

\* The wall timer: one round at a time.
SupervisorTick ==
  /\ sup.phase = "idle"
  /\ sup' = [sup EXCEPT !.phase = "list"]
  /\ UNCHANGED <<hw, fresh, component, ctrl, waited, box, whole, smooth, sent, faults>>

\* The manager (external) answers with the state the component has now.
AnswerList ==
  /\ sup.phase = "list" /\ waited = 0
  /\ sup' = [sup EXCEPT !.phase = "listed", !.seen = component]
  /\ UNCHANGED <<hw, fresh, component, ctrl, waited, box, whole, smooth, sent, faults>>

\* The answer is handled later, and the component may have changed since.
OnList ==
  /\ sup.phase = "listed"
  /\ sup' = IF sup.seen = "active" \/ ~FeedbackFresh \/ sup.since < Retry
            THEN [sup EXCEPT !.phase = "idle", !.seen = "inactive"]
            ELSE [sup EXCEPT !.phase = "set", !.seen = "inactive", !.since = 0]
  /\ UNCHANGED <<hw, fresh, component, ctrl, waited, box, whole, smooth, sent, faults>>

\* Mutant: a refused activation leaves the round open.
EndRoundAfterSwitch ==
  /\ sup.phase = "switched"
  /\ sup' = [sup EXCEPT !.phase = "idle"]
  /\ UNCHANGED <<hw, fresh, component, ctrl, waited, box, whole, smooth, sent, faults>>

\* on_set with a refusal, and on_switch whatever the answer: the round ends.
\* (on_set with a success sends the switch request: OnActivate's "switch".)
EndRound ==
  /\ sup.phase \in {"refused", "switched"}
  /\ sup' = [sup EXCEPT !.phase = "idle"]
  /\ UNCHANGED <<hw, fresh, component, ctrl, waited, box, whole, smooth, sent, faults>>

\* A response that never arrives: nothing times the request out.
LoseResponse ==
  /\ "loses" \in faults /\ sup.phase \in {"list", "switch"} /\ waited = 0
  /\ sup' = [sup EXCEPT !.phase = "lost"]
  /\ UNCHANGED <<hw, fresh, component, ctrl, waited, box, whole, smooth, sent, faults>>

-----------------------------------------------------------------------------
AnyCycle ==
  \E far, valid, answers, refuses, calls \in BOOLEAN :
    Cycle(far, valid, answers, refuses, calls)

Next ==
  \/ \E kind \in {"step", "repeat", "restart"}, complete \in BOOLEAN : Publish(kind, complete)
  \/ Calm
  \/ Tick
  \/ OnActivate
  \/ AnyCycle
  \/ OnState
  \/ SupervisorTick
  \/ AnswerList
  \/ OnList
  \/ EndRound
  \/ LoseResponse

Spec == Init /\ [][Next]_vars

\* The executors, the manager's loop and the timer keep running, a request that
\* is not lost is answered, wall time passes, and a simulation that runs
\* passes every stamp it has shown before.
Fairness ==
  /\ WF_vars(Tick) /\ WF_vars(OnState) /\ WF_vars(OnActivate)
  /\ WF_vars(Publish("step", TRUE)) /\ SF_vars(Publish("step", TRUE) /\ fresh'.rel = "newer")
  /\ WF_vars(SupervisorTick) /\ WF_vars(AnswerList) /\ WF_vars(OnList) /\ WF_vars(EndRound)
  /\ WF_vars(AnyCycle) /\ SF_vars(\E calls, valid \in BOOLEAN : Cycle(FALSE, valid, TRUE, FALSE, calls))

FairSpec == Spec /\ Fairness

-----------------------------------------------------------------------------
\* Every variable keeps its range.
TypeOK ==
  /\ hw \in [active : BOOLEAN, claimed : BOOLEAN, fault : BOOLEAN, have : BOOLEAN,
             age : 0..Timeout, rel : Relations, cmd : Relations]
  /\ fresh \in [last : 0..NoState, have : BOOLEAN, run : BOOLEAN, since : 0..FreshFor,
                rel : Relations]
  /\ sup \in [phase : Phases, seen : {"active", "inactive"}, since : 0..Retry]
  /\ component \in {"active", "inactive"} /\ ctrl \in BOOLEAN
  /\ waited \in 0..ActivationWait + 1
  /\ box \in [Receivers -> BOOLEAN] /\ {whole, smooth, sent} \subseteq BOOLEAN
  /\ faults \subseteq Faults

\* A new simulation epoch or an invalid command stops the arm, wherever the
\* fault was noticed: in a cycle's spin, in an activation, in a write.
FaultedArmStopped == hw.fault => component = "inactive" /\ ~ctrl /\ ~hw.claimed

\* A command goes out only while the arm's controllers are active and the
\* component is, and controllers claim the arm only at a state that is not
\* stale: no command of before a pause is sent after it.
CommandsSent == hw.cmd = "newer" /\ hw'.cmd = "same"
CommandsFollowControllers ==
  [][ /\ CommandsSent => ctrl' /\ component' = "active"
      /\ hw'.claimed /\ ~hw.claimed => Fresh(hw') ]_vars

\* "re-activates the hardware from the actual joint positions, then the
\* controllers, once fresh feedback with advancing stamps has flowed"
\* (docs/unity-arm-controller.md), when the manager does what it is asked.
Recovered == <>[](hw.fault \/ ctrl)
ArmRecovers == faults = {} /\ <>[]smooth => Recovered

\* The same with a manager that may refuse to switch the controllers.
RecoversAfterRefusal == "loses" \notin faults /\ <>[]smooth => Recovered
=============================================================================

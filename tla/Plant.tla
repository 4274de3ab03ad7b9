------------------------------- MODULE Plant -------------------------------
(* The MuJoCo plant a campaign drives: mobile_manipulator_plant/plant.cpp   *)
(* with its base drive, delay queues, JTC sampler and movers, and the two   *)
(* drivers of the campaign package: MujocoPlant with its arm command path   *)
(* (a closed loop steps it once per cycle) and the replay of a recording.   *)
(* Time is counted in physics steps, the base is its position and speed     *)
(* along the path, the arm is one joint; the angular half of a twist obeys  *)
(* the same code as the linear half.                                        *)
EXTENDS Integers, Sequences

CONSTANTS
  CycleSteps,          \* physics steps of one closed-loop cycle
  BaseDelay, ArmDelay, BaseStateDelay, ArmStateDelay,  \* profile: delays, in physics steps
  StaleSteps,          \* limits.stale_s
  Accel, Decel, SpeedMax, WheelMax,  \* limits and wheel saturation
  Breakaway, Rest,                   \* breakaway_linear_mps, rest_linear_mps
  JtcPeriod, QMax, QDMax,            \* JTC period, upper joint limit (lower 0), joint speed
  Reanchor,       \* kReanchorRad
  MoverSpeed, Length, Crossings, MoverStart, Trigger, StandOff,
  Speeds, JointSpeeds,   \* commands the drivers give
  Modes, Drivers, MaxTime

VARIABLES
  mode, driver,
  now, todo,     \* steps_, and the substeps left of the running step()
  cmd,           \* PlantCommand: stamp, v, arm
  heard,         \* when the driver last had a new base command
  baseQ, targetQ, stateQ, armQ,   \* base_commands_, arm_targets_, base_states_, arm_states_
  base,          \* position, executed or measured speed
  drive,         \* limited_ and output_
  arm,           \* measured joint, q_ref_
  jtc,           \* started_, first_tick_, ticks_, held_
  state,         \* state_: what the caller reads
  mover,         \* MoverMotion: walked_, trigger_time_, previous_time_, position_, blocked_s_
  path           \* ArmCommandPath: sent_, sent_at_, held_, reanchored_, and the state b5_state gives

vars == <<mode, driver, now, todo, cmd, heard, baseQ, targetQ, stateQ, armQ, base, drive, arm,
          jtc, state, mover, path>>

\* load_profile: delays are not negative, limits and rates are positive.
Parameters ==
  /\ {BaseDelay, ArmDelay, BaseStateDelay, ArmStateDelay} \subseteq Nat
  /\ {StaleSteps, Accel, Decel, SpeedMax, WheelMax, JtcPeriod} \subseteq Nat \ {0}

Abs(a) == IF a < 0 THEN -a ELSE a
Clamp(a, lo, hi) == IF a < lo THEN lo ELSE IF a > hi THEN hi ELSE a
Least(a, b) == IF a < b THEN a ELSE b
Inside(q) == Clamp(q, 0, QMax)   \* the joint's limits
Nothing == <<>>

(* A reference stream: its points are one physics step apart, so that       *)
(* sampling it at a step is a lookup; past its end it holds its last point. *)
Stream(start, points) == [start |-> start, points |-> points]
SampleQ(r, t) == r.points[Clamp(t - r.start, 0, Len(r.points) - 1) + 1]
SampleV(r, t) == IF t - r.start >= Len(r.points) - 1 THEN 0
                 ELSE LET i == Clamp(t - r.start, 0, Len(r.points) - 2) + 1
                      IN r.points[i + 1] - r.points[i]

(* DelayQueue: entries are due, value; the latest due one is current.       *)
Push(q, due, value) == Append(q, [due |-> due, value |-> value])
DueAt(q, t) == {i \in DOMAIN q : q[i].due <= t}
Drained(q, t) == IF DueAt(q, t) = {} THEN q ELSE SubSeq(q, CHOOSE i \in DueAt(q, t) : \A j \in DueAt(q, t) : j <= i, Len(q))
At(q, t, default) == IF DueAt(q, t) = {} THEN default ELSE Drained(q, t)[1].value

---------------------------------------------------------------------------
(* The base drive.                                                          *)
Toward(from, to, step) == IF from < to THEN Least(to, from + step) ELSE -Least(-to, step - from)
RateLimit(current, to) ==
  IF current # 0 /\ (to = 0 \/ (to < 0) # (current < 0)) THEN Toward(current, 0, Decel)
  ELSE Toward(current, to, IF Abs(to) > Abs(current) THEN Accel ELSE Decel)

\* Mutant: commands are obeyed however old they are.
WantedWithoutWatchdog(command, age) == Clamp(command, -SpeedMax, SpeedMax)
Wanted(command, age) == IF age > StaleSteps THEN 0 ELSE Clamp(command, -SpeedMax, SpeedMax)
Saturated(u) == Clamp(u, -WheelMax, WheelMax)
BelowBreakaway(output, u) == Abs(output) < Rest /\ Abs(u) < Breakaway
DriveStep(command, age) ==
  LET limited == RateLimit(drive.limited, Wanted(command, age))
      u == Saturated(limited)
  IN [limited |-> limited, output |-> IF BelowBreakaway(drive.output, u) THEN 0 ELSE u]

---------------------------------------------------------------------------
(* Movers cross their segment back and forth once the robot is near, and    *)
(* stand while the robot is within the stand-off of where they would go.    *)
PositionAt(walked) ==
  LET leg == Least(walked \div Length, Crossings - 1)
      along == walked - leg * Length
  IN MoverStart + (IF leg % 2 = 1 THEN Length - along ELSE along)
Walked(m, t) == Least(m.walked + MoverSpeed * (t - m.prev), Crossings * Length)
Near(at, robot) == Abs(at - robot) < StandOff
UpdateMover(m, t, robot) ==
  LET triggered == m.triggered \/ Abs(2 * robot - 2 * MoverStart - Length) <= 2 * Trigger
      from == IF triggered = m.triggered THEN m ELSE [m EXCEPT !.prev = t, !.triggered = TRUE]
      next == IF triggered THEN PositionAt(Walked(from, t)) ELSE m.at
  IN IF ~triggered THEN [m EXCEPT !.prev = t]
     ELSE IF next # m.at /\ Near(next, robot)
     THEN [from EXCEPT !.prev = t,
                       !.blocked = IF m.walked < Crossings * Length THEN @ + t - from.prev ELSE @]
     ELSE [from EXCEPT !.prev = t, !.walked = Walked(from, t), !.at = next]

---------------------------------------------------------------------------
(* The measured state, and what the caller reads of it: the base and the    *)
(* arm their delays ago, the arm reference as it is now.                    *)
Measured(b, a) == [x |-> b.x, v |-> b.v, q |-> a.q]
Reported(bq, aq, a, truth, t) ==
  IF mode = "ideal" THEN [x |-> truth.x, v |-> truth.v, q |-> truth.q, qref |-> truth.q]
  ELSE LET bs == At(bq, t, truth) IN [x |-> bs.x, v |-> bs.v, q |-> At(aq, t, truth).q, qref |-> a.ref]

BaseAtRest == Abs(IF mode = "realistic" THEN state.v ELSE base.v) < Rest

(* ArmCommandPath: the reference the controller sees and the streams sent.  *)
B5State(p, q, t) ==
  IF p.sent = Nothing THEN [p EXCEPT !.reanchored = FALSE, !.q = q, !.v = 0]
  ELSE LET ref == SampleQ(p.sent[1], t) IN
       [p EXCEPT !.v = Clamp(SampleV(p.sent[1], t), -QDMax, QDMax),
                 !.reanchored = Abs(ref - q) > Reanchor,
                 !.q = IF Abs(ref - q) > Reanchor THEN q ELSE ref]

(* stream: the plan's points from the state the controller was given, then  *)
(* a braking tail that ends at rest.                                        *)
PlanStream(t, u) ==
  Stream(t, <<Inside(path.q)>> \o [k \in 1..CycleSteps |-> Inside(path.q + k * u)]
              \o <<Inside(path.q + CycleSteps * u + u \div 2)>>)
(* hold_arm: from the reference now, a stop that the obstacle check may     *)
(* shorten.                                                                 *)
HoldStreams(t) ==
  LET v == path.v IN {Stream(t, <<path.q, Inside(path.q + d), Inside(path.q + d)>>) :
                        d \in {0, v \div 2, v} }

Init ==
  /\ mode \in Modes /\ driver \in Drivers /\ (mode = "ideal" => driver = "loop")
  /\ now = 0 /\ todo = 0 /\ heard = 0
  /\ cmd = [stamp |-> 0, v |-> 0, arm |-> Nothing]
  /\ base = [x |-> 0, v |-> 0] /\ drive = [limited |-> 0, output |-> 0]
  /\ \E q \in 0..QMax : arm = [q |-> q, ref |-> q]
  /\ baseQ = <<>> /\ targetQ = <<>>
  /\ stateQ = Push(<<>>, 0, Measured(base, arm)) /\ armQ = stateQ
  /\ jtc = [started |-> FALSE, tick |-> 0, held |-> arm.ref]
  /\ state = [x |-> 0, v |-> 0, q |-> arm.q, qref |-> arm.q]
  /\ mover = [walked |-> 0, triggered |-> FALSE, prev |-> 0, at |-> MoverStart, blocked |-> 0]
  /\ path = [sent |-> Nothing, held |-> FALSE, reanchored |-> FALSE, q |-> arm.q, v |-> 0]

(* Plant::step: a command is pushed on each queue, and the substeps run.    *)
Begin(v, stamp, stream, substeps) ==
  /\ todo = 0 /\ now + substeps <= MaxTime
  /\ todo' = substeps
  /\ cmd' = [stamp |-> stamp, arm |-> stream,
             v |-> IF mode = "ideal" /\ BaseAtRest /\ Abs(v) < Breakaway THEN 0 ELSE v]
  /\ baseQ' = IF mode = "ideal" THEN baseQ
              ELSE Push(baseQ, now + BaseDelay, [stamp |-> stamp, v |-> v])
  /\ UNCHANGED <<mode, driver, now, base, drive, arm, jtc, state, mover, targetQ, stateQ, armQ>>

(* MujocoPlant::step with the cycle's command: a plan is streamed, a stop   *)
(* sends one hold, a failed cycle sends nothing.                            *)
Streamed(u) ==
  /\ driver = "loop"
  /\ \E v \in Speeds :
       /\ Begin(v, now, IF mode = "ideal" THEN <<Stream(now, <<arm.q, arm.q + u>>)>>
                        ELSE <<PlanStream(now, u)>>, CycleSteps)
       /\ path' = IF mode = "ideal" THEN path
                  ELSE [path EXCEPT !.sent = <<PlanStream(now, u)>>, !.held = FALSE]
  /\ heard' = now
Held ==
  /\ driver = "loop" /\ mode = "realistic"
  /\ IF path.held THEN Begin(0, now, cmd.arm, CycleSteps) /\ UNCHANGED path
     ELSE \E s \in HoldStreams(now) :
            /\ Begin(0, now, <<s>>, CycleSteps)
            /\ path' = [path EXCEPT !.sent = <<s>>, !.held = TRUE]
  /\ heard' = now
NothingSent ==
  /\ driver = "loop" /\ mode = "realistic"
  /\ Begin(0, now, cmd.arm, CycleSteps) /\ heard' = now /\ UNCHANGED path

(* replay: the recorded command and stream due by now, if any; either one   *)
(* renews the command's stamp.                                              *)
ReplayStamp(newBase, newArm) == IF newBase \/ newArm \/ now = 0 THEN now ELSE cmd.stamp
Replayed ==
  /\ driver = "replay"
  /\ \E newBase, newArm \in BOOLEAN :
       /\ \E v \in (IF newBase THEN Speeds ELSE {cmd.v}),
             s \in (IF newArm THEN {<<Stream(now, <<state.qref, Inside(state.qref + u)>>)>> : u \in JointSpeeds}
                    ELSE {cmd.arm}) :
            Begin(v, ReplayStamp(newBase, newArm), s, 1)
       /\ heard' = IF newBase \/ now = 0 THEN now ELSE heard
  /\ UNCHANGED path

---------------------------------------------------------------------------
(* One physics step of the realistic mode.                                  *)
BaseCommand == At(baseQ, now, [stamp |-> now - BaseDelay, v |-> 0])
Age == now - (BaseCommand.stamp + BaseDelay)
JtcDue == ~jtc.started \/ now >= jtc.tick + JtcPeriod
JtcStep == IF cmd.arm = Nothing \/ ~JtcDue THEN jtc
           ELSE [started |-> TRUE, tick |-> now, held |-> SampleQ(cmd.arm[1], now)]
(* mj_step: the arm tracks its drives' targets, or is stopped short of them.*)
Tracked(target) == {target, arm.q}

FinishSubstep(b, a, bq, aq) ==
  LET t == now + 1
      truth == Measured(b, a)
  IN /\ now' = t /\ todo' = todo - 1 /\ base' = b /\ arm' = a
     /\ mover' = UpdateMover(mover, t, b.x)
     /\ state' = IF todo = 1 THEN Reported(bq, aq, a, truth, t) ELSE state
     /\ path' = IF todo = 1 /\ driver = "loop" /\ mode = "realistic"
                THEN B5State(path, Reported(bq, aq, a, truth, t).q, t) ELSE path
     /\ UNCHANGED <<mode, driver, cmd, heard>>

RealisticSubstep ==
  /\ mode = "realistic" /\ todo > 0
  /\ drive' = DriveStep(BaseCommand.v, Age)
  /\ jtc' = JtcStep
  /\ LET t == now + 1
         ref == IF cmd.arm = Nothing THEN arm.ref ELSE JtcStep.held
         pushed == Push(targetQ, now + ArmDelay, ref)
         b == [x |-> base.x + drive'.output, v |-> drive'.output]
     IN \E q \in Tracked(At(pushed, now, arm.q)) :
          LET a == [q |-> q, ref |-> ref]
              truth == Measured(b, a)
              bq == Push(stateQ, t + BaseStateDelay, truth)
              aq == Push(armQ, t + ArmStateDelay, truth)
          IN /\ targetQ' = Drained(pushed, now)
             /\ stateQ' = Drained(bq, t) /\ armQ' = Drained(aq, t)
             /\ FinishSubstep(b, a, bq, aq)
  /\ baseQ' = Drained(baseQ, now)

(* One physics step of the ideal mode: the twist and the joint velocities   *)
(* are executed as they are, the joints stopped at their limits.            *)
IdealSubstep ==
  /\ mode = "ideal" /\ todo > 0
  /\ LET u == cmd.arm[1].points[2] - cmd.arm[1].points[1]
         q == Inside(arm.q + u)
     IN FinishSubstep([x |-> base.x + cmd.v, v |-> cmd.v], [q |-> q, ref |-> q], stateQ, armQ)
  /\ UNCHANGED <<drive, jtc, baseQ, targetQ, stateQ, armQ>>

(* Plant::reset: a new scenario starts from rest, whatever is queued.       *)
Reset ==
  /\ todo = 0 /\ now > 0
  /\ now' = 0 /\ todo' = 0 /\ heard' = 0
  /\ cmd' = [stamp |-> 0, v |-> 0, arm |-> Nothing]
  /\ base' = [x |-> 0, v |-> 0] /\ drive' = [limited |-> 0, output |-> 0]
  /\ \E q \in 0..QMax : arm' = [q |-> q, ref |-> q]
  /\ baseQ' = <<>> /\ targetQ' = <<>>
  /\ stateQ' = Push(<<>>, 0, Measured(base', arm')) /\ armQ' = stateQ'
  /\ jtc' = [started |-> FALSE, tick |-> 0, held |-> arm'.ref]
  /\ state' = [x |-> 0, v |-> 0, q |-> arm'.q, qref |-> arm'.q]
  /\ mover' = [walked |-> 0, triggered |-> FALSE, prev |-> 0, at |-> MoverStart, blocked |-> 0]
  /\ path' = [sent |-> Nothing, held |-> FALSE, reanchored |-> FALSE, q |-> arm'.q, v |-> 0]
  /\ UNCHANGED <<mode, driver>>

Next ==
  \/ \E u \in JointSpeeds : Streamed(u)
  \/ Held \/ NothingSent \/ Replayed
  \/ RealisticSubstep \/ IdealSubstep \/ Reset
Spec == Init /\ [][Next]_vars

---------------------------------------------------------------------------
(* The plant's members have their types.                                    *)
TypeOK ==
  /\ mode \in Modes /\ driver \in Drivers /\ now \in 0..MaxTime /\ todo \in 0..CycleSteps
  /\ cmd.stamp \in 0..now /\ heard \in 0..now
  /\ drive.limited \in -SpeedMax..SpeedMax /\ drive.output \in -WheelMax..WheelMax
  /\ arm.q \in 0..QMax /\ arm.ref \in 0..QMax /\ state.q \in 0..QMax
  /\ mover.walked \in 0..(Crossings * Length) /\ mover.at \in MoverStart..(MoverStart + Length)

BrakingSteps == SpeedMax \div Decel + 1   \* and the step that is being taken
(* Whatever the delay, a base whose commands have stopped being renewed is  *)
(* braked to a stand by the watchdog (base_drive.cpp:49, plant.cpp:253).    *)
StaleCommandStops ==
  mode = "realistic" /\ now >= cmd.stamp + BaseDelay + StaleSteps + BrakingSteps => base.v = 0

(* The same of the base commands a recording holds: its stalls brake the    *)
(* base as Unity's watchdog does (test_replay.cpp:89).                      *)
StallBrakes == mode = "realistic" /\ now >= heard + BaseDelay + StaleSteps + BrakingSteps => base.v = 0
(* A mover only walks, at most its speed at a time, also after it was held, *)
(* and never into the robot's stand-off (plant.cpp:302, movers.cpp:41).     *)
MoverOnlyWalks ==
  now' > now /\ mover'.at # mover.at =>
    Abs(mover'.at - mover.at) <= MoverSpeed /\ ~Near(mover'.at, base'.x)
MoverWalks == [][MoverOnlyWalks]_vars

(* The reference the arm's drives follow is continuous: at a new plan, a    *)
(* hold, and the end of a stream it moves no faster than a plan may,        *)
(* unless the path re-anchored it (arm_command_path.cpp:39, 111).           *)
ReferenceGoesOn ==
  now' > now /\ driver = "loop" /\ ~path.reanchored =>
    Abs(arm'.ref - arm.ref) <= QDMax * JtcPeriod
ReferenceContinues == [][ReferenceGoesOn]_vars
=============================================================================

----------------------------- MODULE ArmStream -----------------------------
(***************************************************************************)
(* The arm trajectories the whole-body node sends (wholebody_mpc_node.cpp, *)
(* arm_stream.cpp and safe_arm_hold): the plan streamed from the reference *)
(* the cycle sensed, advanced by the time the cycle took, and the braking  *)
(* hold from the reference as it is when it is sent, made faster when the  *)
(* slow stop is not clear.  One joint is followed: all joints share every  *)
(* branch except the largest-of-six norms.  Collision distances are an     *)
(* input: the set of stops that are clear.  Time and angles are integers,  *)
(* a spline sample is rounded down.                                        *)
(***************************************************************************)
EXTENDS Integers, FiniteSetsExt, SequencesExt

CONSTANTS
  Horizon, Dt,              \* horizon_, dt_
  MinLead, TailMin,         \* kMinLeadS, kTailS
  Dense, DenseDt,           \* stream_dense_s, stream_dense_dt_s
  Lead,                     \* arm_stream_lead_s
  HoldMin, Emergency,       \* kArmHoldMinS, kHoldEmergencyS
  Factors,                  \* 1 and kHoldFaster, in order
  QDMax, QDDMax, QMin, QMax,
  Reanchor,                 \* kReanchorRad
  Speeds,                   \* arm velocities of the plans
  Errors,                   \* measured joint less reference
  Late, MaxSends            \* bounds: a cycle's latency, trajectories sent

VARIABLES
  sent,      \* the trajectory sent last (sent_), <<>> before the first
  start,     \* its header stamp less the time it was sent
  age,       \* now less sent_at_
  cycle,     \* what the cycle sensed, <<>> between cycles
  held,      \* arm_held_
  sends

vars == <<sent, start, age, cycle, held, sends>>

\* load_limits: bounds of the joint that are not empty, and its envelope.
Limits == QMin <= QMax /\ QDMax > 0 /\ QDDMax > 0

\* load_mpc_config: the dense part of a stream ends within the horizon and is not
\* sampled more coarsely.
Parameters ==
  /\ Limits
  /\ Horizon \in Nat \ {0} /\ Dt > 0
  /\ Lead \in Nat /\ Dense \in 0..Horizon * Dt /\ DenseDt \in 1..Dt

-----------------------------------------------------------------------------
Within(x, lo, hi) == IF x < lo THEN lo ELSE IF x > hi THEN hi ELSE x
Abs(x) == IF x < 0 THEN -x ELSE x
Larger(a, b) == IF a > b THEN a ELSE b
Smaller(a, b) == IF a < b THEN a ELSE b
Point(t, q, v) == [t |-> t, q |-> q, v |-> v]

\* A cubic Hermite spline between the points around t, the first point before it,
\* at rest on the last point after it.
Segment(points, t) == Cardinality({i \in DOMAIN points : i > 1 /\ points[i].t < t}) + 1
Between(p, r, a) ==
  LET h == r.t - p.t
  IN [q |-> ((2*a^3 - 3*a^2*h + h^3) * p.q + (a^3 - 2*a^2*h + a*h^2) * p.v
               + (3*a^2*h - 2*a^3) * r.q + (a^3 - a^2*h) * r.v) \div h^3,
      v |-> (6 * (a^2 - a*h) * (p.q - r.q) + (3*a^2 - 4*a*h + h^2) * h * p.v
               + (3*a^2 - 2*a*h) * h * r.v) \div h^3]
Sample(points, t) ==
  LET i == Segment(points, t)
  IN IF t <= points[1].t THEN [q |-> points[1].q, v |-> points[1].v]
     ELSE IF i = Len(points) THEN [q |-> points[i].q, v |-> 0]
     ELSE Between(points[i], points[i + 1], t - points[i].t)

\* The plan's joints at stage k, and its points after point 0.
Stage(q, u, k) == q + Dt * MapThenSumSet(LAMBDA i : u[i], 1..k)
StageTime(k, offset) == Larger(k * Dt - offset, MinLead)
StageSpeed(u, k) == IF k < Horizon THEN (u[k] + u[k + 1]) \div 2 ELSE u[Horizon]
StagePoint(q, u, k, offset) == Point(StageTime(k, offset), Stage(q, u, k), StageSpeed(u, k))
\* Mutant: stages that are over by the time of the stream are sent, too.
FirstStageOfAll(offset) == 1
FirstStage(offset) ==
  Min({k \in 1..Horizon : k = Horizon \/ k * Dt - offset > MinLead})
DenseTimes(offset) ==
  {i * DenseDt : i \in {j \in 1..(Dense \div DenseDt) :
     /\ 2 * j * DenseDt > 2 * StageTime(FirstStage(offset), offset) + DenseDt
     /\ j * DenseDt + offset <= Horizon * Dt}}
DensePoint(q, u, t, offset) ==
  LET k == Within((t + offset) \div Dt, 0, Horizon - 1)
  IN Point(t, Stage(q, u, k) + u[k + 1] * (t + offset - k * Dt), u[k + 1])
StreamStages(offset) ==
  {k \in FirstStage(offset)..Horizon :
     \/ k = FirstStage(offset)
     \/ DenseTimes(offset) = {}
     \/ 2 * StageTime(k, offset) > 2 * Max(DenseTimes(offset)) + DenseDt}
PlanStreamPoints(q, u, offset) ==
  LET first == FirstStage(offset)
      later == SetToSortSeq(StreamStages(offset) \ {first}, <)
      dense == SetToSortSeq(DenseTimes(offset), <)
  IN <<StagePoint(q, u, first, offset)>>
       \o [i \in DOMAIN dense |-> DensePoint(q, u, dense[i], offset)]
       \o [i \in DOMAIN later |-> StagePoint(q, u, later[i], offset)]

\* The whole stream: the reference now, the plan's points and a braking tail.
BrakingTail(u) == Larger(TailMin, Abs(u[Horizon]) \div QDDMax)
StreamOf(q, v, u, offset) ==
  LET last == Stage(q, u, Horizon)
      end == Within(last + (BrakingTail(u) * u[Horizon]) \div 2, QMin, QMax)
  IN <<Point(0, Within(q + offset * v, QMin, QMax), v)>> \o PlanStreamPoints(q, u, offset)
       \o <<Point(StageTime(Horizon, offset) + BrakingTail(u), end, 0)>>

\* The slowest of the stops that is clear, else one at the reference.
FullStop(v) == Larger(HoldMin, Abs(v) \div QDDMax)
SafeArmHold(q, v, clear) ==
  LET tried == {i \in DOMAIN Factors : Factors[i] \in clear}
      stop == FullStop(v) \div Factors[Min(tried)]
  IN IF v = 0 THEN [target |-> q, duration |-> HoldMin]
     ELSE IF tried = {} THEN [target |-> q, duration |-> Emergency]
     ELSE [target |-> Within(q + (stop * v) \div 2, QMin, QMax), duration |-> stop]

-----------------------------------------------------------------------------
Init ==
  /\ sent = <<>> /\ start = 0 /\ age = 0 /\ cycle = <<>> /\ held = FALSE /\ sends = 0

\* Time passes; a cycle that runs gets later.
Pass ==
  /\ sent # <<>> \/ cycle # <<>>
  /\ age' = IF sent = <<>> THEN 0 ELSE Smaller(age + 1, sent[Len(sent)].t + 1)
  /\ IF cycle = <<>> THEN UNCHANGED cycle
     ELSE cycle[1].since < Late /\ cycle' = <<[cycle[1] EXCEPT !.since = @ + 1]>>
  /\ UNCHANGED <<sent, start, held, sends>>

\* The JTC has the arm on the reference, off it by an error.
Now == IF sent = <<>> THEN [q |-> 0, v |-> 0] ELSE Sample(sent, age)
ReferenceSpeed(v) == Within(v, -QDMax, QDMax)
FollowsReference(q, arm, stale) == Abs(q - arm) <= Reanchor \/ stale

\* The cycle measures the state and chooses the arm state it plans from: the
\* reference, or the measured joints when they are fresh and far from it.
Sense(error, stale) ==
  LET arm == Within(Now.q + error, QMin, QMax)
      x == IF sent # <<>> /\ FollowsReference(Now.q, arm, stale) THEN Now.q ELSE arm
  IN /\ cycle = <<>> /\ sends < MaxSends
     /\ cycle' = <<[arm |-> arm, stale |-> stale, q |-> x, since |-> 0,
                    v |-> IF sent = <<>> THEN 0 ELSE ReferenceSpeed(Now.v)]>>
     /\ UNCHANGED <<sent, start, age, held, sends>>

\* The header stamp, lead before now or on receipt.
StreamStart(lead) == IF lead > 0 THEN -lead ELSE 0

Send(points, lead, holds) ==
  /\ sent' = points /\ start' = StreamStart(lead) /\ age' = 0
  /\ held' = holds /\ cycle' = <<>> /\ sends' = sends + 1

Stream(u) ==
  /\ cycle # <<>>
  /\ \A k \in 1..Horizon : Stage(cycle[1].q, u, k) \in QMin..QMax
  /\ Send(StreamOf(cycle[1].q, cycle[1].v, u, cycle[1].since), Lead, FALSE)

\* The reference a hold starts from: sampled now, against the joints measured.
HoldStart ==
  IF sent = <<>> THEN [q |-> cycle[1].arm, v |-> 0]
  ELSE [q |-> IF FollowsReference(Now.q, cycle[1].arm, cycle[1].stale) THEN Now.q ELSE cycle[1].arm,
        v |-> ReferenceSpeed(Now.v)]
HoldArm(clear) ==
  LET stop == SafeArmHold(HoldStart.q, HoldStart.v, clear)
  IN /\ cycle # <<>> /\ ~held
     /\ Send(<<Point(0, HoldStart.q, HoldStart.v), Point(stop.duration, stop.target, 0)>>,
             Smaller(Lead, stop.duration \div 2), TRUE)

\* A cycle that holds an arm held already sends nothing.
KeepHolding ==
  /\ cycle # <<>> /\ held
  /\ cycle' = <<>>
  /\ UNCHANGED <<sent, start, age, held, sends>>

Next ==
  \/ Pass
  \/ \E error \in Errors, stale \in BOOLEAN : Sense(error, stale)
  \/ \E u \in [1..Horizon -> Speeds] : Stream(u)
  \/ \E clear \in SUBSET Range(Factors) : HoldArm(clear)
  \/ KeepHolding

Spec == Init /\ [][Next]_vars

-----------------------------------------------------------------------------
TypeOK ==
  /\ \A i \in DOMAIN sent : sent[i].t \in Nat /\ sent[i].q \in Int /\ sent[i].v \in Int
  /\ start \in -Lead..0 /\ age \in Nat /\ held \in BOOLEAN /\ sends \in 0..MaxSends
  /\ Len(cycle) \in 0..1

\* The trajectory controller takes every trajectory sent, however late the cycle
\* was: its times increase, it stays within the joints' bounds, ends at rest, and
\* is not over at its start time already.
AcceptedByController ==
  sent # <<>> =>
    /\ \A i \in 1..Len(sent) - 1 : sent[i].t < sent[i + 1].t
    /\ \A i \in DOMAIN sent : sent[i].q \in QMin..QMax
    /\ sent[Len(sent)].v = 0
    /\ start + sent[Len(sent)].t > 0

\* No trajectory starts away from the arm: with fresh joint states its first point
\* is within the re-anchor distance of the joints the cycle measured, and what the
\* reference moves while the cycle runs.
SentNearArm ==
  sends' > sends /\ ~cycle[1].stale =>
    Abs(sent'[1].q - cycle[1].arm) <= Reanchor + cycle[1].since * QDMax
CommandNearArm == [][SentNearArm]_vars
=============================================================================

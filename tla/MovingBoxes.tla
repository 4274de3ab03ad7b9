---------------------------- MODULE MovingBoxes ----------------------------
(***************************************************************************)
(* The moving boxes of the whole-body controller's world (world.cpp): the  *)
(* samples of the scenario's mover and of a draggable box as they arrive   *)
(* (on_movers keeps the last, on_draggables keeps all), the cycle of an    *)
(* active goal that takes them, the velocity estimated from two samples    *)
(* and the boxes predicted at constant velocity.  The boxes move along one *)
(* line.                                                                   *)
(***************************************************************************)
EXTENDS Integers, Sequences

CONSTANTS
  Boxes, Scenario,   \* names; those from /scenario/movers, the others dragged
  Velocities,        \* of the boxes
  Jump, Stale,       \* kMoverJumpM, kMoverStaleS
  MaxTime, MaxTurns  \* bounds: time, changes of a box's velocity

VARIABLES
  now,
  place, velocity,   \* where the boxes are and how they move
  since, turns,      \* when they last changed their velocity
  arrived,           \* samples not taken by a cycle yet (mover_positions_, draggables_)
  world,             \* World::movers_, by name
  taken              \* per box, the stamps of the last two samples taken

vars == <<now, place, velocity, since, turns, arrived, world, taken>>
truth == <<place, velocity, since, turns>>

\* The scenario's movers are boxes like the dragged ones; a step that resets the
\* velocity is none a mover makes by itself.
Parameters ==
  /\ Scenario \subseteq Boxes
  /\ Jump \in Nat \ {0} /\ Stale \in Nat \ {0}
  /\ \A v \in Velocities : v \in Int /\ v <= Jump /\ -v <= Jump

-----------------------------------------------------------------------------
Length(x) == IF x < 0 THEN -x ELSE x
NoBox == <<>>
At(box, t) == box.center + box.velocity * (t - box.stamp)

Init ==
  /\ now = 0 /\ turns = 0
  /\ place = [b \in Boxes |-> 0] /\ velocity \in [Boxes -> Velocities]
  /\ since = [b \in Boxes |-> 0] /\ arrived = [b \in Boxes |-> <<>>]
  /\ world = [b \in Boxes |-> NoBox] /\ taken = [b \in Boxes |-> <<>>]

Pass ==
  /\ now < MaxTime
  /\ now' = now + 1 /\ place' = [b \in Boxes |-> place[b] + velocity[b]]
  /\ UNCHANGED <<velocity, since, turns, arrived, world, taken>>

Turn(b, v) ==
  /\ turns < MaxTurns /\ v # velocity[b]
  /\ velocity' = [velocity EXCEPT ![b] = v]
  /\ since' = [since EXCEPT ![b] = now] /\ turns' = turns + 1
  /\ UNCHANGED <<now, place, arrived, world, taken>>

\* The io callbacks: /scenario/movers overwrites, a dragged box's markers queue.
Sampled(b) == [center |-> place[b], stamp |-> now]
Fresh(b) == \A i \in DOMAIN arrived[b] : arrived[b][i].stamp < now
OnMovers ==
  /\ \E b \in Scenario : Fresh(b)
  /\ arrived' = [b \in Boxes |-> IF b \in Scenario THEN <<Sampled(b)>> ELSE arrived[b]]
  /\ UNCHANGED <<now, truth, world, taken>>
OnDraggables(b) ==
  /\ b \notin Scenario /\ Fresh(b)
  /\ arrived' = [arrived EXCEPT ![b] = Append(@, Sampled(b))]
  /\ UNCHANGED <<now, truth, world, taken>>

\* A sample's box: its velocity from the sample before, none after a gap or a
\* jump, the old one if it is not later.
Velocity(box, s) ==
  LET elapsed == s.stamp - box.stamp
      moved == s.center - box.center
  IN IF elapsed > Stale \/ Length(moved) > Jump THEN 0
     ELSE IF elapsed > 0 THEN moved \div elapsed ELSE box.velocity
Updated(box, s) ==
  IF box = NoBox THEN [center |-> s.center, velocity |-> 0, stamp |-> s.stamp]
  ELSE [center |-> s.center, velocity |-> Velocity(box, s),
        stamp |-> IF s.stamp > box.stamp THEN s.stamp ELSE box.stamp]
IsStale(box, stamp) == box # NoBox /\ stamp - box.stamp > Stale
UpdateBox(boxes, b, s) ==
  LET updated == [boxes EXCEPT ![b] = Updated(@, s)]
  IN [c \in Boxes |-> IF IsStale(updated[c], s.stamp) THEN NoBox ELSE updated[c]]

\* All samples of a box, in the order they came.
Consumed(boxes, b) ==
  LET after[i \in 0..Len(arrived[b])] ==
        IF i = 0 THEN boxes ELSE UpdateBox(after[i - 1], b, arrived[b][i])
  IN after[Len(arrived[b])]
\* The dragged boxes first, as the code does, then the movers.
UpdateMovers(boxes) ==
  LET dragged == CHOOSE b \in Boxes : b \notin Scenario
      mover == CHOOSE b \in Boxes : b \in Scenario
  IN Consumed(Consumed(boxes, dragged), mover)

\* A cycle of an active goal; while there is none the samples stay.
Cycle ==
  /\ \E b \in Boxes : arrived[b] # <<>>
  /\ world' = UpdateMovers(world)
  /\ arrived' = [b \in Boxes |-> <<>>]
  /\ taken' = [b \in Boxes |->
       LET stamps == taken[b] \o [i \in DOMAIN arrived[b] |-> arrived[b][i].stamp]
       IN SubSeq(stamps, IF Len(stamps) > 1 THEN Len(stamps) - 1 ELSE 1, Len(stamps))]
  /\ UNCHANGED <<now, truth>>

Next ==
  \/ Pass \/ OnMovers \/ Cycle
  \/ \E b \in Boxes : OnDraggables(b) \/ \E v \in Velocities : Turn(b, v)

Spec == Init /\ [][Next]_vars

-----------------------------------------------------------------------------
TypeOK ==
  /\ now \in 0..MaxTime /\ turns \in 0..MaxTurns
  /\ \A b \in Boxes : world[b] = NoBox \/ world[b].stamp \in 0..now

\* movers_at: the boxes a plan sees, t ahead.
Seen == {b \in Boxes : world[b] # NoBox /\ now - world[b].stamp <= Stale}

\* A box that kept its velocity between the last two samples taken, neither a gap
\* nor a jump apart, is predicted where it is, whatever cycles were late or missing
\* and whatever the other boxes' samples made the world forget. A mover's samples
\* are taken last: a dragged box's later sample can make the world forget the
\* mover's one before, so it keeps its speed only if that one was not stale.
Steady(b) ==
  /\ Len(taken[b]) = 2 /\ taken[b][1] >= since[b]
  /\ taken[b][2] - taken[b][1] \in 1..Stale
  /\ Length(velocity[b] * (taken[b][2] - taken[b][1])) <= Jump
  /\ b \in Scenario => \A c \in Boxes : \A i \in DOMAIN taken[c] : taken[c][i] - taken[b][1] <= Stale
PredictionExact == \A b \in Seen : Steady(b) => At(world[b], now) = place[b]
=============================================================================

------------------------ MODULE AnchoredReferences -------------------------
(***************************************************************************)
(* The panel references of a mission on a route (references.cpp): the      *)
(* anchors a scenario's steps give, their projection onto the route        *)
(* (route.cpp), and the route replanned from where the robot is, on which  *)
(* some anchors already lie behind.  A route is a path of unit steps on a  *)
(* grid, its arc lengths are the numbers of steps.                         *)
(***************************************************************************)
EXTENDS Integers, Sequences, SequencesExt, FiniteSetsExt

CONSTANTS
  Ways,        \* the routes, each a sequence of grid points a unit apart
  Missions,    \* the steps: [kind |-> "navigate", at |-> p] or [kind |-> "reconfigure", panel |-> n]
  MaxAnchor,   \* kMaxAnchorDistanceM
  Ramp         \* kDefaultRampM

VARIABLES
  full,    \* the route of the whole mission
  steps,   \* the scenario's steps
  driven,  \* how far along it the robot is
  start,   \* where the route in use starts
  following, \* a path was accepted
  refs     \* the references of the route in use

vars == <<full, steps, driven, start, following, refs>>

\* A mission reconfigures to a panel it names or places.
Parameters ==
  /\ MaxAnchor \in Nat /\ Ramp \in Nat \ {0}
  /\ \A mission \in Missions : \A i \in DOMAIN mission :
       IF mission[i].kind = "reconfigure" THEN "panel" \in DOMAIN mission[i]
                                          ELSE mission[i].kind = "navigate" /\ "at" \in DOMAIN mission[i]

-----------------------------------------------------------------------------
\* route.cpp.
RouteLength(route) == Len(route) - 1
PointAt(route, s) == route[s + 1]
Distance2(p, q) == (p[1] - q[1]) * (p[1] - q[1]) + (p[2] - q[2]) * (p[2] - q[2])
Clamped(route, s) == Min({Max({s, 0}), RouteLength(route)})
ProjectRange(route, p, lo, hi) ==
  LET range == Clamped(route, lo) .. Clamped(route, hi)
      nearest == {s \in range : \A u \in range :
                    Distance2(p, PointAt(route, s)) <= Distance2(p, PointAt(route, u))} IN
  Min(nearest)
Far(route, p, s) == Distance2(p, PointAt(route, s)) > MaxAnchor * MaxAnchor

\* mission_references: a reconfigure step's panel is wanted from the waypoint
\* before it to the waypoint before the next one, the last one to the goal.
Waypoint(i) ==
  LET before == {j \in 1 .. i - 1 : steps[j].kind = "navigate"} IN
  IF before = {} THEN Head(full) ELSE steps[Max(before)].at
Reconfigurations == SetToSortSeq({i \in DOMAIN steps : steps[i].kind = "reconfigure"}, <)
MissionReferences ==
  [n \in DOMAIN Reconfigurations |->
     [panel |-> steps[Reconfigurations[n]].panel,
      start |-> Waypoint(Reconfigurations[n]),
      end |-> IF n < Len(Reconfigurations) THEN Waypoint(Reconfigurations[n + 1]) ELSE Last(full)]]

\* anchor_on_route of one reference; it throws when an anchor is off the route.
StartOn(route, r) == ProjectRange(route, r.start, 0, RouteLength(route))
EndOn(route, r) == ProjectRange(route, r.end, StartOn(route, r), RouteLength(route))
OnRoute(route, r) == ~Far(route, r.start, StartOn(route, r)) /\ ~Far(route, r.end, EndOn(route, r))
Anchored(route, r) ==
  [panel |-> r.panel, from |-> StartOn(route, r), to |-> EndOn(route, r), ramp |-> Ramp]

\* anchor_on_remaining_route.
Passed(route, anchor) ==
  LET s == ProjectRange(route, anchor, 0, RouteLength(route)) IN s <= 0 /\ Far(route, anchor, s)
EndAlone(r) == [r EXCEPT !.start = r.end]
Remaining(route, r) ==
  IF Passed(route, r.start) THEN [Anchored(route, EndAlone(r)) EXCEPT !.from = 0]
                            ELSE Anchored(route, r)
Anchors(route, r) == IF Passed(route, r.start) THEN OnRoute(route, EndAlone(r)) ELSE OnRoute(route, r)
Running(route) == SelectSeq(MissionReferences, LAMBDA r : ~Passed(route, r.end))
Valid(route) == \A n \in DOMAIN Running(route) : Anchors(route, Running(route)[n])
AnchorOnRemaining(route) ==
  [n \in DOMAIN Running(route) |-> Remaining(route, Running(route)[n])]

\* reference_weight, in units of 1 / ramp.
Weight(r, s) ==
  LET raw == CASE s >= r.from /\ s <= r.to -> r.ramp
               [] s < r.from               -> s - (r.from - r.ramp)
               [] OTHER                    -> r.ramp - (s - r.to) IN
  Max({0, Min({raw, r.ramp})})

-----------------------------------------------------------------------------
Init ==
  /\ full \in Ways /\ steps \in Missions
  /\ driven = 0 /\ start = 0
  /\ following = Valid(full)
  /\ refs = IF Valid(full) THEN AnchorOnRemaining(full) ELSE <<>>

Drive ==
  /\ driven < RouteLength(full) - 1
  /\ driven' = driven + 1
  /\ UNCHANGED <<full, steps, start, following, refs>>

\* A FollowPath goal, or a preempting one, with the path from the robot on: a
\* reference off the path is an invalid path, and the goal is aborted.
Left == SubSeq(full, driven + 1, Len(full))
FollowPath ==
  /\ IF Valid(Left)
       THEN start' = driven /\ following' = TRUE /\ refs' = AnchorOnRemaining(Left)
       ELSE following' = FALSE /\ refs' = <<>> /\ UNCHANGED start
  /\ UNCHANGED <<full, steps, driven>>

Next == Drive \/ FollowPath

Spec == Init /\ [][Next]_vars

-----------------------------------------------------------------------------
\* Every variable holds a value of its kind.
TypeOK ==
  /\ full \in Ways /\ steps \in Missions
  /\ driven \in 0 .. RouteLength(full) /\ start \in 0 .. driven
  /\ following \in BOOLEAN
  /\ \A n \in DOMAIN refs : refs[n].from <= refs[n].to

\* Replanning changes no reference that is still running: ahead of the robot
\* every one wanted now has the weight it had on the whole mission's route, so
\* the panel's pull neither jumps nor shifts at a replan
\* (anchor_on_remaining_route; a reference whose end is passed may go).
Same(r, n, s) == Weight(r, s - start) = Weight(Anchored(full, MissionReferences[n]), s)
ReplanKeepsWeights ==
  (Valid(full) /\ following) =>
    \A n \in DOMAIN MissionReferences :
      LET whole == Anchored(full, MissionReferences[n])
          now == {r \in Range(refs) : r.panel = whole.panel} IN
      whole.to >= start =>
        \E r \in now : \A s \in start .. RouteLength(full) : Same(r, n, s)
=============================================================================

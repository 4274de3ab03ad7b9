------------------------- MODULE DynamicFootprint -------------------------
(* dynamic_footprint_node and DynamicFootprint: the padded hull of base,    *)
(* arm and panel from the latest joint states, published to the costmaps    *)
(* and the collision monitor's zones when it changed, and put back on a     *)
(* costmap that lost it.  A convex polygon is its support in each of a few  *)
(* directions, and joint j reaches in direction j: the hull of two polygons *)
(* is the larger support everywhere, their Hausdorff distance the largest   *)
(* difference.  All comparisons of times are of an age with a limit: a time *)
(* that counts until its limit is an age or, past it, None; one that counts *)
(* from its limit on stops there.  A step of time is a timer tick.          *)
EXTENDS Integers, FiniteSets, FiniteSetsExt

CONSTANTS
  Modes,            \* footprint_mode: "dynamic", "wholebody"
  Joints, Reaches,  \* the arm's joints; how far one reaches out
  Base,             \* what the base alone reaches
  Padding, Threshold,           \* padding_m, change_threshold_m
  ZoneMargin,       \* the slowdown zone's margin
  StaleAfter, MotionHold, PlanFresh,   \* stale_after_s, kMotionHoldS, kPlanFreshS
  Settle,           \* 0.5 s at rest before a costmap is judged
  Judge,            \* 2 s: since the last publication, of a costmap's message, of the drift
  Costmaps, Launch, \* the costmaps; the footprint they start with
  MaxMoves          \* bound: arm moves and Nav2 restarts in a run

VARIABLES
  mode, arm,        \* footprint_mode; the real joints
  joints,           \* positions_ and the ages of received_
  motion, plan,     \* the ages of last_motion_ and plan_time_, plan_'s hull
  current, slowdown,            \* current_, slowdown_
  zone, costmap,    \* what the monitor's zone and each costmap were last sent
  still, published, \* still_'s age at rest; the age of last_publish_
  seen, drift,      \* published_ and drift_ of each costmap
  moves

heard == <<joints, motion, plan, still, seen>>
shown == <<current, slowdown, zone, costmap>>
vars == <<mode, arm, heard, shown, published, drift, moves>>

\* The node refuses other modes and a file without a slowdown zone; the arm
\* has finitely many joints, and reaches are lengths.
Parameters ==
  /\ Modes \subseteq {"dynamic", "wholebody"}
  /\ IsFiniteSet(Joints) /\ Reaches \subseteq Int /\ Base \in Int
  /\ Padding \in Nat /\ Threshold \in Nat /\ ZoneMargin \in Nat /\ StaleAfter \in Nat \ {0}

None == <<>>
Until(age, limit) == IF age = None \/ age = <<limit>> THEN None ELSE <<age[1] + 1>>
From(age, limit) == IF age \in {None, <<limit>>} THEN age ELSE <<age[1] + 1>>

---------------------------------------------------------------------------
(* Polygons.                                                                *)
Larger(a, b) == IF a >= b THEN a ELSE b
HullOf(p, q) == [d \in Joints |-> Larger(p[d], q[d])]
Offset(p, delta) == [d \in Joints |-> p[d] + delta]
Contains(outer, inner) == \A d \in Joints : inner[d] <= outer[d]
Hausdorff(p, q) == Max({Larger(p[d] - q[d], q[d] - p[d]) : d \in Joints})
BaseOnly == [d \in Joints |-> Base + Padding]
Body(q) == [d \in Joints |-> Larger(Base, q[d])]
Footprint(q) == Offset(Body(q), Padding)

Init ==
  /\ mode \in Modes /\ arm \in [Joints -> Reaches]
  /\ joints = [j \in Joints |-> [at |-> 0, age |-> None]]
  /\ motion = None /\ plan = None /\ current = None /\ slowdown = None
  /\ zone = None /\ costmap = [c \in Costmaps |-> [d \in Joints |-> Launch]]
  /\ still = None /\ published = <<Judge>>
  /\ seen = [c \in Costmaps |-> None] /\ drift = [c \in Costmaps |-> None] /\ moves = 0

---------------------------------------------------------------------------
(* The subscriptions.  A joint state may be partial; a joint that is not    *)
(* finite counts as not received.                                           *)
OnJoints(S) ==
  /\ S # {} /\ joints' = [j \in Joints |-> IF j \in S THEN [at |-> arm[j], age |-> <<0>>] ELSE joints[j]]
  /\ UNCHANGED <<mode, arm, motion, plan, still, seen, shown, published, drift, moves>>
OnCmdVel == (* a command at or above the moving thresholds *)
  /\ motion' = <<0>>
  /\ UNCHANGED <<mode, arm, joints, plan, still, seen, shown, published, drift, moves>>
(* Once the base moves, what a costmap showed in its frame no longer        *)
(* matches seen from the base.                                              *)
OnOdom(rests) ==
  /\ still' = IF ~rests THEN None ELSE IF still = None THEN <<0>> ELSE still
  /\ seen' = IF rests THEN seen
             ELSE [c \in Costmaps |-> IF seen[c] = None THEN None ELSE <<[seen[c][1] EXCEPT !.moved = TRUE]>>]
  /\ UNCHANGED <<mode, arm, joints, motion, plan, shown, published, drift, moves>>
(* The hull of the plan's configurations, relative to the base; a tick pads *)
(* it with the rest.                                                        *)
OnPlan(hull) ==
  /\ mode = "wholebody" /\ plan' = <<[hull |-> hull, age |-> 0]>>
  /\ UNCHANGED <<mode, arm, joints, motion, still, seen, shown, published, drift, moves>>
OnPublishedFootprint(c) ==
  /\ seen' = [seen EXCEPT ![c] = <<[shown |-> costmap[c], age |-> 0, moved |-> FALSE]>>]
  /\ UNCHANGED <<mode, arm, joints, motion, plan, still, shown, published, drift, moves>>

---------------------------------------------------------------------------
(* The timer.                                                               *)
Aged ==
  [joints |-> [j \in Joints |-> [joints[j] EXCEPT !.age = Until(@, StaleAfter)]],
   motion |-> Until(motion, MotionHold),
   plan |-> IF plan = None \/ plan[1].age = PlanFresh THEN None ELSE <<[plan[1] EXCEPT !.age = @ + 1]>>,
   still |-> From(still, Settle),
   seen |-> [c \in Costmaps |-> IF seen[c] = None \/ seen[c][1].age = Judge THEN None
                                ELSE <<[seen[c][1] EXCEPT !.age = @ + 1]>>],
   published |-> From(published, Judge),
   drift |-> [c \in Costmaps |-> From(drift[c], Judge)]]

(* health: no data, a missing joint and a stale one are all not fresh.      *)
Fresh(t) == \A j \in Joints : t.joints[j].age # None
Moving(t) == t.motion # None
Measured(t) == [j \in Joints |-> t.joints[j].at]

\* Mutant: the footprint follows the arm while the base moves, too.
DynamicAlwaysFollowing(t) ==
  LET hull == Footprint(Measured(t))
  IN IF current # None /\ Hausdorff(hull, current[1]) <= Threshold THEN None ELSE <<hull>>

(* tick: while the base moves the footprint only grows; at rest it follows  *)
(* a change beyond the threshold.                                           *)
Dynamic(t) ==
  LET hull == Footprint(Measured(t))
  IN IF current = None THEN <<hull>>
     ELSE IF Moving(t)
     THEN IF Contains(Offset(current[1], Threshold), hull) THEN None ELSE <<HullOf(current[1], hull)>>
     ELSE IF Hausdorff(hull, current[1]) <= Threshold THEN None ELSE <<hull>>
(* tick_wholebody: the base alone, the slowdown zone around the fresh plan. *)
Swept(t) == LET body == Body(Measured(t))
            IN Offset(IF t.plan # None THEN HullOf(t.plan[1].hull, body) ELSE body, Padding)
Changed(old, new) == old = None \/ Hausdorff(old[1], new) > Threshold

Publish(t, footprint, around, toCostmaps) ==
  /\ current' = <<footprint>> /\ slowdown' = around
  /\ zone' = <<Offset(IF mode = "wholebody" THEN around[1] ELSE footprint, ZoneMargin)>>
  /\ costmap' = IF toCostmaps THEN [c \in Costmaps |-> footprint] ELSE costmap
  /\ published' = <<0>> /\ drift' = t.drift
NothingPublished(t) == UNCHANGED <<shown>> /\ published' = t.published /\ drift' = t.drift

(* repair: with the base at rest, a costmap whose fresh message shows       *)
(* another footprint for Judge gets the current one again.                  *)
Judged(t) == t.still = <<Settle>> /\ t.published = <<Judge>>
Matches(t, c) ==
  ~Judged(t) \/ t.seen[c] = None \/ (t.seen[c][1].shown = current[1] /\ ~t.seen[c][1].moved)
Republishes(t, c) == ~Matches(t, c) /\ t.drift[c] = <<Judge>>
Repair(t) ==
  /\ drift' = [c \in Costmaps |-> IF Matches(t, c) THEN None
                                  ELSE IF t.drift[c] = None \/ Republishes(t, c) THEN <<0>> ELSE t.drift[c]]
  /\ costmap' = [c \in Costmaps |-> IF Republishes(t, c) THEN current[1] ELSE costmap[c]]
  /\ published' = t.published
  /\ UNCHANGED <<current, slowdown, zone>>

Tick ==
  LET t == Aged
  IN /\ joints' = t.joints /\ motion' = t.motion /\ plan' = t.plan /\ still' = t.still /\ seen' = t.seen
     /\ IF ~Fresh(t) THEN NothingPublished(t)
        ELSE IF mode = "dynamic"
        THEN IF Dynamic(t) # None THEN Publish(t, Dynamic(t)[1], None, TRUE) ELSE Repair(t)
        ELSE LET base == Changed(current, BaseOnly)
                 around == Changed(slowdown, Swept(t))
             IN IF base \/ around
                THEN Publish(t, IF base THEN BaseOnly ELSE current[1],
                             IF around THEN <<Swept(t)>> ELSE slowdown, base)
                ELSE Repair(t)
     /\ UNCHANGED <<mode, arm, moves>>

---------------------------------------------------------------------------
(* The arm moves; a relaunched costmap starts with its launch footprint.    *)
ArmMoves ==
  /\ moves < MaxMoves /\ moves' = moves + 1
  /\ \E j \in Joints, r \in Reaches : r # arm[j] /\ arm' = [arm EXCEPT ![j] = r]
  /\ UNCHANGED <<mode, heard, shown, published, drift>>
Nav2Restarts(c) ==
  /\ moves < MaxMoves /\ moves' = moves + 1
  /\ costmap' = [costmap EXCEPT ![c] = [d \in Joints |-> Launch]]
  /\ UNCHANGED <<mode, arm, heard, current, slowdown, zone, published, drift>>

Next == \/ \E S \in SUBSET Joints : OnJoints(S)
        \/ OnCmdVel
        \/ \E rests \in BOOLEAN : OnOdom(rests)
        \/ \E j \in Joints, r \in Reaches : OnPlan([d \in Joints |-> IF d = j THEN r ELSE Base])
        \/ \E c \in Costmaps : OnPublishedFootprint(c) \/ Nav2Restarts(c)
        \/ Tick \/ ArmMoves
Spec == Init /\ [][Next]_vars
(* The timer and the publishers of joint states, odometry and footprints    *)
(* keep running.                                                            *)
FairSpec == Spec /\ WF_vars(Tick) /\ SF_vars(OnJoints(Joints))
                 /\ SF_vars(OnOdom(TRUE)) /\ \A c \in Costmaps : SF_vars(OnPublishedFootprint(c))

---------------------------------------------------------------------------
(* The node's state has its types.                                          *)
TypeOK ==
  /\ published[1] \in 0..Judge /\ mode \in Modes
  /\ (current = None) = (zone = None) /\ (slowdown # None => mode = "wholebody")
  /\ \A c \in Costmaps : drift[c] = None \/ drift[c][1] \in 0..Judge

(* Whatever joint messages came, partial or late, and whichever rule took   *)
(* the tick, a tick on fresh joints leaves a footprint (wholebody: a        *)
(* slowdown zone) that covers the measured robot, and a plan still fresh,   *)
(* up to the threshold (dynamic_footprint.cpp:90-115, 131-157).             *)
Around(t) ==
  {Footprint(Measured(t))}
  \cup IF mode = "dynamic" \/ t.plan = None THEN {} ELSE {Offset(t.plan[1].hull, Padding)}
Covers ==
  Fresh(Aged) /\ Tick => \A p \in Around(Aged) :
    Contains(Offset(zone'[1], Threshold), Offset(p, ZoneMargin))
CoversTheRobot == [][Covers]_vars

(* The footprint loses nothing while a base command is younger than the     *)
(* motion hold, nor while a joint is missing or stale, and wholebody's      *)
(* never changes again (dynamic_footprint.hpp:4-8).                         *)
Shrinks ==
  current # None /\ ~Contains(current'[1], current[1]) =>
    mode = "dynamic" /\ motion' = None /\ \A j \in Joints : joints'[j].age # None
ShrinksOnlyAtRest == [][Shrinks]_vars

(* A costmap that lost the footprint (a relaunched Nav2 starts with its     *)
(* own) has it again once the base stays at rest with joint states and the  *)
(* costmap's messages arriving, and whole-body's slowdown zone no longer    *)
(* changes: publishing it puts the repair off (dynamic_footprint_node.cpp:  *)
(* 230-233, 287, 292-309).                                                  *)
Undisturbed ==
  /\ still # None /\ \A j \in Joints : joints[j].age # None
  /\ \A c \in Costmaps : seen[c] # None /\ seen[c][1].age <= 1
Repaired == \A c \in Costmaps : <<costmap[c]>> = current
CostmapsRepaired == <>[]Undisturbed /\ <>[][UNCHANGED slowdown]_vars => <>[]Repaired

(* Not checked, and not so: the same whatever the zone does, as the comment *)
(* at 292-293 reads.  Plans that keep changing the zone keep the repair off.*)
CostmapsRepairedAnyway == <>[]Undisturbed => <>[]Repaired
=============================================================================

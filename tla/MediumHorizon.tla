--------------------------- MODULE MediumHorizon ---------------------------
(* The medium layer above B5, closed: medium_horizon_node plans on the      *)
(* route B5 announces while B5's cycle messages arrive, and B5's loop takes *)
(* the newest plan into its MediumSwitch and follows it or falls back to    *)
(* the Nav2 route.  A tick is one B5 cycle; a solve takes up to Cap ticks   *)
(* and blocks the node's only thread.  What one plan() computes is          *)
(* MediumPlanner's; here it has a route, a goal and a planning time.        *)
EXTENDS Integers, Sequences

CONSTANTS
  Period, Cap,      \* 1 / rate_hz, solve_cap_s
  Extra,            \* MEDIUM_STALE_EXTRA_S (medium_stale_s is set to Period + Cap + Extra)
  Tracking,         \* kTrackingS
  RestartTime,      \* at least this long passes between two B5 processes
  Goals, MaxTime, MaxRoutes,
  MaxFaults         \* stale states, capped solves, plans that do not convert, offsets, restarts

VARIABLES
  now,
  b5,               \* up, active (a goal is), down (ticks since it died), run (which process)
  route,            \* route_id_, its goal and acceptance stamp
  inbox,            \* medium_msg_
  switch,           \* MediumSwitch: pending_, active_, following_, applied_plan_
  controller,       \* the route it tracks and its medium pointer
  announced, heard, \* on the way to the node: the route (latched), a cycle message
  node,             \* route_key_, b5_cycle_at_, route_pending_, when timer_ is due
  planner,          \* route_, goal_, plan_id_, out_
  busy,             \* plan(): its result, ticks spent, whether the timer restarts
  faults, quiet     \* faults left; ticks since the last fault or route change

b5Vars == <<b5, route, switch, controller>>
nodeVars == <<node, planner, busy>>
vars == <<now, b5Vars, inbox, announced, heard, nodeVars, faults, quiet>>

\* The node refuses a rate that is not positive, load_medium_config such a cap.
Parameters == Period \in Nat \ {0} /\ Cap \in Nat \ {0} /\ Extra \in Nat /\ Tracking \in Nat

None == <<>>
MediumStale == Period + Cap + Extra
Plan(p, id, at) == [id |-> id, route |-> p.route.id, key |-> p.route.key, goal |-> p.route.goal, at |-> at]
NoRoute == [id |-> 0, goal |-> None, key |-> None]
EmptySwitch == [pending |-> None, active |-> None, following |-> FALSE, applied |-> 0]
Nav2 == [tracks |-> "nav2", medium |-> None]

Init ==
  /\ now = 0 /\ b5 = [up |-> TRUE, active |-> FALSE, down |-> 0, run |-> 1]
  /\ route = NoRoute /\ inbox = None /\ switch = EmptySwitch /\ controller = Nav2
  /\ announced = None /\ heard = FALSE
  /\ node = [key |-> None, at |-> None, pending |-> FALSE, timer |-> Period]
  /\ planner = [route |-> NoRoute, id |-> 0, out |-> None]
  /\ busy = None /\ faults = 0 /\ quiet = 0

---------------------------------------------------------------------------
(* The medium node's callbacks, one at a time.                              *)
Idle == busy = None
CanPlan(n, p) == p.route.id # 0 /\ n.at # None /\ now - n.at[1] <= Tracking
Fault == faults < MaxFaults /\ faults' = faults + 1 /\ quiet' = 0
NoFault == UNCHANGED <<faults, quiet>>

(* cycle(): without a route, B5's cycles or a fresh state nothing is        *)
(* planned; plan_now restarts the timer once the plan is out.               *)
Cycle(n, p, restarts) ==
  /\ node' = n /\ planner' = p
  /\ IF ~CanPlan(n, p) THEN NoFault /\ UNCHANGED busy
     ELSE \/ /\ busy' = <<[plan |-> Plan(p, p.id + 1, now), spent |-> 0, restarts |-> restarts]>>
             /\ NoFault
          \/ Fault /\ UNCHANGED busy

OnTimer ==
  /\ Idle /\ now >= node.timer
  /\ Cycle([node EXCEPT !.timer = now + Period - ((now - @) % Period)], planner, FALSE)
  /\ UNCHANGED <<now, b5Vars, inbox, announced, heard>>

(* A message for B5 takes the single slot of its mailbox.                   *)
Deliver(plan) == inbox' = IF b5.up THEN <<plan>> ELSE inbox

(* set_route: the published plan carries on for a replan of its goal.       *)
Carries(r) == planner.route.goal = r.goal /\ planner.out # None
OnRoute ==
  /\ Idle /\ announced # None /\ announced' = None
  /\ LET r == announced[1]
         carried == Plan([route |-> r], planner.id + 1, planner.out[1].at)
         p == IF Carries(r) THEN [route |-> r, id |-> planner.id + 1, out |-> <<carried>>]
              ELSE [route |-> r, id |-> planner.id, out |-> IF planner.route.goal = r.goal THEN planner.out ELSE None]
     IN IF node.key = <<r.key>> THEN NoFault /\ UNCHANGED <<inbox, nodeVars>>
        ELSE /\ IF Carries(r) THEN Deliver(carried) ELSE UNCHANGED inbox
             /\ Cycle([node EXCEPT !.key = <<r.key>>, !.pending = TRUE], p, TRUE)
  /\ UNCHANGED <<now, b5Vars, heard>>

OnB5Cycle ==
  /\ Idle /\ heard /\ heard' = FALSE
  /\ LET n == [node EXCEPT !.at = <<now>>]
     IN IF node.pending THEN Cycle(n, planner, TRUE)
        ELSE node' = n /\ NoFault /\ UNCHANGED <<planner, busy>>
  /\ UNCHANGED <<now, b5Vars, inbox, announced>>

(* A solve whose incumbent the cap cut short returns the last plan again,   *)
(* as a plan of the active route but with its own planning time; with no    *)
(* plan yet, the seed as it is, planned now.                                *)
Solved == busy[1].plan
Reused == Plan(planner, Solved.id, planner.out[1].at)
(* The solve ends: publish, then plan_now's timer_->reset().                *)
Publish(plan) ==
  /\ Deliver(plan)
  /\ planner' = [planner EXCEPT !.id = plan.id, !.out = <<plan>>]
  /\ node' = [node EXCEPT !.pending = FALSE, !.timer = IF busy[1].restarts THEN now + Period ELSE @]
  /\ busy' = None
  /\ UNCHANGED <<now, b5Vars, announced, heard>>
Published ==
  /\ ~Idle
  /\ \/ Publish(Solved) /\ NoFault
     \/ planner.out # None /\ Publish(Reused) /\ Fault

(* Callbacks that are due run before time passes.                           *)
Settled == IF Idle THEN now < node.timer /\ announced = None /\ ~heard ELSE busy[1].spent < Cap
Spend == busy' = IF Idle THEN None ELSE <<[busy[1] EXCEPT !.spent = @ + 1]>>

---------------------------------------------------------------------------
(* B5's cycle: a goal or a replan may be taken first (start_goal), then     *)
(* update_medium, then the controller's step and the cycle message.         *)
Latest(sw) == IF sw.pending # None THEN sw.pending ELSE sw.active
Fallback(sw, r, far) ==
  IF Latest(sw) = None THEN "no_plan"
  ELSE LET h == Latest(sw)[1]
       IN IF h.route # r.id THEN "route_id"
          ELSE IF now - h.at > MediumStale THEN "stale"
          ELSE IF far THEN "offset" ELSE ""
Follow(sw) ==
  LET new == sw.pending # None
      active == Latest(sw)
  IN [pending |-> None, active |-> active, following |-> TRUE, applied |-> active[1].id]
Update(sw, c, r, far) ==
  IF Fallback(sw, r, far) = ""
  THEN LET s == Follow(sw)
           again == ~sw.following \/ sw.pending # None \/ sw.applied # s.active[1].id
       IN /\ switch' = s
          /\ controller' = IF again THEN [tracks |-> "plan", medium |-> s.active] ELSE c
  ELSE /\ switch' = [sw EXCEPT !.following = FALSE]
       /\ controller' = IF sw.following THEN Nav2 ELSE c
(* A plan that does not convert against the active route is dropped.        *)
Taken(sw, converts) == IF inbox # None /\ converts THEN [sw EXCEPT !.pending = inbox] ELSE sw
RouteChanged(sw) == [sw EXCEPT !.following = FALSE]

Work(r, sw, c) ==
  \E converts \in BOOLEAN, far \in BOOLEAN :
    /\ ~converts => inbox # None
    /\ Update(Taken(sw, converts), c, r, far)
    /\ IF converts /\ ~far
       THEN faults' = faults /\ quiet' = IF r # route THEN 0 ELSE quiet + 1
       ELSE faults < MaxFaults /\ faults' = faults + 1 /\ quiet' = 0
B5Cycle ==
  /\ Settled /\ now < MaxTime /\ b5.up
  /\ \/ /\ b5.active
        /\ Work(route, switch, controller)
        /\ UNCHANGED <<b5, route, announced>>
     \/ \E g \in Goals :
          LET r == [id |-> route.id + 1, goal |-> <<g>>, key |-> <<b5.run, now, route.id + 1>>]
          IN /\ route.id < MaxRoutes
             /\ Work(r, RouteChanged(switch), Nav2)
             /\ route' = r /\ announced' = <<r>> /\ b5' = [b5 EXCEPT !.active = TRUE]
  /\ inbox' = None /\ heard' = TRUE /\ now' = now + 1 /\ Spend
  /\ UNCHANGED <<node, planner>>

(* The goal ends; no cycle runs while none is active.                       *)
GoalEnds ==
  /\ b5.up /\ b5.active
  /\ b5' = [b5 EXCEPT !.active = FALSE] /\ quiet' = 0
  /\ UNCHANGED <<now, route, inbox, switch, controller, announced, heard, nodeVars, faults>>
(* B5 dies; a new process starts with nothing and counts routes from one.   *)
Dies ==
  /\ b5.up /\ Fault
  /\ b5' = [b5 EXCEPT !.up = FALSE, !.active = FALSE, !.down = 0]
  /\ route' = NoRoute /\ inbox' = None /\ switch' = EmptySwitch /\ controller' = Nav2
  /\ UNCHANGED <<now, announced, heard, nodeVars>>
Starts ==
  /\ ~b5.up /\ b5.down >= RestartTime
  /\ b5' = [b5 EXCEPT !.up = TRUE, !.run = @ + 1]
  /\ UNCHANGED <<now, route, inbox, switch, controller, announced, heard, nodeVars, faults, quiet>>
Pass ==
  /\ Settled /\ now < MaxTime /\ ~b5.active
  /\ now' = now + 1 /\ Spend
  /\ b5' = IF b5.up \/ b5.down = RestartTime THEN b5 ELSE [b5 EXCEPT !.down = @ + 1]
  /\ UNCHANGED <<route, inbox, switch, controller, announced, heard, node, planner, faults, quiet>>

Next == \/ OnTimer \/ OnRoute \/ OnB5Cycle \/ Published
        \/ B5Cycle \/ GoalEnds \/ Dies \/ Starts \/ Pass
Spec == Init /\ [][Next]_vars

---------------------------------------------------------------------------
(* The state of both nodes has its types.                                   *)
TypeOK ==
  /\ now \in 0..MaxTime /\ route.id \in 0..MaxRoutes /\ faults \in 0..MaxFaults
  /\ node.timer \in 0..(MaxTime + 2 * Period) /\ switch.following \in BOOLEAN
  /\ busy # None => busy[1].spent \in 0..Cap
  /\ controller.tracks \in {"nav2", "plan"}

(* While B5 follows the medium layer, the controller tracks the switch's    *)
(* active plan.  That plan carries the active route's id, was planned within *)
(* MediumStale of the cycle that last looked at it, however often the medium *)
(* layer sent it again, and, if it was planned for a route of this B5        *)
(* process, is for the very route and goal B5 is on.  Of a plan of an        *)
(* earlier process nothing more is promised: its id may be the active one's. *)
(* Otherwise the controller holds no plan (medium_switch.cpp:13-59,          *)
(* wholebody_mpc_node.cpp:844-846).                                          *)
FollowsItsRoute ==
  IF switch.following
  THEN LET plan == switch.active[1]
       IN /\ controller = [tracks |-> "plan", medium |-> switch.active]
          /\ plan.route = route.id
          /\ b5.active => ~(now - 1 - plan.at > MediumStale)
          /\ plan.key[1] = b5.run => plan.key = route.key /\ plan.goal = route.goal
  ELSE controller = Nav2

\* Long enough without a fault, a capped solve or another route for the plan
\* of a period to have come (solve_cap_s is shorter than the period).
Undisturbed == b5.active /\ quiet > Period + Cap

(* A route B5 has tracked undisturbed has a plan in B5's switch, which never *)
(* gets older than a period and two solves (medium_horizon_node.cpp:154-185, *)
(* planner.cpp:481-498): a plan that was sent again is replaced by then.     *)
PlannedInTime ==
  Undisturbed =>
    /\ Latest(switch) # None /\ Latest(switch)[1].key = route.key
    /\ now - Latest(switch)[1].at <= Period + 2 * Cap + 1

(* The limit on a plan's age lies past the next plan's arrival              *)
(* (navigation.launch.py:105): B5 drops a plan for its age only around a     *)
(* fault or a capped solve, never while the medium layer plans every period. *)
NextPlanInTime == Undisturbed => now - 1 - Latest(switch)[1].at <= MediumStale

(* B5 falls back for a plan for another route than the active one           *)
(* (medium_reference.hpp:57-59): the plan it follows is for its goal.       *)
FollowsTheActiveGoal == switch.following => switch.active[1].goal = route.goal
=============================================================================

------------------------ MODULE MediumHorizonProofs ------------------------
(***************************************************************************)
(* Theorems about MediumHorizon: however often B5 restarts, replans or     *)
(* takes a new goal, and whichever plans are in flight then, B5 follows    *)
(* plans made for the route it is on.                                      *)
(***************************************************************************)
EXTENDS MediumHorizon, TLAPS

(***************************************************************************)
(* What was made for a route of the running process was made for the       *)
(* active route or for an older one.  A route's id alone does not say so:  *)
(* a new process counts from one again, which is why keys carry the run.   *)
(***************************************************************************)
Genuine(id, key, goal) ==
  /\ id \in Nat \ {0} /\ key[1] \in Nat /\ key[1] <= b5.run
  /\ b5.up /\ key[1] = b5.run =>
       /\ id <= route.id
       /\ id = route.id => key = route.key /\ goal = route.goal

GoodPlan(h) == Genuine(h.route, h.key, h.goal)
GoodSlot(slot) == slot # None => GoodPlan(slot[1])

Solving(slot) ==
  slot # None =>
    /\ slot[1] = [plan |-> slot[1].plan, spent |-> slot[1].spent,
                  restarts |-> slot[1].restarts]
    /\ GoodPlan(slot[1].plan)

FlightInv ==
  /\ b5 = [up |-> b5.up, active |-> b5.active, down |-> b5.down, run |-> b5.run]
  /\ b5.run \in Nat /\ route.id \in Nat /\ b5.up \in BOOLEAN
  /\ announced # None =>
       Genuine(announced[1].id, announced[1].key, announced[1].goal)
  /\ planner.route.id # 0 =>
       Genuine(planner.route.id, planner.route.key, planner.route.goal)
  /\ Solving(busy)
  /\ busy # None => planner.route.id # 0
  /\ GoodSlot(inbox) /\ GoodSlot(switch.pending) /\ GoodSlot(switch.active)

FollowInv ==
  /\ switch = [pending |-> switch.pending, active |-> switch.active,
               following |-> switch.following, applied |-> switch.applied]
  /\ switch.following \in BOOLEAN
  /\ switch.following => b5.up /\ switch.active # None
  /\ switch.following =>
       /\ controller = [tracks |-> "plan", medium |-> switch.active]
       /\ switch.active[1].route = route.id
  /\ ~switch.following => controller = Nav2

MediumInv == FlightInv /\ FollowInv

LEMMA InitMedium == Init => MediumInv
BY DEF Init, MediumInv, FlightInv, FollowInv, Solving, GoodSlot, EmptySwitch, NoRoute, None

\* What is genuine stays so while B5 keeps its process and its route, when it
\* dies, and when a new process starts with the next number.
LEMMA GenuineStays ==
  ASSUME FlightInv, NEW id, NEW key, NEW goal, Genuine(id, key, goal),
         \/ UNCHANGED route /\ b5'.run = b5.run /\ b5'.up = b5.up
         \/ b5'.up = FALSE /\ b5'.run = b5.run
         \/ ~b5.up /\ b5'.run = b5.run + 1
         \/ b5'.run = b5.run /\ b5.up /\ route'.id = route.id + 1
  PROVE  Genuine(id, key, goal)'
BY DEF Genuine, FlightInv

\* The medium node plans for the route it was given, and for no other.
LEMMA CycleKeeps ==
  ASSUME FlightInv, UNCHANGED b5Vars, NEW n, NEW p, NEW restarts,
         busy = None, Cycle(n, p, restarts),
         p.route.id # 0 => Genuine(p.route.id, p.route.key, p.route.goal)
  PROVE  /\ Solving(busy') /\ planner' = p
         /\ busy' # None => planner'.route.id # 0
<1>1. busy' = None \/
        /\ p.route.id # 0
        /\ busy' = <<[plan |-> Plan(p, p.id + 1, now), spent |-> 0, restarts |-> restarts]>>
  BY DEF Cycle, CanPlan
<1>2. CASE busy' # None
  <2>1. /\ busy'[1] = [plan |-> Plan(p, p.id + 1, now), spent |-> 0,
                       restarts |-> restarts]
        /\ p.route.id # 0
    BY <1>1, <1>2
  <2>2. GoodPlan(Plan(p, p.id + 1, now))
    BY <2>1 DEF GoodPlan, Plan
  <2> QED BY <2>1, <2>2 DEF Solving, Cycle
<1> QED BY <1>2 DEF Cycle, Solving

LEMMA NodeKeeps ==
  ASSUME MediumInv, OnTimer \/ OnRoute \/ OnB5Cycle \/ Published
  PROVE  MediumInv'
<1> USE DEF MediumInv
<1>1. UNCHANGED <<b5, route, switch, controller>>
  BY DEF OnTimer, OnRoute, OnB5Cycle, Published, Publish, b5Vars
<1>2. FollowInv'
  BY <1>1 DEF FollowInv
<1>3. \A id, key, goal : Genuine(id, key, goal) => Genuine(id, key, goal)'
  BY <1>1 DEF Genuine
<1>4. ASSUME /\ announced' # None => announced' = announced
             /\ planner'.route.id # 0 =>
                  Genuine(planner'.route.id, planner'.route.key, planner'.route.goal)
             /\ Solving(busy')
             /\ busy' # None => planner'.route.id # 0
             /\ GoodSlot(inbox')
      PROVE  FlightInv'
  <2>1. announced' # None =>
          Genuine(announced'[1].id, announced'[1].key, announced'[1].goal)
    BY <1>4 DEF FlightInv
  <2>2. GoodSlot(switch.pending) /\ GoodSlot(switch.active)
    BY DEF FlightInv
  <2> QED BY <1>1, <1>4, <2>1, <2>2 DEF FlightInv, Genuine, GoodPlan, GoodSlot, Solving
<1>a. /\ UNCHANGED b5Vars
      /\ GoodSlot(inbox) /\ Solving(busy)
      /\ busy # None => planner.route.id # 0
      /\ planner.route.id # 0 =>
           Genuine(planner.route.id, planner.route.key, planner.route.goal)
  BY <1>1 DEF FlightInv, b5Vars
<1>5. CASE OnTimer
  <2>1. /\ busy = None /\ UNCHANGED <<inbox, announced>>
        /\ \E n : Cycle(n, planner, FALSE)
    BY <1>5 DEF OnTimer, Idle
  <2>2. /\ Solving(busy') /\ planner' = planner
        /\ busy' # None => planner'.route.id # 0
    BY <1>a, <2>1, CycleKeeps
  <2> QED BY <1>2, <1>4, <1>a, <2>1, <2>2
<1>6. CASE OnB5Cycle
  <2>1. /\ busy = None /\ UNCHANGED <<inbox, announced>>
        /\ \/ \E n : Cycle(n, planner, TRUE)
           \/ UNCHANGED <<planner, busy>>
    BY <1>6 DEF OnB5Cycle, Idle
  <2>2. /\ Solving(busy') /\ planner' = planner
        /\ busy' # None => planner'.route.id # 0
    BY <1>a, <2>1, CycleKeeps
  <2> QED BY <1>2, <1>4, <1>a, <2>1, <2>2
<1>7. CASE OnRoute
  <2> DEFINE r == announced[1]
             c == Plan([route |-> r], planner.id + 1, planner.out[1].at)
             p == IF Carries(r) THEN [route |-> r, id |-> planner.id + 1, out |-> <<c>>]
                  ELSE [route |-> r, id |-> planner.id,
                        out |-> IF planner.route.goal = r.goal THEN planner.out ELSE None]
  <2>1. /\ busy = None /\ announced # None /\ announced' = None
        /\ IF node.key = <<r.key>>
           THEN UNCHANGED <<inbox, nodeVars>>
           ELSE /\ IF Carries(r) THEN Deliver(c) ELSE UNCHANGED inbox
                /\ \E n : Cycle(n, p, TRUE)
    BY <1>7 DEF OnRoute, Idle
  <2>2. Genuine(r.id, r.key, r.goal)
    BY <2>1 DEF FlightInv
  <2>3. p.route = r /\ GoodPlan(c)
    BY <2>2 DEF GoodPlan, Plan
  <2> HIDE DEF p, c
  <2>4. CASE node.key = <<r.key>>
    BY <1>2, <1>4, <1>a, <2>1, <2>4 DEF nodeVars
  <2>5. CASE node.key # <<r.key>>
    <3>1. GoodSlot(inbox')
      <4>1. inbox' = inbox \/ inbox' = <<c>>
        BY <2>1, <2>5 DEF Deliver
      <4>2. GoodSlot(<<c>>)
        BY <2>3 DEF GoodSlot
      <4> QED BY <1>a, <4>1, <4>2
    <3>2. /\ Solving(busy') /\ planner' = p
          /\ busy' # None => planner'.route.id # 0
      BY <1>a, <2>1, <2>2, <2>3, <2>5, CycleKeeps
    <3> QED BY <1>2, <1>4, <2>1, <2>2, <2>3, <3>1, <3>2
  <2> QED BY <2>4, <2>5
<1>8. CASE Published
  <2>1. PICK plan \in {Solved, Reused} : Publish(plan)
    BY <1>8 DEF Published
  <2>2. busy # None /\ busy' = None /\ announced' = announced /\ Deliver(plan)
    BY <1>8, <2>1 DEF Published, Publish, Idle
  <2>3. GoodPlan(plan)
    <3>1. GoodPlan(Solved)
      BY <2>2 DEF Solved, FlightInv, Solving
    <3>2. GoodPlan(Reused)
      BY <1>a, <2>2 DEF Reused, Plan, GoodPlan
    <3> QED BY <3>1, <3>2
  <2>4. GoodSlot(inbox')
    <3>1. inbox' \in {inbox, <<plan>>}
      BY <2>2 DEF Deliver
    <3>2. GoodSlot(<<plan>>)
      BY <2>3 DEF GoodSlot
    <3> QED BY <1>a, <3>1, <3>2
  <2>5. planner'.route = planner.route
    <3>1. planner' = [planner EXCEPT !.id = plan.id, !.out = <<plan>>]
      BY <2>1 DEF Publish
    <3> QED BY <3>1
  <2>6. Solving(busy')
    BY <2>2 DEF Solving
  <2> QED BY <1>2, <1>4, <1>a, <2>2, <2>4, <2>5, <2>6
<1> QED BY <1>5, <1>6, <1>7, <1>8

(***************************************************************************)
(* B5's cycle.  What its switch takes was on the way to it, and it follows *)
(* a plan only when the plan's route is the one it has by then.            *)
(***************************************************************************)
LEMMA UpdateFollows ==
  ASSUME NEW sw, NEW c, NEW r, NEW far \in BOOLEAN,
         Update(sw, c, r, far),
         sw.following \in BOOLEAN,
         sw = [pending |-> sw.pending, active |-> sw.active,
               following |-> sw.following, applied |-> sw.applied],
         sw.following /\ sw.pending = None =>
           c = [tracks |-> "plan", medium |-> sw.active],
         ~sw.following => c = Nav2
  PROVE  /\ switch' = [pending |-> switch'.pending, active |-> switch'.active,
                       following |-> switch'.following, applied |-> switch'.applied]
         /\ switch'.following \in BOOLEAN
         /\ switch'.following => /\ switch'.active # None
                                 /\ controller' = [tracks |-> "plan",
                                                   medium |-> switch'.active]
                                 /\ switch'.active[1].route = r.id
         /\ ~switch'.following => controller' = Nav2
         /\ switch'.pending \in {None, sw.pending}
         /\ switch'.active \in {sw.active, sw.pending}
<1>1. CASE Fallback(sw, r, far) = ""
  <2> DEFINE a == Latest(sw)
  <2>1. a # None /\ a[1].route = r.id
    BY <1>1 DEF Fallback
  <2>2. /\ switch' = [pending |-> None, active |-> a, following |-> TRUE,
                      applied |-> a[1].id]
        /\ controller' = IF ~sw.following \/ sw.pending # None \/ sw.applied # a[1].id
                         THEN [tracks |-> "plan", medium |-> a] ELSE c
    BY <1>1 DEF Update, Follow
  <2>3. a = IF sw.pending # None THEN sw.pending ELSE sw.active
    BY DEF Latest
  <2> HIDE DEF a
  <2> QED BY <2>1, <2>2, <2>3
<1>2. CASE Fallback(sw, r, far) # ""
  <2>1. /\ switch' = [sw EXCEPT !.following = FALSE]
        /\ controller' = IF sw.following THEN Nav2 ELSE c
    BY <1>2 DEF Update
  <2>2. switch' = [pending |-> sw.pending, active |-> sw.active,
                   following |-> FALSE, applied |-> sw.applied]
    BY <2>1
  <2> QED BY <2>1, <2>2
<1> QED BY <1>1, <1>2

LEMMA B5Keeps ==
  ASSUME MediumInv, B5Cycle
  PROVE  MediumInv'
<1> USE DEF MediumInv
<1>1. PICK r, sw, c :
        /\ Work(r, sw, c) /\ b5.up /\ b5'.up /\ b5'.run = b5.run
        /\ b5'.up \in BOOLEAN
        /\ inbox' = None /\ UNCHANGED planner /\ route' = r
        /\ b5' = [up |-> b5'.up, active |-> b5'.active, down |-> b5'.down, run |-> b5'.run]
        /\ (busy' # None =>
              /\ busy # None
              /\ busy'[1] = [plan |-> busy[1].plan, spent |-> busy'[1].spent,
                             restarts |-> busy'[1].restarts])
        /\ \/ /\ r = route /\ sw = switch /\ c = controller
              /\ UNCHANGED <<b5, announced>>
           \/ /\ \E g : r = [id |-> route.id + 1, goal |-> <<g>>,
                             key |-> <<b5.run, now, route.id + 1>>]
              /\ sw = RouteChanged(switch) /\ c = Nav2 /\ announced' = <<r>>
  <2>1. busy' # None =>
          /\ busy # None
          /\ busy'[1] = [plan |-> busy[1].plan, spent |-> busy'[1].spent,
                         restarts |-> busy'[1].restarts]
    <3>1. Spend
      BY DEF B5Cycle
    <3>2. CASE busy = None
      BY <3>1, <3>2 DEF Spend, Idle
    <3>3. CASE busy # None
      <4>1. /\ busy' = <<[busy[1] EXCEPT !.spent = @ + 1]>>
            /\ busy[1] = [plan |-> busy[1].plan, spent |-> busy[1].spent,
                          restarts |-> busy[1].restarts]
        BY <3>1, <3>3 DEF Spend, Idle, FlightInv, Solving
      <4> QED BY <3>3, <4>1
    <3> QED BY <3>2, <3>3
  <2>2. CASE b5.active /\ Work(route, switch, controller)
             /\ UNCHANGED <<b5, route, announced>>
    BY <2>1, <2>2 DEF B5Cycle, FlightInv
  <2>3. ASSUME NEW g \in Goals,
               LET r == [id |-> route.id + 1, goal |-> <<g>>,
                         key |-> <<b5.run, now, route.id + 1>>]
               IN /\ Work(r, RouteChanged(switch), Nav2) /\ route' = r
                  /\ announced' = <<r>> /\ b5' = [b5 EXCEPT !.active = TRUE]
        PROVE  \E r, sw, c :
                 /\ Work(r, sw, c) /\ b5.up /\ b5'.up /\ b5'.run = b5.run
                 /\ b5'.up \in BOOLEAN
                 /\ inbox' = None /\ UNCHANGED planner /\ route' = r
                 /\ b5' = [up |-> b5'.up, active |-> b5'.active,
                           down |-> b5'.down, run |-> b5'.run]
                 /\ \E h : r = [id |-> route.id + 1, goal |-> <<h>>,
                                key |-> <<b5.run, now, route.id + 1>>]
                 /\ sw = RouteChanged(switch) /\ c = Nav2 /\ announced' = <<r>>
    <3>1. b5.up /\ b5' = [up |-> b5.up, active |-> TRUE, down |-> b5.down, run |-> b5.run]
      BY <2>3 DEF B5Cycle, FlightInv
    <3> QED BY <2>1, <2>3, <3>1 DEF B5Cycle, FlightInv
  <2> QED BY <2>1, <2>2, <2>3 DEF B5Cycle
<1>2. PICK converts \in BOOLEAN, far \in BOOLEAN :
        (~converts => inbox # None) /\ Update(Taken(sw, converts), c, r, far)
  BY <1>1 DEF Work
<1> DEFINE tk == Taken(sw, converts)
<1>3. /\ sw.pending = switch.pending /\ sw.active = switch.active
      /\ sw.following \in BOOLEAN /\ (sw.following => switch.following)
      /\ sw = [pending |-> sw.pending, active |-> sw.active,
               following |-> sw.following, applied |-> sw.applied]
      /\ sw.following => c = [tracks |-> "plan", medium |-> sw.active]
      /\ ~sw.following => c = Nav2
  <2>1. CASE sw = switch /\ c = controller
    BY <2>1 DEF FollowInv
  <2>2. CASE sw = RouteChanged(switch) /\ c = Nav2
    <3>1. sw = [pending |-> switch.pending, active |-> switch.active,
                following |-> FALSE, applied |-> switch.applied]
      BY <2>2 DEF RouteChanged, FollowInv
    <3> QED BY <2>2, <3>1
  <2> QED BY <1>1, <2>1, <2>2
<1>4. /\ tk.pending \in {sw.pending, inbox} /\ tk.active = sw.active
      /\ tk.following = sw.following
      /\ tk = [pending |-> tk.pending, active |-> tk.active,
               following |-> tk.following, applied |-> tk.applied]
  <2>1. CASE inbox # None /\ converts
    <3>1. tk = [pending |-> inbox, active |-> sw.active,
                following |-> sw.following, applied |-> sw.applied]
      BY <1>3, <2>1 DEF Taken
    <3> QED BY <3>1
  <2>2. CASE ~(inbox # None /\ converts)
    BY <1>3, <2>2 DEF Taken
  <2> QED BY <2>1, <2>2
<1> HIDE DEF tk
<1>5. /\ switch' = [pending |-> switch'.pending, active |-> switch'.active,
                    following |-> switch'.following, applied |-> switch'.applied]
      /\ switch'.following \in BOOLEAN
      /\ switch'.following => /\ switch'.active # None
                              /\ controller' = [tracks |-> "plan",
                                                medium |-> switch'.active]
                              /\ switch'.active[1].route = r.id
      /\ ~switch'.following => controller' = Nav2
      /\ switch'.pending \in {None, tk.pending}
      /\ switch'.active \in {tk.active, tk.pending}
  <2>1. Update(tk, c, r, far)
    BY <1>2 DEF tk
  <2> QED BY <1>3, <1>4, <2>1, UpdateFollows
<1>6. FollowInv'
  BY <1>1, <1>5 DEF FollowInv
<1>7. \A h : GoodPlan(h) => GoodPlan(h)'
  <2>1. \/ UNCHANGED route /\ b5'.run = b5.run /\ b5'.up = b5.up
        \/ b5'.run = b5.run /\ b5.up /\ route'.id = route.id + 1
    BY <1>1
  <2> QED BY <2>1, GenuineStays DEF GoodPlan
<1>8. /\ b5' = [up |-> b5'.up, active |-> b5'.active, down |-> b5'.down, run |-> b5'.run]
      /\ b5'.run \in Nat /\ route'.id \in Nat /\ b5'.up \in BOOLEAN
  BY <1>1 DEF FlightInv
<1>9. (announced # None =>
        Genuine(announced[1].id, announced[1].key, announced[1].goal))'
  <2>1. CASE r = route /\ UNCHANGED <<b5, announced>>
    BY <1>1, <2>1 DEF FlightInv, Genuine
  <2>2. ASSUME NEW g,
               r = [id |-> route.id + 1, goal |-> <<g>>,
                    key |-> <<b5.run, now, route.id + 1>>],
               announced' = <<r>>
        PROVE  Genuine(announced[1].id, announced[1].key, announced[1].goal)'
    <3>1. /\ announced'[1].id = route'.id /\ announced'[1].key = route'.key
          /\ announced'[1].goal = route'.goal
          /\ route'.id = route.id + 1 /\ route'.key[1] = b5.run
      BY <1>1, <2>2
    <3> QED BY <1>1, <3>1 DEF FlightInv, Genuine
  <2> QED BY <1>1, <2>1, <2>2
<1>10. (planner.route.id # 0 =>
         Genuine(planner.route.id, planner.route.key, planner.route.goal))'
  <2>1. \/ UNCHANGED route /\ b5'.run = b5.run /\ b5'.up = b5.up
        \/ b5'.run = b5.run /\ b5.up /\ route'.id = route.id + 1
    BY <1>1
  <2>2. planner' = planner
    BY <1>1
  <2>3. ASSUME planner.route.id # 0
        PROVE  Genuine(planner.route.id, planner.route.key, planner.route.goal)'
    <3>1. Genuine(planner.route.id, planner.route.key, planner.route.goal)
      BY <2>3 DEF FlightInv
    <3> QED BY <2>1, <2>2, <3>1 DEF Genuine, FlightInv
  <2> QED BY <2>2, <2>3
<1>11. Solving(busy)'
  <2>1. ASSUME busy' # None PROVE GoodPlan(busy[1].plan)'
    <3>1. busy # None /\ busy'[1].plan = busy[1].plan
      BY <1>1, <2>1
    <3>2. PICK h : h = busy[1].plan
      OBVIOUS
    <3>3. GoodPlan(h)'
      BY <3>1, <3>2, <1>7 DEF FlightInv, Solving
    <3>4. busy'[1].plan = h
      BY <3>1, <3>2
    <3> QED BY <3>3, <3>4 DEF GoodPlan
  <2>2. busy' # None => busy'[1] = [plan |-> busy'[1].plan, spent |-> busy'[1].spent,
                                    restarts |-> busy'[1].restarts]
    BY <1>1
  <2> QED BY <2>1, <2>2 DEF Solving
<1>12. GoodSlot(inbox)' /\ GoodSlot(switch.pending)' /\ GoodSlot(switch.active)'
  <2>1. GoodSlot(None)' /\ GoodSlot(inbox) /\ GoodSlot(switch.pending)
        /\ GoodSlot(switch.active)
    BY DEF GoodSlot, FlightInv
  <2>2. /\ switch'.pending \in {None, switch.pending, inbox}
        /\ switch'.active \in {switch.active, switch.pending, inbox}
    BY <1>3, <1>4, <1>5
  <2>3. inbox' = None
    BY <1>1
  <2>4. \A slot : GoodSlot(slot) => (slot # None => GoodPlan(slot[1])')
    BY <1>7 DEF GoodSlot
  <2> QED BY <2>1, <2>2, <2>3, <2>4 DEF GoodSlot
<1>13. (busy # None => planner.route.id # 0)'
  BY <1>1 DEF FlightInv
<1> QED BY <1>6, <1>8, <1>9, <1>10, <1>11, <1>12, <1>13 DEF FlightInv

(***************************************************************************)
(* The other steps plan nothing, but a process ends or starts.             *)
(***************************************************************************)
LEMMA ProcessKeeps ==
  ASSUME MediumInv, GoalEnds \/ Dies \/ Starts \/ Pass
  PROVE  MediumInv'
<1> USE DEF MediumInv
<1>1. /\ b5' = [up |-> b5'.up, active |-> b5'.active, down |-> b5'.down, run |-> b5'.run]
      /\ b5'.up \in BOOLEAN
      /\ \/ UNCHANGED route /\ b5'.run = b5.run /\ b5'.up = b5.up
         \/ ~b5'.up /\ b5'.run = b5.run /\ route'.id = 0
         \/ UNCHANGED route /\ ~b5.up /\ b5'.run = b5.run + 1
  <2>1. CASE GoalEnds
    <3>1. b5' = [up |-> b5.up, active |-> FALSE, down |-> b5.down, run |-> b5.run]
      BY <2>1 DEF GoalEnds, FlightInv
    <3> QED BY <2>1, <3>1 DEF GoalEnds, FlightInv
  <2>2. CASE Dies
    <3>1. b5' = [up |-> FALSE, active |-> FALSE, down |-> 0, run |-> b5.run]
      BY <2>2 DEF Dies, FlightInv
    <3> QED BY <2>2, <3>1 DEF Dies, NoRoute
  <2>3. CASE Starts
    <3>1. b5' = [up |-> TRUE, active |-> b5.active, down |-> b5.down, run |-> b5.run + 1]
      BY <2>3 DEF Starts, FlightInv
    <3> QED BY <2>3, <3>1 DEF Starts
  <2>4. CASE Pass
    <3>1. \/ b5' = b5
          \/ b5' = [up |-> b5.up, active |-> b5.active, down |-> b5.down + 1, run |-> b5.run]
      BY <2>4 DEF Pass, FlightInv
    <3> QED BY <2>4, <3>1 DEF Pass, FlightInv
  <2> QED BY <2>1, <2>2, <2>3, <2>4
<1>2. \A id, key, goal : Genuine(id, key, goal) => Genuine(id, key, goal)'
  BY <1>1 DEF Genuine, FlightInv
<1>3. /\ UNCHANGED <<announced, planner>>
      /\ inbox' \in {None, inbox}
      /\ \/ UNCHANGED <<switch, controller>> /\ (b5.up => b5'.up) /\ UNCHANGED route
         \/ switch' = EmptySwitch /\ controller' = Nav2
      /\ busy' # None =>
           /\ busy # None
           /\ busy'[1] = [plan |-> busy[1].plan, spent |-> busy'[1].spent,
                          restarts |-> busy'[1].restarts]
  <2>1. CASE GoalEnds \/ Dies \/ Starts
    <3>1. UNCHANGED <<announced, planner, busy>> /\ inbox' \in {None, inbox}
      BY <2>1 DEF GoalEnds, Dies, Starts, nodeVars
    <3>2. \/ UNCHANGED <<switch, controller>> /\ (b5.up => b5'.up) /\ UNCHANGED route
          \/ switch' = EmptySwitch /\ controller' = Nav2
      <4>1. CASE GoalEnds
        BY <4>1 DEF GoalEnds, FlightInv
      <4>2. CASE Dies
        BY <4>2 DEF Dies
      <4>3. CASE Starts
        BY <4>3 DEF Starts
      <4> QED BY <2>1, <4>1, <4>2, <4>3
    <3> QED BY <3>1, <3>2 DEF FlightInv, Solving
  <2>2. CASE Pass
    <3>1. /\ UNCHANGED <<announced, planner, inbox, switch, controller, route>>
          /\ (b5.up => b5'.up) /\ Spend
      BY <2>2 DEF Pass, FlightInv
    <3>2. ASSUME busy # None
          PROVE  /\ busy' = <<[busy[1] EXCEPT !.spent = @ + 1]>>
                 /\ busy[1] = [plan |-> busy[1].plan, spent |-> busy[1].spent,
                               restarts |-> busy[1].restarts]
      BY <3>1, <3>2 DEF Spend, Idle, FlightInv, Solving
    <3>3. busy' # None =>
            /\ busy # None
            /\ busy'[1] = [plan |-> busy[1].plan, spent |-> busy'[1].spent,
                           restarts |-> busy'[1].restarts]
      BY <3>1, <3>2 DEF Spend, Idle
    <3> QED BY <3>1, <3>3
  <2> QED BY <2>1, <2>2
<1>4. FollowInv'
  <2>1. CASE UNCHANGED <<switch, controller, route>> /\ (b5.up => b5'.up)
    BY <2>1 DEF FollowInv
  <2>2. CASE switch' = EmptySwitch /\ controller' = Nav2
    <3>1. /\ switch'.following = FALSE
          /\ EmptySwitch = [pending |-> EmptySwitch.pending, active |-> EmptySwitch.active,
                            following |-> EmptySwitch.following,
                            applied |-> EmptySwitch.applied]
      BY <2>2 DEF EmptySwitch
    <3> QED BY <2>2, <3>1 DEF FollowInv
  <2> QED BY <1>3, <2>1, <2>2
<1>5. \A h : GoodPlan(h) => GoodPlan(h)'
  BY <1>2 DEF GoodPlan
<1>6. Solving(busy)'
  <2>1. ASSUME busy' # None PROVE GoodPlan(busy[1].plan)'
    <3>1. busy # None /\ busy'[1].plan = busy[1].plan
      BY <1>3, <2>1
    <3>2. PICK h : h = busy[1].plan
      OBVIOUS
    <3>3. GoodPlan(h)'
      BY <3>1, <3>2, <1>5 DEF FlightInv, Solving
    <3> QED BY <3>1, <3>2, <3>3 DEF GoodPlan
  <2>2. busy' # None => busy'[1] = [plan |-> busy'[1].plan, spent |-> busy'[1].spent,
                                    restarts |-> busy'[1].restarts]
    BY <1>3
  <2> QED BY <2>1, <2>2 DEF Solving
<1>7. GoodSlot(inbox)' /\ GoodSlot(switch.pending)' /\ GoodSlot(switch.active)'
  <2>1. GoodSlot(inbox) /\ GoodSlot(switch.pending) /\ GoodSlot(switch.active)
    BY DEF FlightInv
  <2>2. /\ inbox' \in {None, inbox}
        /\ switch'.pending \in {None, switch.pending}
        /\ switch'.active \in {None, switch.active}
    BY <1>3 DEF EmptySwitch
  <2>3. \A slot : GoodSlot(slot) => (slot # None => GoodPlan(slot[1])')
    BY <1>5 DEF GoodSlot
  <2> QED BY <2>1, <2>2, <2>3 DEF GoodSlot
<1>8. /\ (announced # None =>
            Genuine(announced[1].id, announced[1].key, announced[1].goal))'
      /\ (planner.route.id # 0 =>
            Genuine(planner.route.id, planner.route.key, planner.route.goal))'
  <2>1. UNCHANGED <<announced, planner>>
    BY <1>3
  <2>2. ASSUME announced # None
        PROVE  Genuine(announced[1].id, announced[1].key, announced[1].goal)'
    <3>1. Genuine(announced[1].id, announced[1].key, announced[1].goal)
      BY <2>2 DEF FlightInv
    <3> QED BY <1>1, <2>1, <3>1 DEF Genuine, FlightInv
  <2>3. ASSUME planner.route.id # 0
        PROVE  Genuine(planner.route.id, planner.route.key, planner.route.goal)'
    <3>1. Genuine(planner.route.id, planner.route.key, planner.route.goal)
      BY <2>3 DEF FlightInv
    <3> QED BY <1>1, <2>1, <3>1 DEF Genuine, FlightInv
  <2> QED BY <2>1, <2>2, <2>3
<1>9. /\ b5'.run \in Nat /\ route'.id \in Nat
      /\ (busy # None => planner.route.id # 0)'
  BY <1>1, <1>3 DEF FlightInv
<1> QED BY <1>1, <1>4, <1>6, <1>7, <1>8, <1>9 DEF FlightInv

LEMMA MediumInvariant == Spec => []MediumInv
<1>1. MediumInv /\ [Next]_vars => MediumInv'
  <2>1. ASSUME MediumInv, UNCHANGED vars PROVE MediumInv'
    BY <2>1 DEF vars, b5Vars, nodeVars, MediumInv, FlightInv, FollowInv,
         Genuine, GoodPlan, GoodSlot, Solving
  <2> QED BY <2>1, NodeKeeps, B5Keeps, ProcessKeeps DEF Next
<1> QED BY <1>1, InitMedium, PTL DEF Spec

(***************************************************************************)
(* The age of the plan it follows: B5 looks at it in every cycle, and time *)
(* passes without one only while no goal is active.                        *)
(***************************************************************************)
FreshInv ==
  /\ now \in Int
  /\ switch.following /\ b5.active => ~(now - 1 - switch.active[1].at > MediumStale)

LEMMA UpdateFresh ==
  ASSUME NEW sw, NEW c, NEW r, NEW far \in BOOLEAN,
         Update(sw, c, r, far),
         sw = [pending |-> sw.pending, active |-> sw.active,
               following |-> sw.following, applied |-> sw.applied]
  PROVE  switch'.following => ~(now - switch'.active[1].at > MediumStale)
<1>1. CASE Fallback(sw, r, far) = ""
  <2>1. ~(now - Latest(sw)[1].at > MediumStale)
    BY <1>1 DEF Fallback
  <2>2. switch' = Follow(sw)
    BY <1>1 DEF Update
  <2>3. switch'.active = Latest(sw)
    BY <2>2 DEF Follow
  <2> QED BY <2>1, <2>3
<1>2. CASE Fallback(sw, r, far) # ""
  <2>1. switch' = [sw EXCEPT !.following = FALSE]
    BY <1>2 DEF Update
  <2> QED BY <2>1
<1> QED BY <1>1, <1>2

LEMMA B5Looks ==
  ASSUME MediumInv, FreshInv, B5Cycle
  PROVE  FreshInv'
<1>1. PICK r, sw, c : Work(r, sw, c) /\ sw \in {switch, RouteChanged(switch)}
  BY DEF B5Cycle
<1>2. PICK converts \in BOOLEAN, far \in BOOLEAN : Update(Taken(sw, converts), c, r, far)
  BY <1>1 DEF Work
<1>3. sw = [pending |-> sw.pending, active |-> sw.active,
            following |-> sw.following, applied |-> sw.applied]
  BY <1>1 DEF RouteChanged, MediumInv, FollowInv
<1> DEFINE tk == Taken(sw, converts)
<1>4. tk = [pending |-> tk.pending, active |-> tk.active,
            following |-> tk.following, applied |-> tk.applied]
  BY <1>3 DEF Taken
<1>5. switch'.following => ~(now - switch'.active[1].at > MediumStale)
  <2> HIDE DEF tk
  <2>1. Update(tk, c, r, far)
    BY <1>2 DEF tk
  <2> QED BY <1>4, <2>1, UpdateFresh
<1>6. now' \in Int /\ now' - 1 = now
  BY DEF B5Cycle, FreshInv
<1> QED BY <1>5, <1>6 DEF FreshInv, MediumStale

LEMMA FreshInvariant == Spec => []FreshInv
<1>1. Init => FreshInv
  BY DEF Init, FreshInv, EmptySwitch
<1>2. ASSUME MediumInv, FreshInv, [Next]_vars PROVE FreshInv'
  <2>1. CASE OnTimer \/ OnRoute \/ OnB5Cycle \/ Published \/ UNCHANGED vars
    <3>1. UNCHANGED <<now, switch, b5>>
      BY <2>1 DEF OnTimer, OnRoute, OnB5Cycle, Published, Publish, b5Vars, vars
    <3> QED BY <1>2, <3>1 DEF FreshInv, MediumStale
  <2>2. CASE B5Cycle
    BY <1>2, <2>2, B5Looks
  <2>3. CASE GoalEnds \/ Dies \/ Pass
    <3>1. now' \in Int
      BY <1>2, <2>3 DEF GoalEnds, Dies, Pass, FreshInv
    <3>2. ~b5'.active
      <4>1. CASE GoalEnds \/ Dies
        BY <1>2, <4>1 DEF GoalEnds, Dies, MediumInv, FlightInv
      <4>2. CASE Pass
        BY <1>2, <4>2 DEF Pass, MediumInv, FlightInv
      <4> QED BY <2>3, <4>1, <4>2
    <3> QED BY <3>1, <3>2 DEF FreshInv
  <2>4. CASE Starts
    <3>1. UNCHANGED <<now, switch>> /\ b5'.active = b5.active
      BY <1>2, <2>4 DEF Starts, MediumInv, FlightInv
    <3> QED BY <1>2, <3>1 DEF FreshInv, MediumStale
  <2> QED BY <1>2, <2>1, <2>2, <2>3, <2>4 DEF Next
<1> QED BY <1>1, <1>2, MediumInvariant, PTL DEF Spec

(***************************************************************************)
(* While B5 follows the medium layer, its controller tracks the switch's   *)
(* active plan.  The plan carries the active route's id, is not older than *)
(* B5's limit although the medium layer sends a plan again when the cap    *)
(* cuts its solve short, and is for the active route and its goal if it    *)
(* was planned for a route of this process.  Of a plan of an earlier       *)
(* process only its id and its age are known to fit.  Otherwise the        *)
(* controller holds no plan (medium_switch.cpp:14-58,                      *)
(* wholebody_mpc_node.cpp:844-846).                                        *)
(***************************************************************************)
THEOREM FollowsRoute == Spec => []FollowsItsRoute
<1>1. MediumInv /\ FreshInv => FollowsItsRoute
  BY DEF MediumInv, FlightInv, FollowInv, FreshInv, FollowsItsRoute, GoodSlot, GoodPlan, Genuine
<1> QED BY <1>1, MediumInvariant, FreshInvariant, PTL

-----------------------------------------------------------------------------
(***************************************************************************)
(* The planner inside the medium node (MediumPlanner), for every set of    *)
(* seeds, every outcome of its solves and every setting.                   *)
(***************************************************************************)
CONSTANTS Poses, SeedsPerCycle, FullPeriod, ResumeMax, Swings, Outcomes, PanSide,
          Lowered, FullReach, Hysteresis, SideHysteresis, Gain, MaxNow, MaxPlans
VARIABLES goal, routeId, planId, newRoute, fullRequested, lastFull, rotation, last,
          incumbent, waiting, lastSide, resume, out, cycle
Planner == INSTANCE MediumPlanner

(* Besides what NothingOfAnOldGoal says: the fields of what was published,  *)
(* which set_route and an unsolved cycle write in part, and the poses that  *)
(* an iterate may be kept for.                                              *)
OneGoal ==
  /\ out = [status |-> out.status, id |-> out.id, route |-> out.route, goal |-> out.goal,
            at |-> out.at, samples |-> out.samples, feasible |-> out.feasible,
            label |-> out.label, capped |-> out.capped]
  /\ resume = [p \in Planner!PoseSet |-> resume[p]]
  /\ Planner!NothingOfAnOldGoal

(* set_route: what is published goes on for the same goal only, under the   *)
(* new route, and nothing is kept for another one.                          *)
LEMMA RouteKeepsOneGoal ==
  ASSUME OneGoal, NEW g, Planner!SetRoute(g)
  PROVE  OneGoal'
<1>1. CASE goal = <<g>>
  <2>1. /\ goal' = goal /\ routeId' = routeId + 1
        /\ UNCHANGED <<last, lastSide, resume>>
    BY <1>1 DEF Planner!SetRoute, Planner!SameGoal
  <2>2. CASE out.samples = "none"
    BY <1>1, <2>1, <2>2 DEF Planner!SetRoute, Planner!SameGoal, OneGoal, Planner!NothingOfAnOldGoal
  <2>3. CASE out.samples # "none"
    <3>1. out' = [out EXCEPT !.route = routeId', !.id = planId']
      BY <1>1, <2>3 DEF Planner!SetRoute, Planner!SameGoal
    <3>2. out' = [status |-> out.status, id |-> planId', route |-> routeId', goal |-> out.goal,
                  at |-> out.at, samples |-> out.samples, feasible |-> out.feasible,
                  label |-> out.label, capped |-> out.capped]
      BY <3>1 DEF OneGoal
    <3> QED BY <2>1, <2>3, <3>2 DEF OneGoal, Planner!NothingOfAnOldGoal
  <2> QED BY <2>2, <2>3
<1>2. CASE goal # <<g>>
  <2>1. /\ out' = [status |-> "", id |-> 0, route |-> 0, goal |-> Planner!None, at |-> 0,
                   samples |-> "none", feasible |-> FALSE, label |-> Planner!NoLabel,
                   capped |-> FALSE]
        /\ last' = Planner!None /\ lastSide' = ""
        /\ resume' = [p \in Planner!PoseSet |-> Planner!None]
    BY <1>2 DEF Planner!SetRoute, Planner!SameGoal, Planner!NoPlan
  <2>2. resume' = [p \in Planner!PoseSet |-> resume'[p]]
    BY <2>1
  <2> QED BY <2>1, <2>2 DEF OneGoal, Planner!NothingOfAnOldGoal
<1> QED BY <1>1, <1>2

(* A seed solved: the iterate of one that the cap cut is kept for the goal. *)
LEMMA SeedKeepsOneGoal ==
  ASSUME OneGoal, Planner!SolveSeed
  PROVE  OneGoal'
<1>1. UNCHANGED <<goal, routeId, last, lastSide, out>>
  BY DEF Planner!SolveSeed
<1> DEFINE name == cycle.seeds[Len(cycle.results) + 1]
<1>2. resume' = resume \/
        \E cut : resume' = [resume EXCEPT ![name] = IF cut THEN [at |-> now, goal |-> goal]
                                                        ELSE Planner!None]
  <2>1. \E cut : resume' = IF Len(cycle.results) + 1 = 1 THEN resume
                          ELSE [resume EXCEPT ![cycle.seeds[Len(cycle.results) + 1]] =
                                  IF cut THEN [at |-> now, goal |-> goal] ELSE Planner!None]
    BY SMT DEF Planner!SolveSeed
  <2> QED BY <2>1, Zenon
<1> HIDE DEF name
<1>3. resume' = [p \in Planner!PoseSet |-> resume'[p]]
  BY <1>2 DEF OneGoal
<1>4. ASSUME NEW p \in Planner!PoseSet, resume'[p] # Planner!None
      PROVE  resume'[p].goal = goal
  <2>1. resume[p] # Planner!None => resume[p].goal = goal
    BY DEF OneGoal, Planner!NothingOfAnOldGoal
  <2>2. resume'[p] = resume[p] \/ resume'[p] = [at |-> now, goal |-> goal]
    <3>1. resume = [q \in Planner!PoseSet |-> resume[q]]
      BY DEF OneGoal
    <3> QED BY <1>2, <1>4, <3>1
  <2> QED BY <1>4, <2>1, <2>2
<1> QED BY <1>1, <1>3, <1>4 DEF OneGoal, Planner!NothingOfAnOldGoal

(* The end of a cycle: the incumbent was cut short, or a solution chosen.   *)
LEMMA CycleKeepsOneGoal ==
  ASSUME OneGoal, Planner!FinishUnsolved \/ Planner!FinishSolved
  PROVE  OneGoal'
<1>1. CASE Planner!FinishUnsolved
  <2>1. UNCHANGED <<goal, routeId, last, lastSide, resume>>
    BY <1>1 DEF Planner!FinishUnsolved
  <2>2. CASE out.samples # "none"
    <3>1. out' = [out EXCEPT !.status = "stale_reused", !.route = routeId, !.id = planId,
                             !.capped = TRUE]
      BY <1>1, <2>2 DEF Planner!FinishUnsolved
    <3>2. out' = [status |-> "stale_reused", id |-> planId, route |-> routeId,
                  goal |-> out.goal, at |-> out.at, samples |-> out.samples,
                  feasible |-> out.feasible, label |-> out.label, capped |-> TRUE]
      BY <3>1 DEF OneGoal
    <3> QED BY <2>1, <2>2, <3>2 DEF OneGoal, Planner!NothingOfAnOldGoal
  <2>3. CASE out.samples = "none"
    BY <1>1, <2>1, <2>3 DEF Planner!FinishUnsolved, OneGoal, Planner!NothingOfAnOldGoal
  <2> QED BY <2>2, <2>3
<1>2. CASE Planner!FinishSolved
  <2>1. /\ UNCHANGED <<goal, routeId>>
        /\ last' = [goal |-> goal, at |-> now]
        /\ \E ok, label : out' = [status |-> IF ok THEN "ok" ELSE "infeasible", id |-> planId,
                   route |-> routeId, goal |-> goal, at |-> now, samples |-> "solved",
                   feasible |-> ok, label |-> label, capped |-> cycle.capped]
        /\ resume' = resume \/ \E name : resume' = [resume EXCEPT ![name] = Planner!None]
    BY <1>2 DEF Planner!FinishSolved
  <2>2. last' # Planner!None /\ last'.goal = goal
    BY <2>1 DEF Planner!None
  <2>3. /\ resume' = [p \in Planner!PoseSet |-> resume'[p]]
        /\ \A p \in Planner!PoseSet : resume'[p] # Planner!None => resume'[p].goal = goal
    BY <2>1 DEF OneGoal, Planner!NothingOfAnOldGoal
  <2>4. /\ out' = [status |-> out'.status, id |-> out'.id, route |-> out'.route,
                   goal |-> out'.goal, at |-> out'.at, samples |-> out'.samples,
                   feasible |-> out'.feasible, label |-> out'.label, capped |-> out'.capped]
        /\ out'.goal = goal /\ out'.route = routeId
    BY <2>1
  <2> QED BY <2>1, <2>2, <2>3, <2>4 DEF OneGoal, Planner!NothingOfAnOldGoal
<1> QED BY <1>1, <1>2

(***************************************************************************)
(* Nothing a goal left behind reaches the next one: not its published      *)
(* plan, its swing side or an iterate to go on from, and a published plan   *)
(* carries the route it is published for (planner.cpp:117-146).            *)
(***************************************************************************)
THEOREM PlansOfOneGoal == Planner!Spec => []Planner!NothingOfAnOldGoal
<1>1. ASSUME Planner!Init
      PROVE  OneGoal
  <2>1. /\ out = [status |-> "", id |-> 0, route |-> 0, goal |-> Planner!None, at |-> 0,
                  samples |-> "none", feasible |-> FALSE, label |-> Planner!NoLabel,
                  capped |-> FALSE]
        /\ last = Planner!None /\ lastSide = ""
        /\ resume = [p \in Planner!PoseSet |-> Planner!None]
    BY <1>1 DEF Planner!Init, Planner!NoPlan
  <2>2. resume = [p \in Planner!PoseSet |-> resume[p]]
    BY <2>1
  <2> QED BY <2>1, <2>2 DEF OneGoal, Planner!NothingOfAnOldGoal
<1>2. OneGoal /\ [Planner!Next]_Planner!vars => OneGoal'
  <2> SUFFICES ASSUME OneGoal, [Planner!Next]_Planner!vars
               PROVE  OneGoal'
    OBVIOUS
  <2>1. CASE Planner!RequestFull \/ Planner!BeginCycle \/ UNCHANGED Planner!vars
    <3>1. UNCHANGED <<goal, routeId, last, lastSide, resume, out>>
      BY <2>1 DEF Planner!RequestFull, Planner!BeginCycle, Planner!vars, Planner!kept
    <3> QED BY <3>1 DEF OneGoal, Planner!NothingOfAnOldGoal
  <2> QED BY <2>1, RouteKeepsOneGoal, SeedKeepsOneGoal, CycleKeepsOneGoal DEF Planner!Next
<1>3. OneGoal => Planner!NothingOfAnOldGoal
  BY DEF OneGoal
<1> QED BY <1>1, <1>2, <1>3, PTL DEF Planner!Spec

(***************************************************************************)
(* Theorems about Scp, the loop of convexified problems the medium planner *)
(* solves for every seed.                                                  *)
(***************************************************************************)
CONSTANTS MaxIter, MaxMade, TrustInit, TrustMax, Merits, Predictions, StepTol, MeritTol,
          RowCounts, Variables
VARIABLES backend, space, set, pc, iters, late, cur, rows, seen, trust, warm, lin, step,
          made, ended, started
Solver == INSTANCE Scp

(* The types, one trajectory, and a QP's step within the trust region it    *)
(* was solved in, which is what keeps a smaller region from being larger.   *)
ScpInv ==
  /\ Solver!TypeOK
  /\ Solver!OneTrajectory
  /\ trust = 0 => pc = "done"
  /\ pc = "merit" => step.size \in 0..trust

(* Half of a trust region is a smaller one.                                 *)
LEMMA HalfIsLess ==
  ASSUME NEW n \in Nat
  PROVE  n \div 2 \in 0..n
OBVIOUS

(* A candidate is judged: one that is kept brings its own rows and          *)
(* violations along, one that is not leaves those of the one before.        *)
LEMMA JudgeKeepsScp ==
  ASSUME Solver!Parameters, ScpInv, Solver!Judge
  PROVE  ScpInv'
<1>1. /\ trust \in Nat /\ TrustMax \in Nat /\ trust <= TrustMax /\ step.size \in 0..trust
      /\ iters' = iters /\ lin' = lin /\ step' = step /\ pc = "merit"
      /\ pc' \in {"loop", "done"} /\ made' \in Nat
      /\ ended' \in {"no", "converged", "interrupted", "exhausted", "threw"}
  BY DEF Solver!Judge, Solver!Parameters, ScpInv, Solver!TypeOK, Solver!End, Solver!GoOn
<1>2. PICK c \in Solver!Valued(made + 1) :
        IF Solver!Keeps(c)
        THEN /\ Solver!Accepted(c) /\ trust' = Solver!Grown(c)
             /\ IF Solver!LittleGained(c) THEN Solver!End("converged") ELSE Solver!GoOn
        ELSE /\ UNCHANGED <<cur, rows, seen>>
             /\ trust' = (IF step.size < StepTol THEN trust ELSE Solver!Smaller(trust, step.size) \div 2)
             /\ IF step.size < StepTol \/ trust' = 0 THEN Solver!End("converged") ELSE Solver!GoOn
  BY DEF Solver!Judge
<1>3. c.merit \in Merits /\ c.ok \in BOOLEAN
  BY DEF Solver!Valued
<1>4. CASE Solver!Keeps(c)
  <2>1. cur' = c /\ rows' = c.id /\ seen' = c.id
    BY <1>2, <1>4 DEF Solver!Accepted
  <2>2. trust' \in trust..TrustMax
    BY <1>1, <1>2, <1>4 DEF Solver!Grown, Solver!Smaller
  <2>3. trust # 0
    BY <1>1 DEF ScpInv
  <2> QED BY <1>1, <1>3, <2>1, <2>2, <2>3 DEF ScpInv, Solver!TypeOK, Solver!OneTrajectory
<1>5. CASE ~Solver!Keeps(c)
  <2>1. UNCHANGED <<cur, rows, seen>>
    BY <1>2, <1>5
  <2>2. trust' \in 0..trust
    BY <1>1, <1>2, <1>5 DEF Solver!Smaller
  <2>3. trust' = 0 => pc' = "done"
    BY <1>2, <1>5 DEF Solver!End
  <2> QED BY <1>1, <2>1, <2>2, <2>3 DEF ScpInv, Solver!TypeOK, Solver!OneTrajectory
<1> QED BY <1>4, <1>5

(* The QP is solved, or not, or setting it up throws.                       *)
LEMMA QpKeepsScp ==
  ASSUME Solver!Parameters, ScpInv, Solver!SolveQp
  PROVE  ScpInv'
<1>1. /\ UNCHANGED <<iters, cur, rows, seen, lin, made>> /\ pc = "qp" /\ trust \in Nat /\ trust <= TrustMax
      /\ TrustMax \in Nat /\ trust # 0
  BY DEF Solver!SolveQp, Solver!NotSolved, Solver!Solved, Solver!SetupThrows, Solver!Parameters,
         ScpInv, Solver!TypeOK
<1>2. CASE Solver!QpFails
  <2>1. /\ trust' \in 0..trust /\ pc' \in {"loop", "done"} /\ (trust' = 0 => pc' = "done")
        /\ \/ ended' = ended
           \/ ended' \in {"interrupted", "exhausted"}
    BY <1>1, <1>2, HalfIsLess DEF Solver!QpFails, Solver!End, Solver!GoOn, Solver!Stopped
  <2> QED BY <1>1, <2>1 DEF ScpInv, Solver!TypeOK, Solver!OneTrajectory
<1>3. CASE Solver!Solved /\ ~Solver!QpFails
  <2>1. pc' = "merit" /\ trust' = trust /\ ended' = ended /\ step'.size \in 0..trust
    BY <1>3 DEF Solver!Solved
  <2> QED BY <1>1, <2>1 DEF ScpInv, Solver!TypeOK, Solver!OneTrajectory
<1>4. CASE Solver!SetupThrows
  <2>1. pc' = "done" /\ ended' = "threw" /\ trust' = trust
    BY <1>4 DEF Solver!SetupThrows, Solver!End
  <2> QED BY <1>1, <2>1 DEF ScpInv, Solver!TypeOK, Solver!OneTrajectory
<1> QED BY <1>2, <1>3, <1>4 DEF Solver!SolveQp, Solver!NotSolved

LEMMA ScpByEachStep ==
  ASSUME Solver!Parameters
  PROVE  ScpInv /\ [Solver!Next]_Solver!vars => ScpInv'
<1> SUFFICES ASSUME ScpInv, [Solver!Next]_Solver!vars
             PROVE  ScpInv'
  OBVIOUS
<1>1. CASE Solver!Linearize
  <2>1. iters' \in 0..MaxIter
    BY <1>1 DEF Solver!Linearize, Solver!Parameters, ScpInv, Solver!TypeOK
  <2>2. lin'.of = cur.id /\ lin'.rows = rows
    BY <1>1 DEF Solver!Linearize
  <2> QED BY <1>1, <2>1, <2>2 DEF Solver!Linearize, ScpInv, Solver!TypeOK, Solver!OneTrajectory
<1>2. CASE Solver!SolveQp
  BY <1>2, QpKeepsScp
<1>3. CASE Solver!Judge
  BY <1>3, JudgeKeepsScp
<1>4. CASE Solver!LeaveLoop
  BY <1>4 DEF Solver!LeaveLoop, Solver!End, Solver!Stopped, Solver!loop, ScpInv, Solver!TypeOK,
              Solver!OneTrajectory
<1>5. CASE Solver!DeadlinePasses
  BY <1>5 DEF Solver!DeadlinePasses, ScpInv, Solver!TypeOK, Solver!OneTrajectory
<1>6. CASE Solver!Again
  <2>1. trust' \in 1..TrustMax /\ iters' \in 0..MaxIter /\ made' \in Nat
    BY <1>6 DEF Solver!Again, Solver!Parameters, ScpInv, Solver!TypeOK
  <2>2. cur'.id = made + 1 /\ cur'.merit \in Merits /\ cur'.ok \in BOOLEAN
    BY <1>6 DEF Solver!Again, Solver!Valued
  <2> QED BY <1>6, <2>1, <2>2 DEF Solver!Again, ScpInv, Solver!TypeOK, Solver!OneTrajectory
<1>7. CASE UNCHANGED Solver!vars
  BY <1>7 DEF Solver!vars, Solver!loop, ScpInv, Solver!TypeOK, Solver!OneTrajectory
<1> QED BY <1>1, <1>2, <1>3, <1>4, <1>5, <1>6, <1>7 DEF Solver!Next

LEMMA ScpReached ==
  ASSUME Solver!Parameters
  PROVE  Solver!Spec => []ScpInv
<1>1. Solver!Init => ScpInv
  <2> SUFFICES ASSUME Solver!Init
               PROVE  ScpInv
    OBVIOUS
  <2>1. cur.id = 0 /\ cur.merit \in Merits /\ cur.ok \in BOOLEAN
    BY DEF Solver!Init, Solver!Valued
  <2> QED BY <2>1 DEF Solver!Init, Solver!Parameters, ScpInv, Solver!TypeOK, Solver!OneTrajectory
<1> QED BY <1>1, ScpByEachStep, PTL DEF Solver!Spec

(* Every QP is built from the collision rows of the trajectory it           *)
(* linearizes, and what decides whether the result is feasible was measured *)
(* on that result, whatever was judged and thrown away between (scp.cpp).   *)
THEOREM OneTrajectoryKept ==
  ASSUME Solver!Parameters
  PROVE  Solver!Spec => [](Solver!TypeOK /\ Solver!OneTrajectory)
<1>1. ScpInv => Solver!TypeOK /\ Solver!OneTrajectory
  BY DEF ScpInv
<1> QED BY <1>1, ScpReached, PTL

(* Within one call of solve_scp the merit only falls, and a new trajectory  *)
(* has a smaller one, for all merits, predictions and trust regions         *)
(* ("keeps the step only if the exact merit decreases", scp.hpp).           *)
THEOREM MeritFalls ==
  ASSUME Solver!Parameters
  PROVE  Solver!Spec => Solver!OnlyImproves
<1>1. ScpInv /\ [Solver!Next]_Solver!vars => [Solver!Improves]_Solver!vars
  <2> SUFFICES ASSUME ScpInv, Solver!Next, pc # "done"
               PROVE  cur'.merit <= cur.merit /\ (cur'.id # cur.id => cur'.merit < cur.merit)
    BY DEF Solver!Improves
  <2>1. cur.merit \in Int
    BY DEF ScpInv, Solver!TypeOK, Solver!Parameters
  <2>2. CASE cur' = cur
    BY <2>1, <2>2
  <2>3. CASE cur' # cur
    <3>1. Solver!Judge
      BY <2>3 DEF Solver!Next, Solver!Linearize, Solver!SolveQp, Solver!LeaveLoop, Solver!loop,
                  Solver!DeadlinePasses, Solver!Again
    <3>2. PICK c \in Solver!Valued(made + 1) : Solver!Keeps(c) /\ cur' = c
      BY <2>3, <3>1 DEF Solver!Judge, Solver!Accepted
    <3>3. c.merit \in Int
      BY DEF Solver!Valued, Solver!Parameters
    <3> QED BY <2>1, <3>2, <3>3 DEF Solver!Keeps, Solver!Actual
  <2> QED BY <2>2, <2>3
<1> QED BY <1>1, ScpReached, PTL DEF Solver!Spec, Solver!OnlyImproves
=============================================================================

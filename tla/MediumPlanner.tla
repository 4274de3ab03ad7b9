--------------------------- MODULE MediumPlanner ---------------------------
(* One medium-layer planner (mobile_manipulator_medium/planner.cpp): what   *)
(* it keeps from cycle to cycle, and a cycle as a run over its seeds under  *)
(* the solve cap.  A solution is abstracted to what the choice between      *)
(* solutions tells apart: the pan's extremes and the panel's drop, its      *)
(* feasibility and merit (the slack of an infeasible one), its reach along  *)
(* the route, and whether the cap cut it.  The SCP itself is Scp.           *)
EXTENDS Integers, Sequences, FiniteSets, SequencesExt

CONSTANTS
  Poses,            \* config.seeds without "previous", in order
  SeedsPerCycle, FullPeriod,    \* config: seeds_per_cycle, full_multistart_period_s
  ResumeMax,        \* kResumeMaxAgeS
  Swings,           \* seed -> pan extremes and drop its solution can have
  Outcomes,         \* feasible, merit, reach and turn ahead of a solution
  PanSide, Lowered, \* kPanSideRad, kLoweredM
  FullReach,        \* min(the reach at the reference speed, the route left)
  Hysteresis, SideHysteresis,   \* in percent
  Gain,             \* kProgressGainM
  Goals, MaxNow, MaxPlans, MaxRoutes

VARIABLES
  now,
  goal, routeId, planId,        \* goal_, route_id_, plan_id_ (the counter)
  newRoute, fullRequested, lastFull, rotation,
  last,                         \* last_: the goal and label of the published solution, and last_now_
  incumbent, waiting, lastSide,
  resume,                       \* resume_: pose -> the goal and time of its cut iterate
  out,                          \* out_
  cycle                         \* the running plan(): its seeds and results

kept == <<goal, routeId, planId, newRoute, fullRequested, lastFull, rotation, last, incumbent,
          waiting, lastSide, resume, out>>
vars == <<now, kept, cycle>>

\* load_medium_config: a number of seeds, a period, seeds that are told apart.
Parameters ==
  /\ SeedsPerCycle \in Nat /\ FullPeriod \in Nat
  /\ IsInjective(Poses)
  /\ Hysteresis \in Nat /\ SideHysteresis \in Nat

None == <<>>
NoLabel == <<"none", FALSE>>  \* not the comfort label, <<"", FALSE>>
PoseSet == Range(Poses)
NoPlan == [status |-> "", id |-> 0, route |-> 0, goal |-> None, at |-> 0, samples |-> "none",
           feasible |-> FALSE, label |-> NoLabel, capped |-> FALSE]
NoCycle == [seeds |-> <<>>, results |-> <<>>, kept |-> {}, resumed |-> {}, full |-> FALSE,
            lastOk |-> FALSE, capped |-> FALSE, expired |-> FALSE, running |-> FALSE]
(* A label is the side the panel swings to and whether it is lowered.       *)
SideOf(label) == label[1]
HomotopyLabel(s) ==
  <<IF s.panMax <= PanSide /\ s.panMin >= -PanSide THEN ""
    ELSE IF s.panMax >= -s.panMin THEN "left" ELSE "right",
    s.drop > Lowered>>
(* A solution moves when it gets a share (in percent) of its way; one that  *)
(* does not waits, unless a turn in place within that share stops it.       *)
Moving(r, share) == 100 * r.reach >= share * FullReach
Waits(r, share) == ~Moving(r, share) /\ 100 * r.turnAt > share * FullReach
SlowingShare == 75

Init ==
  /\ now = 0 /\ goal = None /\ routeId = 0 /\ planId = 0
  /\ newRoute = FALSE /\ fullRequested = FALSE /\ lastFull = -FullPeriod /\ rotation = 0
  /\ last = None /\ incumbent = NoLabel /\ waiting = FALSE /\ lastSide = ""
  /\ resume = [p \in PoseSet |-> None] /\ out = NoPlan /\ cycle = NoCycle

(* Mutant: any route after the first is a replan.                           *)
HasGoal(g) == goal # None
SameGoal(g) == goal = <<g>>

(* set_route: a replan of the same goal carries the published plan on under *)
(* the new route; a new goal starts over.                                   *)
SetRoute(g) ==
  /\ ~cycle.running /\ planId < MaxPlans /\ routeId < MaxRoutes
  /\ goal' = <<g>> /\ routeId' = routeId + 1 /\ newRoute' = TRUE
  /\ IF SameGoal(g)
     THEN /\ IF out.samples = "none" THEN UNCHANGED <<planId, out>>
             ELSE /\ planId' = planId + 1
                  /\ out' = [out EXCEPT !.route = routeId', !.id = planId']
          /\ UNCHANGED <<last, incumbent, waiting, lastSide, resume>>
     ELSE /\ last' = None /\ incumbent' = NoLabel /\ waiting' = FALSE /\ lastSide' = ""
          /\ resume' = [p \in PoseSet |-> None] /\ out' = NoPlan
          /\ UNCHANGED planId
  /\ UNCHANGED <<now, fullRequested, lastFull, rotation, cycle>>

RequestFull ==
  /\ ~cycle.running /\ ~fullRequested
  /\ fullRequested' = TRUE
  /\ UNCHANGED <<now, goal, routeId, planId, newRoute, lastFull, rotation, last, incumbent, waiting,
                 lastSide, resume, out, cycle>>

---------------------------------------------------------------------------
(* plan(): the seeds.                                                       *)
Periodic == SeedsPerCycle = 0 /\ now - lastFull >= FullPeriod
Full == last = None \/ (newRoute /\ SeedsPerCycle = 0) \/ fullRequested \/ Periodic
PoseAt(i) == Poses[(i % Len(Poses)) + 1]
Turns == IF Full THEN Poses
         ELSE [i \in 1..(IF SeedsPerCycle < Len(Poses) THEN SeedsPerCycle ELSE Len(Poses)) |->
                 PoseAt(rotation + i - 1)]
(* pose_seed_named: on from the iterate the cap cut short, when it is young *)
Resumable(p) == resume[p] # None /\ now - resume[p].at <= ResumeMax
BeginCycle ==
  /\ ~cycle.running /\ goal # None /\ planId < MaxPlans
  /\ \E t \in {now, now + 1} : t <= MaxNow /\ now' = t
  /\ planId' = planId + 1
  /\ cycle' = [NoCycle EXCEPT !.seeds = <<IF last = None THEN "hold" ELSE "previous">> \o Turns,
                              !.resumed = {p \in Range(Turns) : Resumable(p)},
                              !.full = Full, !.lastOk = out.status = "ok", !.running = TRUE]
  /\ rotation' = IF Full THEN 0 ELSE (rotation + Len(Turns)) % Len(Poses)
  /\ UNCHANGED <<goal, routeId, newRoute, fullRequested, lastFull, last, incumbent, waiting, lastSide,
                 resume, out>>

(* One seed solved.  A result within the merge tolerance of a distinct one  *)
(* is not distinct; the better of the two (feasible, then cheaper) takes    *)
(* the distinct one's place.                                                *)
Better(r, s) == (r.feasible /\ ~s.feasible) \/ (r.feasible = s.feasible /\ r.merit < s.merit)
Merged(rs, i, r) == IF Better(r, rs[i]) THEN Append([rs EXCEPT ![i] = r], rs[i]) ELSE Append(rs, r)
(* An incumbent that turned infeasible, or waits, brings every other seed.  *)
Others(first) ==
  LET turn == [i \in 1..Len(Poses) |-> PoseAt(rotation + i - 1)]
  IN IF ~cycle.full /\ ((cycle.lastOk /\ ~first.feasible) \/ waiting)
     THEN SelectSeq(turn, LAMBDA p : p \notin Range(cycle.seeds)) ELSE <<>>

SolveSeed ==
  LET index == Len(cycle.results) + 1
      name == cycle.seeds[index]
  IN /\ cycle.running /\ index <= Len(cycle.seeds)
     /\ ~(index > 1 /\ cycle.expired)
     /\ \E expired \in {cycle.expired, TRUE}, o \in Outcomes, s \in Swings[name] :
        \E cut \in (IF expired THEN BOOLEAN ELSE {FALSE}) :
        LET r == [name |-> name, label |-> HomotopyLabel(s), feasible |-> o.feasible, merit |-> o.merit,
                  reach |-> o.reach, turnAt |-> o.turnAt, cut |-> cut]
            same == {i \in cycle.kept : cycle.results[i].label = r.label}
        IN \E into \in (IF cut THEN {0} ELSE {0} \cup same) :
           LET results == IF into = 0 THEN Append(cycle.results, r) ELSE Merged(cycle.results, into, r)
               more == IF index = 1 THEN Others(r) ELSE <<>>
           IN /\ cycle' = [cycle EXCEPT
                    !.results = results,
                    !.kept = IF into = 0 /\ ~cut THEN @ \cup {index} ELSE @,
                    !.expired = expired, !.capped = expired,
                    !.seeds = @ \o more,
                    !.resumed = @ \cup {p \in Range(more) : Resumable(p)}]
              /\ resume' = IF index = 1 THEN resume
                           ELSE [resume EXCEPT ![name] = IF cut THEN [at |-> now, goal |-> goal] ELSE None]
  /\ UNCHANGED <<now, goal, routeId, planId, newRoute, fullRequested, lastFull, rotation, last,
                 incumbent, waiting, lastSide, out>>

SeedsDone == Len(cycle.results) = Len(cycle.seeds) \/ (cycle.results # <<>> /\ cycle.expired)
Solved == ~cycle.results[1].cut

---------------------------------------------------------------------------
(* plan(): the choice.                                                      *)
Result(i) == cycle.results[i]
Cheapest(S) == CHOOSE i \in S : \A j \in S : Result(i).merit < Result(j).merit \/ (Result(i).merit = Result(j).merit /\ i <= j)
Feasible == {i \in cycle.kept : Result(i).feasible}
Slow(i) == Waits(Result(i), SlowingShare)
(* Past a slowing plan only those reaching further stay eligible, beside a  *)
(* moving one only those that move.                                         *)
Eligible ==
  IF Slow(Cheapest(Feasible))
  THEN LET further == {i \in Feasible : Result(i).reach >= Result(Cheapest(Feasible)).reach + Gain}
       IN IF further # {} THEN further ELSE Feasible
  ELSE {i \in Feasible : ~Slow(i)}
CloseTo(held, best, percent) == 100 * Result(best).merit > (100 - percent) * Result(held).merit
KeepIfClose(best, held, percent) ==
  IF held = {} THEN best
  ELSE IF Cheapest(held) # best /\ CloseTo(Cheapest(held), best, percent) THEN Cheapest(held) ELSE best
OnIncumbent(best) ==
  IF incumbent = NoLabel \/ Result(best).label = incumbent THEN best
  ELSE KeepIfClose(best, {i \in Eligible : Result(i).label = incumbent}, Hysteresis)
OnLastSide(best) ==
  LET side == SideOf(Result(best).label)
  IN IF lastSide = "" \/ side \in {"", lastSide} THEN best
     ELSE KeepIfClose(best, {i \in Eligible : SideOf(Result(i).label) = lastSide}, SideHysteresis)
Chosen == IF Feasible # {} THEN OnLastSide(OnIncumbent(Cheapest(Eligible)))
          ELSE Cheapest(cycle.kept)

(* A cycle whose incumbent the cap cut short re-sends what it published     *)
(* last, or, with nothing published, the seed as it is.                     *)
FinishUnsolved ==
  /\ cycle.running /\ cycle.results # <<>> /\ SeedsDone /\ ~Solved
  /\ out' = IF out.samples # "none"
            THEN [out EXCEPT !.status = "stale_reused", !.route = routeId, !.id = planId, !.capped = TRUE]
            ELSE [status |-> "infeasible", id |-> planId, route |-> routeId, goal |-> goal, at |-> now,
                  samples |-> "unsolved", feasible |-> FALSE, label |-> Result(1).label, capped |-> TRUE]
  /\ cycle' = NoCycle
  /\ UNCHANGED <<now, goal, routeId, planId, newRoute, fullRequested, lastFull, rotation, last,
                 incumbent, waiting, lastSide, resume>>

(* The seeds a capped full multi-start did not complete come first in turn. *)
Completed == {cycle.results[i].name : i \in {j \in DOMAIN cycle.results : ~Result(j).cut}}
FirstIncomplete ==
  LET left == {i \in DOMAIN Poses : Poses[i] \notin Completed}
  IN IF left = {} THEN 0 ELSE (CHOOSE i \in left : \A j \in left : i <= j) - 1
FinishSolved ==
  /\ cycle.running /\ cycle.results # <<>> /\ SeedsDone /\ Solved
  /\ LET r == Result(Chosen)
         ok == Feasible # {}
     IN /\ out' = [status |-> IF ok THEN "ok" ELSE "infeasible", id |-> planId, route |-> routeId,
                   goal |-> goal, at |-> now, samples |-> "solved", feasible |-> ok, label |-> r.label,
                   capped |-> cycle.capped]
        /\ last' = [goal |-> goal, at |-> now] /\ incumbent' = r.label
        /\ waiting' = (ok /\ Waits(r, 50))
        /\ lastSide' = IF ok /\ SideOf(r.label) # "" THEN SideOf(r.label) ELSE lastSide
        /\ resume' = IF r.name \in PoseSet THEN [resume EXCEPT ![r.name] = None] ELSE resume
  /\ LET retired == ~cycle.capped \/ (cycle.full /\ SeedsPerCycle > 0)
     IN /\ newRoute' = (newRoute /\ ~retired) /\ fullRequested' = (fullRequested /\ ~retired)
        /\ lastFull' = IF retired /\ cycle.full THEN now ELSE lastFull
        /\ rotation' = IF retired /\ cycle.capped THEN FirstIncomplete ELSE rotation
  /\ cycle' = NoCycle
  /\ UNCHANGED <<now, goal, routeId, planId>>

Next == \/ \E g \in Goals : SetRoute(g)
        \/ RequestFull \/ BeginCycle \/ SolveSeed \/ FinishUnsolved \/ FinishSolved
Spec == Init /\ [][Next]_vars

---------------------------------------------------------------------------
(* The planner's members have their types.                                  *)
TypeOK ==
  /\ now \in 0..MaxNow /\ planId \in 0..MaxPlans /\ rotation \in 0..Len(Poses)
  /\ cycle.kept \subseteq DOMAIN cycle.results /\ Len(cycle.results) <= Len(cycle.seeds)
  /\ out.status \in {"", "ok", "infeasible", "stale_reused"} /\ out.samples \in {"none", "solved", "unsolved"}
  /\ lastSide \in {"", "left", "right"}

(* What one goal left behind never reaches the next: neither its published  *)
(* plan, nor its incumbent, its swing side or an iterate to go on from; a   *)
(* plan that is published carries the route it is published for             *)
(* (planner.cpp:117-146).                                                   *)
NothingOfAnOldGoal ==
  /\ out.samples # "none" => out.goal = goal /\ out.route = routeId
  /\ last # None => last.goal = goal
  /\ \A p \in PoseSet : resume[p] # None => resume[p].goal = goal
  /\ lastSide # "" => last # None

(* An ok plan swings to the other side than the last ok plan's only when no *)
(* completed plan that stays on that side, and does not slow, was within    *)
(* the side hysteresis of it, also across infeasible, reused and sideless   *)
(* plans in between (planner.cpp:526-560).                                  *)
SideEarned ==
  lastSide # "" /\ out'.status = "ok" /\ out' # out /\ SideOf(out'.label) \notin {"", lastSide} =>
    \A i \in Feasible, j \in Feasible :
      SideOf(Result(i).label) = lastSide /\ ~Slow(i) /\ Result(j).label = out'.label /\ ~Slow(j)
        => ~CloseTo(i, Cheapest({k \in Feasible : Result(k).label = out'.label}), SideHysteresis)
SideChangesEarned == [][SideEarned]_vars

(* A plan re-sent because the cap cut the incumbent short is the last valid *)
(* plan (planner.cpp:482).                                                  *)
ReusedPlanIsValid == out.status = "stale_reused" => out.feasible
=============================================================================

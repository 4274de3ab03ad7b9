------------------------------ MODULE MCParts ------------------------------
(***************************************************************************)
(* Small instances of the algorithms and tools that share no state with    *)
(* each other: the formulation and the parts below it and beside it.  A    *)
(* behaviour is one of machine, which is chosen at the start; the variables *)
(* that a machine does not use keep their values.                          *)
(***************************************************************************)
EXTENDS Formulation

CONSTANT Machines  \* the parts explored

VARIABLES machine,
  v1, v2, v3, v4, v5, v6, v7, v8, v9, v10, v11, v12, v13, v14, v15, v16, v17

\* The formulation's instance: du and rate limits on both sides of the box.
SlowestRate == -2
FormulationRows == {r \in [base : BOOLEAN, inside : BOOLEAN] : ~(r.base /\ r.inside)}
FormulationCommands == {-1, 0, 3}
FormulationChanges == {-3, -1, 0, 1, 2}

\* Weights that no sum of others equals.
CostWeights ==
  [lag |-> 2, contour |-> 3, heading |-> 5, goalHeading |-> 7, panel |-> 11, posture |-> 13,
   mediumPosture |-> 17, mediumJoint |-> 1, tightJoint |-> 2, comfortJoint |-> 3, panelJoint |-> 4,
   mediumYaw |-> 1, pathYaw |-> 2, goalYaw |-> 3, progress |-> 19, effortBase |-> 23,
   effortArm |-> 29, smoothArm |-> 31, smoothBase |-> 37]

\* Clearances of the comfort pose and of the left and the right tight pose,
\* per stage and per sample of the route ahead.
Probed(c, l, r) == [comfort |-> c, tights |-> <<l, r>>]
PickerWindows ==
  {Probed(c, l, r) : c \in {<<6, 2>>, <<2, -2>>, <<-2, 2>>}, l \in {<<6, 2>>, <<4, 4>>, <<0, 6>>},
                     r \in {<<6, 2>>, <<4, 4>>, <<-2, 6>>}}
PickerRoutes ==
  {Probed(c, l, r) : c \in [1..5 -> {2, 6}], l \in {<<6, 6, 6, 6, 6>>, <<6, 4, 2, 0, 6>>, <<0, 0, 0, 0, 0>>},
                     r \in {<<6, 6, 6, 6, 6>>, <<0, 4, 0, 6, 6>>, <<0, 0, 0, 0, 0>>}}

\* A pose swings the panel to its own side; the poses held or found before may
\* be on either.
Swing(high, low) == [panMax |-> high, panMin |-> low, drop |-> 0]
PlannerSwings ==
  [n \in {"hold", "previous", "L", "R"} |->
     IF n = "R" THEN {Swing(0, -2)} ELSE IF n = "hold" THEN {Swing(0, 0)} ELSE {Swing(2, 0)}]
Outcome(f, m, r, t) == [feasible |-> f, merit |-> m, reach |-> r, turnAt |-> t]
PlannerOutcomes == {Outcome(FALSE, 1, 4, 9), Outcome(TRUE, 2, 4, 9), Outcome(TRUE, 5, 4, 9), Outcome(TRUE, 2, 1, 9)}

\* Routes that are straight, that bend once and that come back beside themselves.
Straight == [i \in 1..10 |-> <<i - 1, 0>>]
Bend == [i \in 1..10 |-> IF i <= 6 THEN <<i - 1, 0>> ELSE <<5, i - 6>>]
Hook == [i \in 1..12 |-> IF i <= 8 THEN (IF i <= 6 THEN <<i - 1, 0>> ELSE <<5, i - 6>>) ELSE <<13 - i, 2>>]
ReferenceWays == {Straight, Bend, Hook}
To(x, y) == [kind |-> "navigate", at |-> <<x, y>>]
Panel(p) == [kind |-> "reconfigure", panel |-> p]
ReferenceMissions ==
  {<<Panel("v"), To(4, 0), Panel("h")>>,
   <<To(2, 0), Panel("v"), To(5, 2), Panel("h"), To(5, 4)>>,
   <<To(2, 1), To(3, -1), Panel("v")>>,
   <<To(1, 0), Panel("v"), To(6, 0), Panel("h")>>}

\* Worlds whose boxes' bounds meet, overlap and hold the ray's origin.
Geom(kind, l, h) == [kind |-> kind, lo |-> l, hi |-> h]
NoBox(kind) == Geom(kind, <<0, 0>>, <<0, 0>>)
BvhWorlds ==
  {<<Geom("box", <<2, -1>>, <<3, 1>>), NoBox("plane"), Geom("box", <<1, 0>>, <<3, 2>>),
     Geom("box", <<-2, -1>>, <<1, 0>>), Geom("box", <<2, 0>>, <<4, 0>>)>>,
   <<Geom("box", <<1, 0>>, <<1, 0>>), Geom("box", <<1, -2>>, <<2, 0>>), NoBox("hidden"),
     Geom("box", <<1, 0>>, <<2, 3>>), Geom("box", <<1, 1>>, <<2, 2>>)>>,
   <<NoBox("plane"), NoBox("hidden")>>, <<Geom("box", <<0, 0>>, <<1, 1>>), NoBox("mesh")>>}

StepSuites == {<<"forward", "watchdog">>, <<"breakaway">>, <<"yaw", "reverse">>}

Cost == INSTANCE FormulationCost WITH
  Horizon <- 2, Positions <- {0, 3}, Controls <- {0, 1, 3},
  Changes <- {-1, 0, 2}, Goal <- 4, VMax <- 2, Breakaway <- 1, Taper <- 2,
  W <- CostWeights, in <- v1, nominal <- v2, qp <- v3

Picker == INSTANCE PosturePicker WITH
  AlphaOff <- 1, AlphaOn <- 2, AlphaMax <- 2, TightComfort <- 5,
  PickMargin <- 1, Margin <- 1, Bridge <- 1, Windows <- PickerWindows,
  Routes <- PickerRoutes, alpha <- v1, choice <- v2, chosen <- v3

Solvers == INSTANCE QpSolvers WITH
  Layouts <- {<<1, 1>>, <<2>>},
  Kinds <- {{"lower"}, {"upper"}, {}, {"lower", "upper"}}, MaxSlacks <- 2,
  Boxes <- {"a"}, Limits <- {1, 2}, WarmStart <- TRUE, Condensed <- FALSE, backend <- v1,
  ready <- v2, shape <- v3, limit <- v4, workLimit <- v5, lastOk <- v6,
  call <- v7

Arm == INSTANCE Scp WITH
  MaxIter <- 3, MaxMade <- 3, TrustInit <- 2, TrustMax <- 4,
  Merits <- {0, 1, 3}, Predictions <- {-1, 1, 20}, StepTol <- 1,
  MeritTol <- 40, RowCounts <- {0, 1}, Variables <- {1}, backend <- v1,
  space <- v2, set <- v3, pc <- v4, iters <- v5, late <- v6, cur <- v7,
  rows <- v8, seen <- v9, trust <- v10, warm <- v11, lin <- v12, step <- v13,
  made <- v14, ended <- v15, started <- v16

Pairs == INSTANCE CollisionRows WITH
  Pairs <- {"p", "q", "r"}, FloorPairs <- {"r"}, Arms <- {"a"},
  Links <- {"f"}, LinkOf <- [a \in {"a"} |-> "f"], Activation <- 2,
  Distances <- {1, 2, 3}, MaxBudget <- 2, use <- v1, budget <- v2,
  geometry <- v3, arm <- v4, pc <- v5, todo <- v6, exact <- v7, closest <- v8,
  unevaluated <- v9, rows <- v10, dropped <- v11, best <- v12

Medium == INSTANCE MediumProblem WITH
  End <- 2, Progress <- {0, 1, 3}, Angles <- {-2, 0, 1},
  StartRates <- {-1, 0, 3}, Resting <- {0, 2}, Changes <- {-1, 0, 2},
  Obstacle <- 3, Margin <- 1, TorqueLimit <- 1, VMax <- 1, Decel <- 1,
  Accel <- 1, QMin <- -1, QMax <- 1, QDMax <- 1, Slack <- 3,
  SlackQuadratic <- 2, nominal <- v1, step <- v2, rows <- v3

Planner == INSTANCE MediumPlanner WITH
  Poses <- <<"L", "R">>, Swings <- PlannerSwings, Outcomes <- PlannerOutcomes,
  PanSide <- 1, Lowered <- 0, FullReach <- 4, SeedsPerCycle <- 1,
  FullPeriod <- 2, ResumeMax <- 0, Hysteresis <- 15, SideHysteresis <- 50,
  Gain <- 1, Goals <- {"g", "h"}, MaxNow <- 1, MaxPlans <- 2, MaxRoutes <- 2,
  now <- v1, goal <- v2, routeId <- v3, planId <- v4, newRoute <- v5,
  fullRequested <- v6, lastFull <- v7, rotation <- v8, last <- v9,
  incumbent <- v10, waiting <- v11, lastSide <- v12, resume <- v13,
  out <- v14, cycle <- v15

Medium5 == INSTANCE MediumHorizon WITH
  Period <- 3, Cap <- 2, Extra <- 1, Tracking <- 2, RestartTime <- 5,
  Goals <- {"g", "h"}, MaxTime <- 10, MaxRoutes <- 2, MaxFaults <- 1,
  now <- v1, b5 <- v2, route <- v3, inbox <- v4, switch <- v5,
  controller <- v6, announced <- v7, heard <- v8, node <- v9, planner <- v10,
  busy <- v11, faults <- v12, quiet <- v13

Stream == INSTANCE ArmStream WITH
  Horizon <- 2, Dt <- 4, MinLead <- 1, TailMin <- 3, Dense <- 6, DenseDt <- 2,
  Lead <- 2, HoldMin <- 4, Emergency <- 1, QDMax <- 2, QDDMax <- 1,
  QMax <- 12, QMin <- -12, Reanchor <- 3, Late <- 8, MaxSends <- 2,
  Factors <- <<1, 2, 4>>, Speeds <- {-2, 0, 2}, Errors <- {-6, 2}, sent <- v1,
  start <- v2, age <- v3, cycle <- v4, held <- v5, sends <- v6

Movers == INSTANCE MovingBoxes WITH
  Boxes <- {"m", "d"}, Scenario <- {"m"}, Velocities <- {0, 1}, Jump <- 1,
  Stale <- 1, MaxTime <- 4, MaxTurns <- 0, now <- v1, place <- v2,
  velocity <- v3, since <- v4, turns <- v5, arrived <- v6, world <- v7,
  taken <- v8

References == INSTANCE AnchoredReferences WITH
  Ways <- ReferenceWays, Missions <- ReferenceMissions, MaxAnchor <- 1,
  Ramp <- 3, full <- v1, steps <- v2, driven <- v3, start <- v4,
  following <- v5, refs <- v6

Experiment == INSTANCE ArmExperiment WITH
  Schedule <- <<"moving", "still", "moving">>, Hold <- 1, Period <- 2,
  StreamFor <- 6, MaxStep <- 5, mode <- v1, cancelAt <- v2, pc <- v3,
  sim <- v4, origin <- v5, base <- v6, goal <- v7, canceled <- v8,
  holdFor <- v9, stream <- v10, outcome <- v11

Campaign == INSTANCE CampaignRun WITH
  Args <- {"a", "b"}, Frames <- 5, Chunk <- 2, pc <- v1, args <- v2,
  made <- v3, raw <- v4, chunks <- v5, disk <- v6, partial <- v7,
  summary <- v8

Robot == INSTANCE Plant WITH
  CycleSteps <- 2, BaseDelay <- 1, ArmDelay <- 1, BaseStateDelay <- 1,
  ArmStateDelay <- 1, StaleSteps <- 1, Accel <- 1, Decel <- 1, SpeedMax <- 2,
  WheelMax <- 2, Breakaway <- 1, Rest <- 1, JtcPeriod <- 1, QMax <- 2,
  QDMax <- 1, Reanchor <- 1, MoverSpeed <- 1, Length <- 2, Crossings <- 2,
  MoverStart <- 3, Trigger <- 3, StandOff <- 2, Speeds <- {0, 2},
  JointSpeeds <- {0, 1}, Modes <- {"ideal", "realistic"},
  Drivers <- {"loop", "replay"}, MaxTime <- 6, mode <- v1, driver <- v2,
  now <- v3, todo <- v4, cmd <- v5, heard <- v6, baseQ <- v7, targetQ <- v8,
  stateQ <- v9, armQ <- v10, base <- v11, drive <- v12, arm <- v13,
  jtc <- v14, state <- v15, mover <- v16, path <- v17

StepTest == INSTANCE BaseStepTest WITH
  Drive <- 3, Brake <- 3, Settle <- 1, Watchdog <- 2, Probe <- 12,
  Samples <- 10, Recent <- 9, MaxRuns <- 2, Suites <- StepSuites, phase <- v1,
  selected <- v2, case <- v3, segment <- v4, left <- v5, samples <- v6,
  v <- v7, x <- v8, command <- v9, silent <- v10, others <- v11, files <- v12,
  summary <- v13, run <- v14

Obstacles == INSTANCE PersistentObstacles WITH
  Cells <- {1, 2}, Persistence <- 2, MaxGap <- 1, Decay <- 2, Delay <- 1,
  MaxTime <- 5, now <- v1, grid <- v2, marked <- v3, master <- v4,
  updated <- v5, seen <- v6

Bvh == INSTANCE StaticBvh WITH
  Worlds <- BvhWorlds, LeafSize <- 1, pc <- v1, boxes <- v2, planes <- v3,
  world <- v4, nodes <- v5, todo <- v6, hit <- v7, stack <- v8, best <- v9,
  geom <- v10

Base == INSTANCE BlockedBase WITH
  ExecutedFeedback <- TRUE, Kept <- 2, Stale <- 2, Own <- 1, Detect <- 1,
  Fail <- 4, Clear <- 1, ProgressM <- 2, Gap <- 1, VMax <- 2, Accel <- 1,
  Decel <- 1, Lag <- 1, MaxTime <- 7, now <- v1, sent <- v2, told <- v3,
  inbox <- v4, posted <- v5, stop <- v6, rolled <- v7, det <- v8,
  driving <- v9, scaled <- v10, steady <- v11, seen <- v12

\* The instances are ones the loaders accept.
ASSUME PartParameters ==
  /\ Cost!Parameters /\ Picker!Parameters /\ Solvers!Parameters /\ Arm!Parameters
  /\ Pairs!Parameters /\ Medium!Parameters /\ Planner!Parameters /\ Medium5!Parameters
  /\ Stream!Parameters /\ Movers!Parameters /\ References!Parameters
  /\ Experiment!Parameters /\ Robot!Parameters /\ Obstacles!Parameters
  /\ Bvh!Parameters /\ Base!Parameters

-----------------------------------------------------------------------------
slots == <<v1, v2, v3, v4, v5, v6, v7, v8, v9, v10, v11, v12, v13, v14, v15,
           v16, v17>>

MCInit ==
  /\ machine \in Machines
  /\ Init
  /\ \/ machine = "formulation" /\ v1 = 0 /\ v2 = 0 /\ v3 = 0 /\ v4 = 0 /\ v5 = 0 /\ v6 = 0
        /\ v7 = 0 /\ v8 = 0 /\ v9 = 0 /\ v10 = 0 /\ v11 = 0 /\ v12 = 0
        /\ v13 = 0 /\ v14 = 0 /\ v15 = 0 /\ v16 = 0 /\ v17 = 0
     \/ machine = "cost" /\ last = 0 /\ Cost!Init
        /\ v4 = 0 /\ v5 = 0 /\ v6 = 0 /\ v7 = 0 /\ v8 = 0 /\ v9 = 0 /\ v10 = 0
        /\ v11 = 0 /\ v12 = 0 /\ v13 = 0 /\ v14 = 0 /\ v15 = 0 /\ v16 = 0
        /\ v17 = 0
     \/ machine = "picker" /\ last = 0 /\ Picker!Init
        /\ v4 = 0 /\ v5 = 0 /\ v6 = 0 /\ v7 = 0 /\ v8 = 0 /\ v9 = 0 /\ v10 = 0
        /\ v11 = 0 /\ v12 = 0 /\ v13 = 0 /\ v14 = 0 /\ v15 = 0 /\ v16 = 0
        /\ v17 = 0
     \/ machine = "qp" /\ last = 0 /\ Solvers!Init
        /\ v8 = 0 /\ v9 = 0 /\ v10 = 0 /\ v11 = 0 /\ v12 = 0 /\ v13 = 0
        /\ v14 = 0 /\ v15 = 0 /\ v16 = 0 /\ v17 = 0
     \/ machine = "scp" /\ last = 0 /\ Arm!Init
        /\ v17 = 0
     \/ machine = "collision" /\ last = 0 /\ Pairs!Init
        /\ v13 = 0 /\ v14 = 0 /\ v15 = 0 /\ v16 = 0 /\ v17 = 0
     \/ machine = "problem" /\ last = 0 /\ Medium!Init
        /\ v4 = 0 /\ v5 = 0 /\ v6 = 0 /\ v7 = 0 /\ v8 = 0 /\ v9 = 0 /\ v10 = 0
        /\ v11 = 0 /\ v12 = 0 /\ v13 = 0 /\ v14 = 0 /\ v15 = 0 /\ v16 = 0
        /\ v17 = 0
     \/ machine = "planner" /\ last = 0 /\ Planner!Init
        /\ v16 = 0 /\ v17 = 0
     \/ machine = "horizon" /\ last = 0 /\ Medium5!Init
        /\ v14 = 0 /\ v15 = 0 /\ v16 = 0 /\ v17 = 0
     \/ machine = "stream" /\ last = 0 /\ Stream!Init
        /\ v7 = 0 /\ v8 = 0 /\ v9 = 0 /\ v10 = 0 /\ v11 = 0 /\ v12 = 0
        /\ v13 = 0 /\ v14 = 0 /\ v15 = 0 /\ v16 = 0 /\ v17 = 0
     \/ machine = "boxes" /\ last = 0 /\ Movers!Init
        /\ v9 = 0 /\ v10 = 0 /\ v11 = 0 /\ v12 = 0 /\ v13 = 0 /\ v14 = 0
        /\ v15 = 0 /\ v16 = 0 /\ v17 = 0
     \/ machine = "references" /\ last = 0 /\ References!Init
        /\ v7 = 0 /\ v8 = 0 /\ v9 = 0 /\ v10 = 0 /\ v11 = 0 /\ v12 = 0
        /\ v13 = 0 /\ v14 = 0 /\ v15 = 0 /\ v16 = 0 /\ v17 = 0
     \/ machine = "experiment" /\ last = 0 /\ Experiment!Init
        /\ v12 = 0 /\ v13 = 0 /\ v14 = 0 /\ v15 = 0 /\ v16 = 0 /\ v17 = 0
     \/ machine = "campaign" /\ last = 0 /\ Campaign!Init
        /\ v9 = 0 /\ v10 = 0 /\ v11 = 0 /\ v12 = 0 /\ v13 = 0 /\ v14 = 0
        /\ v15 = 0 /\ v16 = 0 /\ v17 = 0
     \/ machine = "plant" /\ last = 0 /\ Robot!Init
     \/ machine = "steptest" /\ last = 0 /\ StepTest!Init
        /\ v15 = 0 /\ v16 = 0 /\ v17 = 0
     \/ machine = "obstacles" /\ last = 0 /\ Obstacles!Init
        /\ v7 = 0 /\ v8 = 0 /\ v9 = 0 /\ v10 = 0 /\ v11 = 0 /\ v12 = 0
        /\ v13 = 0 /\ v14 = 0 /\ v15 = 0 /\ v16 = 0 /\ v17 = 0
     \/ machine = "bvh" /\ last = 0 /\ Bvh!Init
        /\ v11 = 0 /\ v12 = 0 /\ v13 = 0 /\ v14 = 0 /\ v15 = 0 /\ v16 = 0
        /\ v17 = 0
     \/ machine = "base" /\ last = 0 /\ Base!Init
        /\ v13 = 0 /\ v14 = 0 /\ v15 = 0 /\ v16 = 0 /\ v17 = 0

MCNext ==
  \/ machine = "formulation" /\ Next /\ UNCHANGED <<machine, slots>>
  \/ machine = "cost" /\ Cost!Next
     /\ UNCHANGED <<machine, vars, v4, v5, v6, v7, v8, v9, v10, v11, v12, v13, v14, v15,
                  v16, v17>>
  \/ machine = "picker" /\ Picker!Next
     /\ UNCHANGED <<machine, vars, v4, v5, v6, v7, v8, v9, v10, v11, v12, v13, v14, v15,
                  v16, v17>>
  \/ machine = "qp" /\ Solvers!Next
     /\ UNCHANGED <<machine, vars, v8, v9, v10, v11, v12, v13, v14, v15, v16, v17>>
  \/ machine = "scp" /\ Arm!Next /\ UNCHANGED <<machine, vars, v17>>
  \/ machine = "collision" /\ Pairs!Next /\ UNCHANGED <<machine, vars, v13, v14, v15, v16, v17>>
  \/ machine = "problem" /\ Medium!Next
     /\ UNCHANGED <<machine, vars, v4, v5, v6, v7, v8, v9, v10, v11, v12, v13, v14, v15,
                  v16, v17>>
  \/ machine = "planner" /\ Planner!Next /\ UNCHANGED <<machine, vars, v16, v17>>
  \/ machine = "horizon" /\ Medium5!Next /\ UNCHANGED <<machine, vars, v14, v15, v16, v17>>
  \/ machine = "stream" /\ Stream!Next
     /\ UNCHANGED <<machine, vars, v7, v8, v9, v10, v11, v12, v13, v14, v15, v16, v17>>
  \/ machine = "boxes" /\ Movers!Next
     /\ UNCHANGED <<machine, vars, v9, v10, v11, v12, v13, v14, v15, v16, v17>>
  \/ machine = "references" /\ References!Next
     /\ UNCHANGED <<machine, vars, v7, v8, v9, v10, v11, v12, v13, v14, v15, v16, v17>>
  \/ machine = "experiment" /\ Experiment!Next
     /\ UNCHANGED <<machine, vars, v12, v13, v14, v15, v16, v17>>
  \/ machine = "campaign" /\ Campaign!Next
     /\ UNCHANGED <<machine, vars, v9, v10, v11, v12, v13, v14, v15, v16, v17>>
  \/ machine = "plant" /\ Robot!Next /\ UNCHANGED <<machine, vars>>
  \/ machine = "steptest" /\ StepTest!Next /\ UNCHANGED <<machine, vars, v15, v16, v17>>
  \/ machine = "obstacles" /\ Obstacles!Next
     /\ UNCHANGED <<machine, vars, v7, v8, v9, v10, v11, v12, v13, v14, v15, v16, v17>>
  \/ machine = "bvh" /\ Bvh!Next
     /\ UNCHANGED <<machine, vars, v11, v12, v13, v14, v15, v16, v17>>
  \/ machine = "base" /\ Base!Next /\ UNCHANGED <<machine, vars, v13, v14, v15, v16, v17>>

MCVars == <<machine, vars, slots>>
MCSpec == MCInit /\ [][MCNext]_MCVars

-----------------------------------------------------------------------------
\* Every variable of every part keeps its range.
TypesOK ==
  /\ TypeOK
  /\ machine = "cost" => Cost!TypeOK
  /\ machine = "picker" => Picker!TypeOK
  /\ machine = "qp" => Solvers!TypeOK
  /\ machine = "scp" => Arm!TypeOK
  /\ machine = "collision" => Pairs!TypeOK
  /\ machine = "problem" => Medium!TypeOK
  /\ machine = "planner" => Planner!TypeOK
  /\ machine = "horizon" => Medium5!TypeOK
  /\ machine = "stream" => Stream!TypeOK
  /\ machine = "boxes" => Movers!TypeOK
  /\ machine = "references" => References!TypeOK
  /\ machine = "experiment" => Experiment!TypeOK
  /\ machine = "campaign" => Campaign!TypeOK
  /\ machine = "plant" => Robot!TypeOK
  /\ machine = "steptest" => StepTest!TypeOK
  /\ machine = "obstacles" => Obstacles!TypeOK
  /\ machine = "bvh" => Bvh!TypeOK
  /\ machine = "base" => Base!TypeOK

\* What build() hands to the solver is the problem the controller means: its
\* cost is the objective's, its collision rows are those of the closest pairs,
\* although most distances are never computed, the rows keep their pattern and
\* their slacks, and a solution that keeps them is executed as it is
\* (formulation.cpp, collision.cpp).
ProblemIsMeant ==
  /\ [](machine = "cost" => Cost!CostIsObjective)
  /\ [](machine = "collision" => Pairs!RowsAreTheClosest)
  /\ [](machine = "formulation" => SlackedRowsAreCollisions /\ OnePattern)
  /\ SolutionsExecuted

\* What a solver reports is a solution of the problem it was given: slacks relax
\* their own rows, the SCP's result, violations and rows are one trajectory's,
\* and the medium problem's slacks are its violations (hpipm_solver.cpp,
\* osqp_solver.cpp, scp.cpp, problem.cpp).
SolvedAsPosed ==
  /\ [](machine = "qp" => Solvers!SlackRelaxesItsRow /\ Solvers!LimitKept)
  /\ [](machine = "scp" => Arm!OneTrajectory)
  /\ [][machine = "scp" => Arm!Improves]_slots
  /\ [](machine = "problem" => Medium!SlackIsTheViolation /\ Medium!StayingIsFeasible)

\* nearest() and the clearances are what computing every distance would give
\* (collision.cpp).
PrunedIsExact == machine = "collision" => Pairs!PrunedIsExact

\* The arm swings to the side with more room, and to the other one only for
\* reasons that were there when it changed (controller.cpp, planner.cpp).
SidesPickedByRoom ==
  /\ [](machine = "picker" => Picker!WidestSideTaken /\ Picker!SideBeatsComfort)
  /\ [][machine = "picker" => Picker!SideKept]_slots
  /\ [][machine = "planner" => Planner!SideEarned]_slots

\* Nothing the medium planner remembers of a goal reaches the next (planner.cpp).
NothingOfAnOldGoal == machine = "planner" => Planner!NothingOfAnOldGoal


\* The arm controller accepts every trajectory streamed to it and no trajectory
\* makes it jump (arm_stream.cpp).
ArmStreamsFollowed ==
  /\ [](machine = "stream" => Stream!AcceptedByController)
  /\ [][machine = "stream" => Stream!SentNearArm]_slots

\* A cell is lethal only for what was seen there steadily (persistence_grid.hpp).
MarkedWasSteady == machine = "obstacles" => Obstacles!MarkedWasSteady

\* The plant stops without commands, and moves as the commands and the triggers
\* say, and its rays hit what is nearest; the node continues from what the collision monitor executed, and gives a
\* blocked base up only for time that passed (plant.cpp, movers.cpp,
\* static_bvh.cpp, arm_command_path.cpp, executed_command.cpp, blocked_detector.cpp).
PlantFollowsCommands ==
  /\ [](machine = "plant" => Robot!StaleCommandStops)
  /\ [](machine = "bvh" => Bvh!RayAsBruteForce)
  /\ [][machine = "plant" => Robot!MoverOnlyWalks /\ Robot!ReferenceGoesOn]_slots
  /\ [](machine = "base" => Base!PassedThrough /\ Base!WindUpBounded /\ Base!BlockedTimeOnce)
  /\ [][machine = "base" => Base!BlockedEarned]_slots

\* The tools leave the robot at rest and their files true: a summary means a
\* whole log (unless a write of the log failed), a stream keeps its rate, a test case ends near where it began and
\* no later run overwrites its evidence (plant_campaign.cpp, arm_experiment.cpp,
\* base_step_test.cpp).
ToolsLeaveItTrue ==
  /\ [](machine = "campaign" => Campaign!SummaryMeansWholeLog /\ Campaign!ReadsAPrefix)
  /\ [](machine = "experiment" => /\ Experiment!EndsStopped /\ Experiment!SequenceFinished
                                  /\ Experiment!StreamKeepsRate)
  /\ [](machine = "steptest" => StepTest!EndsNearItsStart)
  /\ [][machine = "steptest" => StepTest!EvidenceKept]_slots
=============================================================================

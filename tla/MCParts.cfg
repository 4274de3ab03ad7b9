SPECIFICATION MCSpec
CONSTANTS
  Machines = {"formulation", "cost", "picker", "qp", "scp", "collision", "problem", "planner", "horizon", "stream", "boxes", "references", "experiment", "campaign", "plant", "steptest", "obstacles", "base", "bvh"}
  Horizon = 2
  ULo = 0
  UHi = 3
  RateLo <- SlowestRate
  RateHi = 1
  Axes = 2
  Budget = 2
  EntryOn = TRUE
  InsideOn = TRUE
  RowKinds <- FormulationRows
  Commands <- FormulationCommands
  Changes <- FormulationChanges
INVARIANTS
  TypesOK
  PlanWithinLimits
  PrunedIsExact
  NothingOfAnOldGoal
  MarkedWasSteady
  
PROPERTIES
  ProblemIsMeant
  SolvedAsPosed
  SidesPickedByRoom
  ArmStreamsFollowed
  PlantFollowsCommands
  ToolsLeaveItTrue
CHECK_DEADLOCK FALSE

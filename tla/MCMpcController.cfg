SPECIFICATION Spec
CONSTANTS
  FallbackCycles = 2
  GateEnabled = TRUE
  RtiSplit = TRUE
  ResumeDwell = 3
  Period = 2
  Stage = 3
  Horizon = 4
  MaxGap = 3
  VMax = 5
  Accel = 1
  Brake = 1
  DeadZone = 2
  Breakaway = 3
INVARIANTS
  TypeOK
  HeldPlanNeverExecuted
  FallbackBudgetExact
  UndoneWhole
PROPERTIES
  CommandsSafe
  KeepsContract

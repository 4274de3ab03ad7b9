SPECIFICATION MCSpec
CONSTANTS
  Goals <- PairOfGoals
  VMax = 3
  BrakeLimit = 2
  RampBrake = 1
  DeadZone = 1
  ExecutedFeedback = FALSE
  ProgressWindow = 1
INVARIANTS
  ContinuesFromSent
CHECK_DEADLOCK FALSE

SPECIFICATION MCSpec
CONSTANTS
  Goals <- GoalSet
  VMax = 2
  BrakeLimit = 2
  RampBrake = 1
  DeadZone = 1
  ExecutedFeedback = TRUE
  ProgressWindow = 1
INVARIANTS
  NoGoalForgotten
  RestsWithoutGoal
PROPERTIES
  OwnGoalsEnd
CHECK_DEADLOCK FALSE

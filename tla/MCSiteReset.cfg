SPECIFICATION MCSpec
CONSTANTS
  Costmaps = {"global"}
  Profiles = {"home", "carry"}
  Poses = {"dock", "gate"}
  Free <- FreeAt
  Start = "dock"
  MaxSteps = 3
  Settle = 1
  Machines = {"demo"}
  DemoLogFails = TRUE
PROPERTIES
  FailedResetsKeepRuns
CHECK_DEADLOCK FALSE

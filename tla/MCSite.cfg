SPECIFICATION MCFair
CONSTANTS
  Costmaps = {"global"}
  Profiles = {"home", "carry"}
  Poses = {"dock", "gate"}
  Free <- FreeAt
  Start = "dock"
  MaxSteps = 3
  Settle = 1
  Machines = {"mission", "demo", "footprint", "telemetry"}
  DemoLogFails = FALSE
INVARIANTS
  TypesOK
  MissionDrivesAsPlanned
PROPERTIES
  DemoServesItsClient
  FootprintsCover
  MissionsEnd
  ClientsLearn
CHECK_DEADLOCK FALSE

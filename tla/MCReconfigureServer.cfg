SPECIFICATION FairSpec
CONSTANTS
  Goals <- TwoGoals
  Postures <- ThreePostures
  Profiles <- TwoProfiles
  Fits <- FitsProfile
  FirstProfile = "home"
  FirstPosture = "folded"
  Worlds <- LateOrPrompt
INVARIANTS
  FootprintsAgree
  ResultTellsTheArm
PROPERTIES
  GoalsEnd
CHECK_DEADLOCK FALSE

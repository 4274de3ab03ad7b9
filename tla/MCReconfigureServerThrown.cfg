SPECIFICATION FairSpec
CONSTANTS
  Goals <- TwoGoals
  Postures <- ThreePostures
  Profiles <- TwoProfiles
  Fits <- FitsProfile
  FirstProfile = "home"
  FirstPosture = "folded"
  Worlds <- PromptWorld
INVARIANTS
  StrandedArmReported
CHECK_DEADLOCK FALSE

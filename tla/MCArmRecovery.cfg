SPECIFICATION FairSpec
CONSTANTS
  Timeout = 2
  MaxGap = 2
  FreshFor = 1
  Retry = 1
  ActivationWait = 1
  Faults = {"refuses", "loses"}
INVARIANTS
  FaultedArmStopped
PROPERTIES
  CommandsFollowControllers
  ArmRecovers

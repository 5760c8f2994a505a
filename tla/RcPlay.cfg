CONSTANTS
  Values = {1, 2}
  Setups <- MCSetups
  MaxLoads = 2
  MaxRequests = 2
  MinFrames = 2
  DecayMultiplier = 4
  MaxFrames = 6
SPECIFICATION Spec
INVARIANTS IInv HostIsTold ListsAgree
PROPERTIES UnlocksCountOnce HardcoreIsFair RetrySent
CHECK_DEADLOCK FALSE

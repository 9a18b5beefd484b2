CONSTANTS
  Jobs = {1, 2}
  Owner = worker
  NoOwner = NoOwner
  MaxAttempts = 2
  LeaseDuration = 1
  Delays = {1}
  BatchLimit = 1
  MaxDispatched = 1
  MaxFaults = 1
SPECIFICATION WorkersSpec
PROPERTIES
  HolderIsAlone
  EveryUploadSettles
  UsesTheTable
CHECK_DEADLOCK FALSE

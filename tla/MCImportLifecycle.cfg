SPECIFICATION ImportSpec
CONSTANTS
  j1 = j1
  s0 = s0
  None = None
  Jobs = {j1}
  Earlier = {s0}
  MaxAttempts = 1
  MaxRetries = 1
  MaxRestarts = 1
PROPERTIES
  EndedStays
  CancelIsHonoured
  EveryImportEnds
CHECK_DEADLOCK FALSE

CONSTANTS
  Requests <- MCRequests
  Children <- MCChildren
  None = None
SPECIFICATION Spec
INVARIANTS
  OnlyActiveInFlight
PROPERTIES
  SettledStays
  EveryRequestSettles
CHECK_DEADLOCK FALSE

SPECIFICATION Spec
CONSTANTS
  c1 = c1
  c2 = c2
  None = None
  MaxJobs = 3
  Chats = {c1, c2}
INVARIANTS
  ActiveJobIsWorkedOn
PROPERTIES
  ShownOutcomesStay
  EveryJobEnds
CHECK_DEADLOCK FALSE

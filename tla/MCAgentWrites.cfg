SPECIFICATION Spec
CONSTANTS
  p1 = p1
  p2 = p2
  s1 = s1
  s2 = s2
  c1 = c1
  c2 = c2
  None = None
  Proposals = {p1, p2}
  Legacy = {p2}
  Sources = {s1, s2}
  cites <- MCCites
  Calls = {c1, c2}
  MaxCalls = 5
INVARIANTS
  AcceptedIsKept
  MemoriesAreSupported
PROPERTIES
  RejectedStaysOut
CHECK_DEADLOCK FALSE

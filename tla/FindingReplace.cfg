CONSTANTS
  node = node
  peer = peer
  relation = relation
  Ids <- MCIds
  TableOf <- MCTableOf
  about <- MCAbout
  Upserts = {u1}
  Replaces = {replace}
  Pair = {}
  Narrow = {}
  Groups = {{u1, replace}}
  Seed = seed
  MaxVersion = 2
SPECIFICATION Spec
INVARIANTS
  ClosedStrictlyLater
CHECK_DEADLOCK FALSE

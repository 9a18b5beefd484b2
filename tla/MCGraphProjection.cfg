CONSTANTS
  node = node
  peer = peer
  relation = relation
  Ids <- MCIds
  TableOf <- MCTableOf
  about <- MCAbout
  Upserts = {u1, u2, u3}
  Replaces = {replace, again, anew}
  Pair = {again, anew}
  Narrow = {u2}
  Groups = {{u1, u2, u3}, {u1, u2, replace}, {again, anew}}
  Seed = seed
  MaxVersion = 3
SPECIFICATION MCSpec
INVARIANTS
  TypeOK
  HistoryIsAChain
  NewestAcceptedIsLive
  CommittedRowsStay
PROPERTIES
  EveryCallEnds
CHECK_DEADLOCK FALSE

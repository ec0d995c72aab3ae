\* One connection between two peers; they build one of two keys differently.
CONSTANTS
  p1 = p1 p2 = p2
  c1 = c1
  k1 = k1 k2 = k2
  d1 = d1 d2 = d2
  None = None
  Peers = {p1, p2}
  Conns = {c1}
  Keys = {k1, k2}
  Data = {d1, d2}
  Ends <- Pair
  Builds <- Varying
  Capacity = 2
SPECIFICATION FairSpec
INVARIANTS
  TypeOK
  CleanSyncDelivers
  AgreeOrSwap
PROPERTIES
  
  SessionsEnd

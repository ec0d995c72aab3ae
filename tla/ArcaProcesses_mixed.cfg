\* Commands that overlap, crash and repair the index under each other.
CONSTANTS
  Procs = {p1, p2}
  Keys = {k1}
  HandleCounts = {1, 2}
  MaxOpens = 5
  Overlap = TRUE
  NoStore = NoStore
SPECIFICATION ProcSpec
INVARIANTS
  ServedIffPut
PROPERTIES
  ServedHaveBlobs
  OpenFinishes
\* Every behaviour ends when its opens are used up.
CHECK_DEADLOCK FALSE

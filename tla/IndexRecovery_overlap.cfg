\* Two processes that overlap, each with one store or two, any damage, any crash.
CONSTANTS
  Procs = {p1, p2}
  Keys = {k1, k2}
  HandleCounts = {1, 2}
  MaxOpens = 5
  Overlap = TRUE
  NoStore = NoStore
SPECIFICATION Spec
SYMMETRY Symmetry
INVARIANTS
  TypeOK
  RecordsSurvive
PROPERTIES
  WipesExplained
\* Every behaviour ends when its opens are used up.
CHECK_DEADLOCK FALSE

\* One `import` alone: it opens two stores.
CONSTANTS
  Procs = {p1}
  Keys = {k1}
  HandleCounts = {2}
  MaxOpens = 4
  Overlap = FALSE
  NoStore = NoStore
SPECIFICATION Spec
PROPERTIES
  KeepsOwnStore
CHECK_DEADLOCK FALSE

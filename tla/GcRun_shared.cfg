\* gc with one limit or both, while paths are imported, signed and put.
CONSTANTS
  a = a
  b = b
  Paths <- MCPaths
  Size <- MCSize
  Backends = {"filesystem", "sled"}
  Ages = {1}
  SizeArgs <- MCSizeArgs
  MaxU64 = 100
  MaxClock = 4
  None = None
SPECIFICATION Spec
INVARIANTS
  BoundMet
  ReportTrue
  RemovalsAudited
PROPERTIES
  EvictsLruOverLimit
  AgeRespected
  GcEnds

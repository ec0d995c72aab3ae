\* import, with the sled backend.
CONSTANTS
  a = a
  b = b
  Paths <- MCPaths
  Size <- MCSize
  Backends = {"sled"}
  Ages = {1}
  SizeArgs <- MCSizeArgs
  MaxU64 = 100
  MaxClock = 4
  None = None
SPECIFICATION Spec
INVARIANTS
  ImportedIsListed

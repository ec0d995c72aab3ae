\* Requests beside the hourly report.
CONSTANTS
  Conns = {c1, c2}
  Paths = {a}
  None = None
  MaxRequests = 3
  MaxBeats = 2
SPECIFICATION Spec
SYMMETRY Symmetry
INVARIANTS
  CountsConserved
  BytesLostOnlyIfSplit
  ReportsAgree

\* Commands of two processes, overlapping and killed anywhere.
CONSTANTS
  Universal = universal
  Names = {universal, team}
  Filters = {"all"}
  NoName = NoName
  Procs = {p1, p2}
  MaxSegments = 2
SPECIFICATION Spec
SYMMETRY Symmetry
INVARIANTS
  NamesUnique
  KeptUnlessRaced
  UnreadableOnlyIfTorn
PROPERTIES
  RouteKept

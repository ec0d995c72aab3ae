\* Puts, gets and deletes of keys that share contents interleave; crashes anywhere.
CONSTANTS
  Keys = {k1, k2}
  Data = {d1, d2}
  Tasks = {t1, t2, t3}
  None = None
SPECIFICATION Spec
SYMMETRY Symmetry
INVARIANTS
  TypeOK
  HasImpliesServable
PROPERTIES
  FreesOnlyUnreferenced
  OrphansExplained
  ImplementsNarMap

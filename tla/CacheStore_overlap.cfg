\* Three commands that may overlap, each interrupted anywhere.
CONSTANTS
  Paths = {a}
  Exts = {zst, xz}
  Workers = {w1, w2, w3}
  Overlap = TRUE
  PreMigration = {}
  None = None
SPECIFICATION Spec
SYMMETRY Symmetry
INVARIANTS
  TypeOK
  SignatureKept
  HasMeansCached
PROPERTIES
  BrokenOnlyByFailureOrRace
  StrandedOnlyByFailureOrRace

\* A path cached before the object store was, and gc.
CONSTANTS
  Paths = {a}
  Exts = {zst}
  Workers = {w1}
  Overlap = FALSE
  PreMigration = {a}
  None = None
SPECIFICATION Spec
PROPERTIES
  StrandedOnlyByFailureOrRace

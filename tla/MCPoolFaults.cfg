SPECIFICATION Spec
CONSTANTS
  Chunks = {a, b}
  Faults = {"open", "write", "save", "cut", "load"}
  MaxLen = 3
SYMMETRY Perms
INVARIANTS
  TypeOK
  AcceptedIndexSurvives
  AckedFound
  NotDirtyMeansSaved

SPECIFICATION Spec
CONSTANTS
  Chunks = {a, b}
  Faults = {"cut"}
  MaxLen = 4
SYMMETRY Perms
INVARIANTS
  RecoveryWorks

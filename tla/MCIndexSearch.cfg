SPECIFICATION FairSpec
CONSTANTS
  Oids = {0, 1, 2, 3, 4}
  Tops = 4
  First <- MCFirst
  MaxHashes = 5
CHECK_DEADLOCK FALSE
INVARIANTS
  Correct
  InBounds
PROPERTIES
  Terminates

SPECIFICATION Spec
CONSTANTS
  Digit = 2
  Length = 3
INVARIANTS
  TweakIsNext
  TextKept
CHECK_DEADLOCK FALSE

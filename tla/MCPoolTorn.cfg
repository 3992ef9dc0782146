SPECIFICATION Spec
CONSTANTS
  a = a
  b = b
  Chunks = {a, b}
  Payload <- MCPayload
  MagicSize = 1
  HeaderSize = 2
  Align = 2
  Limit = 16
  Width = 64
  NameLimit = 2
  MaxFiles = 2
  MaxLen = 16
INVARIANTS
  RecoveredChunksFound

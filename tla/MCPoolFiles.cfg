SPECIFICATION Spec
CONSTANTS
  a = a
  b = b
  Chunks = {a, b}
  Payload <- MCPayload
  MagicSize = 1
  HeaderSize = 2
  Align = 2
  Limit = 5
  Width = 64
  NameLimit = 3
  MaxFiles = 3
  MaxLen = 10
INVARIANTS
  ReadYourWrites
  NoChunkLost
PROPERTIES
  AnswersStay
  NewFileSession
  OnlyFrontGoesStale

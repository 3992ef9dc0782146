SPECIFICATION FairSpec
CONSTANTS
  a = a
  b = b
  Chunks = {a, b}
  Payload <- MCSmallPayload
  MagicSize = 2
  HeaderSize = 4
  Align = 2
  Limit = 8
  Width = 64
  NameLimit = 2
  MaxFiles = 2
  MaxLen = 12
INVARIANTS
  TypeOK
  AcceptedIndexExact
  SessionIndexExact
  CleanMatchesDisk
  ScanAligned
  RecoveredFilesOpen
PROPERTIES
  ThrownIsRefused
  AnotherFileWhenFull
  RecoveryAdvances
  RecoveryTerminates

SPECIFICATION Spec
CONSTANTS
  short = short
  even = even
  long = long
  Data = {short, even, long}
  Size <- MCSize
  ZSize <- MCZSize
  MaxRecords = 3
INVARIANTS
  RoundTrip
  SizeTold

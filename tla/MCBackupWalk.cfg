SPECIFICATION Spec
CONSTANTS
  Byte = 4
  HashKey <- MCHashKey
  DateKey <- MCDateKey
  OidOf <- MCOidOf
  DateOf <- MCDateOf
  Zero = Zero
  Unset = Unset
  Oids = {1, 2, 3}
  Contents <- MCContents
  Dates = {1, 2}
  MaxStack = 2
INVARIANTS
  LocationRight
  StackIsPath
  ReportsTrue

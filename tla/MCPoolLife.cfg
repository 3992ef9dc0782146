SPECIFICATION LifeSpec
CONSTANTS
  p1 = p1
  p2 = p2
  p3 = p3
  o1 = o1
  o2 = o2
  o3 = o3
  Processes = {p1, p2, p3}
  Objects = {o1, o2, o3}
  Owner <- MCOwner
  Nobody = Nobody
  MaxWrites = 2
  Creators = {c1, c2}
  MayBeFull = TRUE
INVARIANTS
  LockedIsHeld
  ViewIsCurrent
  CreatedIsWhole
  OpenedAsCreated
PROPERTY PropsKept

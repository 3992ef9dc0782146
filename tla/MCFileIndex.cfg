SPECIFICATION Spec
CONSTANTS
  Oids = {1, 2, 3}
  Tops = 4
  First <- MCFirst
  Kinds = {5, 7}
  KindBytes = 2
  Samples <- MCSamples
  Sizes = {10, 20}
  Absent = Absent
  MaxKeys = 3
PROPERTIES
  MapSpec
INVARIANTS
  TypeOK
  VectorsAgree
  SearchExact

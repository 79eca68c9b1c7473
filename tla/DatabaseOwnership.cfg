SPECIFICATION Spec
CONSTANTS
  Objects = {d1, d2}
  NoObject = NoObject
  d1 = d1
  k1 = k1
  k2 = k2
  s1 = s1
  s2 = s2
  Connections = {k1}
  Places <- Anywhere
  Moves = {}
  Schemas = {s1}
  SpecName <- OneSchema
  Charsets = {latin1}
  DefaultCharset = latin1
  Unset = Unset
  Wanted = {Unset}
  Qualified = {d1, d2}
  Absent = Absent
  Foreign = Foreign
  Faults = {"write", "drop", "update", "missing", "offline"}
SYMMETRY ObjectSymmetry
INVARIANTS TypeOK ExclusiveOwner
PROPERTIES OnlyOwnerDrops HonestStatus ImplementsOwnership

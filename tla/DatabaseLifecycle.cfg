SPECIFICATION FairSpec
CONSTANTS
  Objects = {d1, d2}
  NoObject = NoObject
  d1 = d1
  k1 = k1
  k2 = k2
  s1 = s1
  s2 = s2
  Connections = {k1, k2}
  Places <- OnlyD1
  Moves <- There
  Schemas = {s1, s2}
  SpecName <- OneSchema
  Charsets = {latin1}
  DefaultCharset = latin1
  Unset = Unset
  Wanted = {Unset}
  Qualified = {}
  Absent = Absent
  Foreign = Foreign
  Faults = {}
INVARIANTS NoOrphan Settled
PROPERTIES Provisioned Finalized ImplementsProgress

SPECIFICATION FairSpec
CONSTANTS
  Objects = {d1}
  NoObject = NoObject
  d1 = d1
  k1 = k1
  k2 = k2
  s1 = s1
  s2 = s2
  Connections = {k1}
  Places <- Anywhere
  Moves = {}
  Schemas = {s1}
  SpecName <- OneSchema
  Charsets = {latin1, utf8}
  DefaultCharset = latin1
  Unset = Unset
  Wanted = {Unset, utf8}
  Qualified = {}
  Absent = Absent
  Foreign = Foreign
  Faults = {"external"}
PROPERTIES CharsetApplied DropOnlyDeleted

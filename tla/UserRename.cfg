SPECIFICATION Spec
CONSTANTS
  Objects = {u1}
  NoObject = NoObject
  n1 = n1
  n2 = n2
  m1 = m1
  k1 = k1
  k2 = k2
  db1 = db1
  Names = {n1, n2}
  Connections = {k1}
  Host <- HostOf
  Namesake <- SameName
  Databases = {}
  Specs <- Renames
  MaxContent = 0
  Edited = {u1}
  Moves = {}
  Unset = Unset
  Absent = Absent
  Foreign = Foreign
  Faults = {}
INVARIANT RenameTolerated

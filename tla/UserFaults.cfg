SPECIFICATION Spec
CONSTANTS
  Objects = {u1}
  NoObject = NoObject
  n1 = n1
  n2 = n2
  m1 = m1
  k1 = k1
  k2 = k2
  db1 = db1
  Names = {n1}
  Connections = {k1}
  Host <- HostOf
  Namesake <- SameName
  Databases = {}
  Specs <- Credentials
  MaxContent = 2
  Edited = {u1}
  Moves = {}
  Unset = Unset
  Absent = Absent
  Foreign = Foreign
  Faults = {"read", "write", "drop", "forget", "update", "crash", "offline", "external"}
INVARIANTS TypeOK VersionApplied
PROPERTIES CreatedUnderFinalizer

SPECIFICATION FairSpec
CONSTANTS
  Objects = {a1}
  theConnection = a1
  NoObject = NoObject
  latin1 = latin1
  latin1_ci = latin1_ci
  utf8 = utf8
  utf8_ci = utf8_ci
  Supported <- Pairs
  Unset = Unset
  MaxChanges = 2
  Databases = {d1}
  Schemas = {s1}
  theSchema = s1
  SpecName <- OneSchema
  Absent = Absent
  Foreign = Absent
  MayLeave = FALSE
  Specs <- Written5
INVARIANTS TypeOK SuccessIsComplete AdmittedIsSupported
PROPERTIES StatusTracksServer NotBlocked

SPECIFICATION Spec
CONSTANTS
  a = a
  b = b
  Uris = {a, b}
  Mine = a
  Asked <- MCAsked
  Grants <- MCGrants
  Foreign <- MCForeign
  NoFilter = NoFilter
  NoId = NoId
  MaxRevision = 2
  MaxFrames = 3
  MaxKept = 2
CHECK_DEADLOCK FALSE
INVARIANTS
  OrderedStreamAccepted
  OnlyAgreedTypes
  AcceptedIsNoticed
PROPERTIES
  AgreementStands

SPECIFICATION Spec
CONSTANTS
  Cases <- MCCases
  NoRecord = NoRecord
  Ceiling = 2
  Budget = 1
  SdkInstalled = TRUE
  Versions = {"v1", "v2", "v3", "v4"}
  First = "v1"
  DigestOf <- MCDigestOf
  LocOf <- MCLocOf
  Documented <- MCDocumented
  SuitePasses <- MCSuitePasses
  EditsDuringTests = FALSE
  NoVersion = NoVersion
  MaxActs = 2
  MaxTools = 3
  MaxTroubles = 1
CHECK_DEADLOCK FALSE
INVARIANT
  InstalledSdkSettlesTheLeg

SPECIFICATION FairSpec
CONSTANTS
  v1 = v1
  v2 = v2
  Supported = {v1, v2}
  Modern = Modern
  Missing = Missing
  Malformed = Malformed
  Unknown = Unknown
  NoEra = NoEra
  Strays <- MCStrays
CHECK_DEADLOCK FALSE
INVARIANTS
  TypeOK
  EndsAgree
  ReadyMeansNegotiated
  ReadsAreImplemented
PROPERTIES
  ServerNeverGoesBack
  Completes

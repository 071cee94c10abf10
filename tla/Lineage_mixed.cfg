SPECIFICATION Spec
CONSTANTS
  p1 = p1
  p2 = p2
  e1 = e1
  e2 = e2
  e3 = e3
  b0 = b0
  b1 = b1
  i1 = i1
  i2 = i2
  Participants = {p1, p2}
  Epochs = {e1, e2, e3}
  ConfiguredEpochs = {e1}
  Bodies = {b0, b1}
  NoBody = b0
  Procs = {i1}
  NoIssuer = NoIssuer
  Null = Null
  NoHeartbeat = NoHeartbeat
  MsTicks = 2
  MaxSkew = 1
  MaxLease = 4
  Leases = {3}
  Offsets <- MCSkewedOffsets
  Steps <- MCNone
  Foreign <- MCForeign
  MaxSequence = 1
  MaxSent = 2
  MaxTime = 2
SYMMETRY ProcSymmetry
CHECK_DEADLOCK FALSE
INVARIANTS
  OneContentPerRevision
  EpochsDoNotCross
  BoundedTrust
  IssuedIsAcceptable

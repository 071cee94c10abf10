SPECIFICATION Spec
CONSTANTS
  p1 = p1
  p2 = p2
  e1 = e1
  e2 = e2
  e3 = e3
  b0 = b0
  b1 = b1
  i1 = i1
  i2 = i2
  Participants = {p1}
  Epochs = {e1, e3}
  ConfiguredEpochs <- MCNone
  Bodies = {b0}
  NoBody = b0
  Procs = {i1, i2}
  NoIssuer = NoIssuer
  Null = Null
  NoHeartbeat = NoHeartbeat
  MsTicks = 1
  MaxSkew = 1
  MaxLease = 3
  Leases = {2}
  Offsets <- MCOffsets
  Steps <- MCSteps
  Foreign <- MCNullForeign
  MaxSequence = 2
  MaxSent = 4
  MaxTime = 2
SYMMETRY ProcSymmetry
CHECK_DEADLOCK FALSE
INVARIANT
  HeldConformsToSchema

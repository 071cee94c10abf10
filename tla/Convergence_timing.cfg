SPECIFICATION Spec
CONSTANTS
  p1 = p1
  e1 = e1
  e2 = e2
  b0 = b0
  owner = owner
  stranger = stranger
  Participants = {p1}
  Self = p1
  Epochs = {e1, e2}
  Bodies = {b0}
  NoBody = b0
  Null = Null
  NoHeartbeat = NoHeartbeat
  NoDocument = NoDocument
  NoInstant = NoInstant
  NoPrincipal = NoPrincipal
  Principals = {owner, stranger}
  Permitted = {owner}
  Answering = {owner, NoPrincipal}
  HasBinder = TRUE
  MsTicks = 1
  MaxSkew = 2
  MaxLease = 20
  Lease = 6
  MaxRefetchInterval = 5
  PollGap = 1
  Latency = 1
  RenewGap = 2
  Steps <- MCNone
  MaxSequence = 8
  MaxTime = 7
CHECK_DEADLOCK FALSE
INVARIANTS
  AskedBeforeExpiry
  NoFalseDeath
  HeldIsBound
  HintReflected

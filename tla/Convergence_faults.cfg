SPECIFICATION EndlessSpec
CONSTANTS
  p1 = p1
  e1 = e1
  e2 = e2
  b0 = b0
  owner = owner
  stranger = stranger
  Participants = {p1}
  Self = p1
  Epochs = {e1, e2}
  Bodies = {b0}
  NoBody = b0
  Null = Null
  NoHeartbeat = NoHeartbeat
  NoDocument = NoDocument
  NoInstant = NoInstant
  NoPrincipal = NoPrincipal
  Principals = {owner, stranger}
  Permitted = {owner}
  Answering = {owner, stranger}
  HasBinder = TRUE
  MsTicks = 1
  MaxSkew = 3
  MaxLease = 20
  Lease = 5
  MaxRefetchInterval = 2
  PollGap = 1
  Latency = 1
  RenewGap = 1
  Steps <- MCStepForward
  MaxSequence = 5
  MaxTime = 2
CHECK_DEADLOCK FALSE
PROPERTY
  Converges

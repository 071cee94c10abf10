SPECIFICATION Spec
CONSTANTS
  me = me
  other = other
  e1 = e1
  e2 = e2
  Participants = {me, other}
  Self = me
  Epochs = {e1, e2}
  NoBody = NoBody
  Bodies = {NoBody}
  Null = Null
  NoHeartbeat = NoHeartbeat
  NoDocument = NoDocument
  Unreachable = Unreachable
  MsTicks = 1
  MaxSkew = 1
  MaxLease = 2
  Lease = 2
  NoPrincipal = "nobody"
  NoOne = "empty"
  Principals = {"api", "billing", "guest"}
  Table <- MCTable
  Callable = FALSE
  Replicas = {"a", "b", "twin"}
  EpochOf <- MCEpochOf
  SkewOf <- MCSkewOf
  Misrouted <- MCMisrouted
  MaxBeats = 3
  MaxTime = 2
CHECK_DEADLOCK FALSE
INVARIANTS
  ErasBindAlike
  ErasAgree
  CleanRoomAgrees
  ReconnectAgrees
PROPERTY
  ImplementRegisters

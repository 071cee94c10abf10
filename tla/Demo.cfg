SPECIFICATION FairSpec
CONSTANTS
  Participants = {"publisher-1"}
  Self = "publisher-1"
  Epochs = {"epoch1", "epoch2", "epoch3", "epoch4"}
  Minted <- MCMinted
  NoBody = NoBody
  Bodies = {NoBody, "serving", "draining"}
  Null = Null
  NoHeartbeat = NoHeartbeat
  NoReport = NoReport
  MsTicks = 1
  MaxSkew = 20
  MaxLease = 3
  Lease = 2
  Grace = 2
  Budget = 4
  MaxVisits = 2
  MaxStalls = 2
CHECK_DEADLOCK FALSE
INVARIANT
  UndisturbedRunPasses
PROPERTY
  RunEnds

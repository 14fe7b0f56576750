CONSTANTS
  NumServices = 3
  Templates = {a, b, c}
  Bootstrap = {b}
  Starts = {"up", "stopped"}
  MaxOps = 1
  Clients = {p1, p2}
  Manifests = {m1}
  MaxRecordRetries = 1
  MaxRev = 4
  MaxBegun = 2
  NoConfig = NoConfig
  Foreign = Foreign
  NoStack = NoStack
  Nobody = Nobody
  ChannelRoom = 1
  MaxLines = 3
  MaxWrites = 3
  MaxKeys = 2
  Contexts = {c1, c2}
  MaxSwitches = 1
  MaxStatuses = 2
SPECIFICATION Spec
INVARIANTS ShownInOrder UsageIsSinceReset
PROPERTIES RolloutCompletes EveryOperationEnds LinesArrive HeaderCatchesUp
CHECK_DEADLOCK FALSE

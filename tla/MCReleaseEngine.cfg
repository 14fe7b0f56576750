CONSTANTS
  plain = plain
  net = net
  sub = sub
  c1 = c1
  c2 = c2
  withNet = withNet
  Clients = {c1, c2}
  Manifests = {plain, withNet}
  Networks = {net, sub}
  Uses <- MCUses
  AutoCreate = {net}
  LocalNames = {sub}
  ForeignNames = {}
  Keeps = {0, 1}
  MaxRecordRetries = 1
  MaxRev = 4
  MaxOps = 3
  NoConfig = NoConfig
  Foreign = Foreign
  NoStack = NoStack
  Nobody = Nobody
SPECIFICATION Spec
INVARIANTS TypeOK PruneSparesNewest NoPhantomRelease FailedDeployLeavesNoNetwork SerialHistoryMatchesStack
CHECK_DEADLOCK FALSE
PROPERTIES ImplementsReleaseLog

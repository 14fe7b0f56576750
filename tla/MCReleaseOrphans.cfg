CONSTANTS
  plain = plain
  net = net
  sub = sub
  c1 = c1
  c2 = c2
  withNet = withNet
  Clients = {c1}
  Manifests = {plain, withNet}
  Networks = {net}
  Uses <- MCUses
  AutoCreate = {net}
  LocalNames = {net}
  ForeignNames = {}
  Keeps = {0, 1}
  MaxRecordRetries = 1
  MaxRev = 4
  MaxOps = 3
  NoConfig = NoConfig
  Foreign = Foreign
  NoStack = NoStack
  Nobody = Nobody
SPECIFICATION Spec
INVARIANTS UninstallReportsItsNetworks
CHECK_DEADLOCK FALSE

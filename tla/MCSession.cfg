CONSTANTS
  Contexts = {A, B}
  Home = A
  None = None
  Loads = {l1}
  Switches = {s1}
  MaxOps = 1
  MaxFails = 1
SPECIFICATION Spec
INVARIANTS TypeOK ClientIsThePins
PROPERTIES AskedOnce SnapshotCatchesUp
CHECK_DEADLOCK FALSE

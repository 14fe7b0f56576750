CONSTANTS
  NumServices = 3
  Templates = {a, b}
  Bootstrap = {a, b}
  Starts = {"up", "mixed", "stopped"}
  MaxOps = 2
  Nodes = {n1, n2}
  Replicas = 1
  MaxTasks = 3
  MaxGens = 2
SPECIFICATION MCSpec
INVARIANTS TypeOK OneAtATime EveryServiceDeployed CountsOnlyTheCurrent
PROPERTIES FinishedStaysFinished
CHECK_DEADLOCK FALSE

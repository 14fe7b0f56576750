SPECIFICATION MCSpec
CONSTANTS
  Views = {"stacks", "services", "nodes", "tasks", "volumes", "networks", "configs", "secrets", "contexts", "charts"}
  Names = {1, 2}
  MaxEvents = 3
  MaxCalls = 2
  MaxLines = 3
  Heights = {1, 2}
  MaxArrivals = 1
  MaxKeys = 3
INVARIANTS TypeOK StaysPolled NeverFrozen NeverOutOfList ChildIsShown OrderIsAsTold
PROPERTIES DoesWhatItNamed KeepsThePlace
CHECK_DEADLOCK FALSE

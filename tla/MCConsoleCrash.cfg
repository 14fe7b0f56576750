SPECIFICATION Spec
CONSTANTS
  Views = {"networks"}
  Names = {1, 2}
  MaxEvents = 3
  MaxCalls = 2
INVARIANT NeverCrashes
CHECK_DEADLOCK FALSE

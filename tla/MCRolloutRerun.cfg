CONSTANTS
  NumServices = 3
  Templates = {a, b}
  Bootstrap = {a, b}
  Starts = {"up"}
  MaxOps = 2
SPECIFICATION Spec
PROPERTIES NextWaitsForTheLast
CHECK_DEADLOCK FALSE

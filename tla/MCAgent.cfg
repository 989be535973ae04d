CONSTANTS
  Asks = {q1, q2, q3, q4}
  InitCap = 2
SPECIFICATION Spec
INVARIANT RolesAreRight
PROPERTIES
  FailureLeavesHistory
  ImplementsTalk
CHECK_DEADLOCK FALSE

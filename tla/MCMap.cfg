CONSTANTS
  Keys = {"a", "b", "c", "d"}
  Values = {1, 2}
  Null = null
  Absent = absent
  InitCap = 2
  Hash <- MCHash
SPECIFICATION Spec
INVARIANT TableIsSound
PROPERTY ImplementsDict
CHECK_DEADLOCK FALSE

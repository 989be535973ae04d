CONSTANTS
  a1 = a1
  a2 = a2
  q1 = q1
  q2 = q2
  q3 = q3
  Agents = {a1, a2}
  Asks = {q1, q2, q3}
  NoAgent = none
SPECIFICATION Spec
SYMMETRY Symmetry
INVARIANT NothingIsForgotten
CHECK_DEADLOCK FALSE

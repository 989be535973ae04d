CONSTANTS
  Caps = {"net", "fs"}
  Net = "net"
  Fs = "fs"
  MaxFrames = 2
  MaxHandlers = 3
  MaxSbox = 2
  MaxOpen = 3
  Slots = 1
  MaxTemps = 1
SPECIFICATION FairSpec
INVARIANTS
  PermsAreLexical
  StacksMatch
PROPERTIES
  LandsInnermost
  LimitEnds
CHECK_DEADLOCK FALSE

CONSTANTS
  Threads <- MCThreads
  Places = 2
  MaxCalls = 2
  MaxBuilds = 1
SPECIFICATION FairSpec
INVARIANTS
  OneCheckedLibrary
  BuffersAreReturned
PROPERTIES
  CallsEnd
CHECK_DEADLOCK FALSE

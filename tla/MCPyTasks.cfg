CONSTANTS
  Tasks = {t1, t2}
  Main = main
  None = none
  StartMayFail = TRUE
SPECIFICATION FairSpec
INVARIANT CleanExit
PROPERTY Terminates
CHECK_DEADLOCK FALSE

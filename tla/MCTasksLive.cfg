CONSTANTS
  t1 = t1
  t2 = t2
  Tasks = {t1, t2}
  Main = Main
  None = None
  MaxTasks = 2
  CreateMayFail = TRUE
SPECIFICATION FairSpec
PROPERTIES
  Terminates
  DoneWaitReturns
CHECK_DEADLOCK FALSE

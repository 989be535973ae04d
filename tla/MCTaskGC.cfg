CONSTANTS
  t1 = t1
  t2 = t2
  t3 = t3
  Tasks = {t1, t2, t3}
  Main = Main
  None = None
  MaxTasks = 2
  CreateMayFail = TRUE
SPECIFICATION GSpec
SYMMETRY Symmetry
INVARIANTS
  GilSerialises
  NoLostWakeup
  LiveIsUnjoined
  CleanExit
  ReportedOnce
  FreedIsSettled
PROPERTIES
  OutcomeIsFinal
  ImplementsPromise
CHECK_DEADLOCK FALSE

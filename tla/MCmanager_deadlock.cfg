SPECIFICATION FairSpec
CONSTANTS
  Tasks = {t1, t2, t3}
  FirstKnown = {t1, t2, t3}
  Blocking = {}
  InitialDelay = 1
  MaxInterval = 1
  UpdateInterval = 1
  MayPanic = {}
  Forgets = FALSE
PROPERTIES CompletedRemoved
CHECK_DEADLOCK FALSE

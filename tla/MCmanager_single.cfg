SPECIFICATION FairSpec
CONSTANTS
  Tasks = {t1}
  FirstKnown = {t1}
  Blocking = {}
  InitialDelay = 2
  MaxInterval = 7
  UpdateInterval = 9
  MayPanic = {}
  Forgets = FALSE
PROPERTIES KeepsRunning CompletedRemoved StopEnds

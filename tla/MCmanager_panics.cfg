SPECIFICATION Spec
CONSTANTS
  Tasks = {t1, t2}
  FirstKnown = {t1}
  Blocking = {t2}
  InitialDelay = 2
  MaxInterval = 5
  UpdateInterval = 9
  MayPanic = {t1}
  Forgets = TRUE
INVARIANTS TypeOK SingleFlight PendingInFlight DelayFits EndedEmpty
PROPERTIES BackoffGrows IsTaskRunner
CHECK_DEADLOCK FALSE

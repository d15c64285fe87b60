SPECIFICATION Spec
CONSTANTS
  Tasks = {t1}
  FirstKnown = {t1}
  Blocking = {}
  InitialDelay = 1
  MaxInterval = 1
  UpdateInterval = 1
  MayPanic = {t1}
  Forgets = FALSE
INVARIANTS PanicsRecorded

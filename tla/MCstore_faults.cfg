SPECIFICATION Spec
CONSTANTS
  Writers = {w1}
  Readers = {}
  OkData = {ok1, ok2}
  ErrData = {err1}
  NoEntry = NoEntry
  NoIndex = NoIndex
  MaxRev = 2
  FailingCalls <- AllButScan
  Crashes = TRUE
INVARIANT SettledWrite
PROPERTIES IsEntryRegister
SYMMETRY Symmetry

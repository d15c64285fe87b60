SPECIFICATION ReadsSpec
CONSTANTS
  Writers = {w1}
  Readers = {r1}
  OkData = {ok1, ok2}
  ErrData = {err1}
  NoEntry = NoEntry
  NoIndex = NoIndex
  MaxRev = 3
  FailingCalls = {"listKey", "getIndex", "getEntry", "nextIndex", "maxIndex", "dropEntry"}
  Crashes = FALSE
INVARIANTS TypeOK SettledWrite SettledSame HistoryTrimmed IndexedEntryExists
PROPERTIES IsEntryRegister ReadsAreRegular

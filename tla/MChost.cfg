SPECIFICATION FairSpec
CONSTANTS
  Files = {f1, f2}
  MaxChanges = 3
  MaxBoots = 2
  Settings <- Every
INVARIANTS TypeOK OneSet
PROPERTIES Follows
CHECK_DEADLOCK FALSE

SPECIFICATION Spec
CONSTANTS
  Files = {f1}
  MaxChanges = 2
  MaxBoots = 1
  Settings <- Plain
PROPERTIES Restarted
CHECK_DEADLOCK FALSE

SPECIFICATION FairSpec
CONSTANTS
  Proposals = {p1}
  MaxVersion = 2
  QueueSize = 9
  Settings <- Various
INVARIANTS TypeOK PagesAgree
PROPERTIES ClassifiedOnce FallsQuiet PagesCatchUp Reviewed
CHECK_DEADLOCK FALSE

SPECIFICATION FairSpec
CONSTANTS
  Ids <- Three
  MaxVotes = 2
  MaxFaults = 1
INVARIANTS TypeOK NothingPassed
PROPERTIES CatchesUp

SPECIFICATION FairSpec
CONSTANTS
  Items <- TwoItems
  Lists = {"deposit", "voting"}
  Entry = "deposit"
  Moves <- ToVoting
  Nowhere = "nowhere"
  Failing = {"deposit"}
  MaxCrashes = 1
INVARIANTS TypeOK NothingSkipped
PROPERTIES BackWhenComplete Agrees

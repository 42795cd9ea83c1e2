CONSTANTS
  Sources = {"here", "there"}
  Unreadable = {"there"}
  Ids = {1, 2, 3}
  Empty = {2}
  Fragile = {1}
  Limit = 1
  PrewarmLimit = 1
  Loads <- MCTwoLoads
  MaxTime = 1
  MaxChanges = 1
  Gone = Gone
  NoLoad = 0
SPECIFICATION PagesFairSpec
INVARIANTS ListTypeOK ListIsWhole
PROPERTIES RowsKept NewestListWins ListSettles
CHECK_DEADLOCK FALSE

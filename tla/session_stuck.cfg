CONSTANTS
  Sources = {"here", "there"}
  Keys = {k1, k2}
  SourceOf <- MCSourceOf
  Pages = 2
  MaxDetails = 2
  Loads <- MCFewLoads
  MaxChanges = 0
  NoKey = NoKey
  NoLoad = 0
SPECIFICATION DetailSpec
INVARIANTS LoadingHasLoad
CHECK_DEADLOCK FALSE

CONSTANTS
  Sources = {"here", "there"}
  Keys = {k1, k2}
  SourceOf <- MCSourceOf
  Pages = 2
  MaxDetails = 1
  Loads <- MCLoads
  MaxChanges = 1
  NoKey = NoKey
  NoLoad = 0
SPECIFICATION DetailSpec
INVARIANTS DetailTypeOK CompleteIsWhole FooterHasLoad
PROPERTY NewestWins
CHECK_DEADLOCK FALSE

CONSTANTS
  Values <- MCValues
  NoValue = "none"
  None = "none"
  Bad = "bad"
  Texts = {"a", "b"}
  Foreign = {"x"}
  Flushers = {"q"}
  MaxRevision = 2
  MaxForeign = 1
SPECIFICATION ConfigFairSpec
INVARIANTS ConfigTypeOK DraftMatches AckedNotForgotten SavesAgree
PROPERTIES  DraftSettles
CHECK_DEADLOCK FALSE

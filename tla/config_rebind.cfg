CONSTANTS
  Values <- MCValues
  NoValue = "none"
  None = "none"
  Bad = "bad"
  Texts = {"a", "b"}
  Foreign = {"x", "y"}
  Flushers = {}
  MaxRevision = 2
  MaxForeign = 1
SPECIFICATION ConfigSpec
PROPERTIES ReplacesKnown
CHECK_DEADLOCK FALSE

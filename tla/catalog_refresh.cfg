CONSTANTS
  Roots = {"user", "project"}
  ProjectRoots = {"project"}
  Lasting = {}
  Linked = {"project"}
  Configured = {"user"}
  MaxChanges = 3
  MaxOps = 2
  Transitions = TRUE
  StreamFails = TRUE
SPECIFICATION RefreshSpec
INVARIANTS RefreshTypeOK CleanIsFresh
PROPERTY MissingWasGone
CHECK_DEADLOCK FALSE

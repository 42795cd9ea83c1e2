CONSTANTS
  Roots = {"user", "project"}
  ProjectRoots = {}
  Lasting = {"user"}
  Linked = {}
  Configured = {}
  MaxChanges = 3
  MaxOps = 2
  Transitions = FALSE
  StreamFails = FALSE
SPECIFICATION RefreshSpec
INVARIANT WatchedStaysFresh
CHECK_DEADLOCK FALSE

CONSTANTS
  Procs = {p1}
  Agents = {"claude", "hermes", "pi"}
  Order <- MCOrder
  Slots = {1, 2, 3, 4}
  Source = 1
  FirstOnly = {"claude", "pi"}
  Unreadable = {"pi"}
  InitialFs <- MCInitialFs
  MaxEdits = 1
  NoPlan = NoPlan
SPECIFICATION RemovalSpec
INVARIANTS RemovalTypeOK NothingLost AllOrNothing OnlySelectedLoseIt
CHECK_DEADLOCK FALSE

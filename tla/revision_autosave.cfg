CONSTANTS
  Values = {"a", "b"}
  NoValue = "none"
  Flushers = {f1, f2}
  MaxRevision = 5
SPECIFICATION AutosaveFairSpec
INVARIANTS AutosaveTypeOK AutosaveSafe
PROPERTIES FlushReturns SlotSpec

CONSTANTS
  Procs = {p1, p2}
  Skills = {"s1"}
  Bodies = {"{}", "key"}
  SecretBodies = {"key"}
  SaveTexts <- MCSaveTexts
  EditTexts <- MCOneEdit
  MaxRequests = 3
  NoProc = NoProc
SPECIFICATION FairSpec
INVARIANTS TypeOK NeverMasked
PROPERTIES ConditionalWrite SnapshotBeforeOverwrite RequestsEnd RegisterSpec

CONSTANTS
  Ops = {c1, c2, c3, manual}
  Tracked = {c1, c2, c3}
  NoOp = NoOp
SPECIFICATION LaneFairSpec
INVARIANTS LaneTypeOK LaneSafe
PROPERTIES NoOvertaking EveryoneServed
CHECK_DEADLOCK FALSE

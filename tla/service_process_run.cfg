SPECIFICATION RunFairSpec
INVARIANTS RunTypeOK OneAnswer DataIsReply
PROPERTY EveryRunEnds
CHECK_DEADLOCK FALSE

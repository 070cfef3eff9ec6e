CONSTANT NumSignals = 3
SPECIFICATION FairSpec
CHECK_DEADLOCK FALSE
INVARIANTS
  TypeOK
  RunEndsAlone
PROPERTY HandlerEndsProcess

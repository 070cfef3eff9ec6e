CONSTANT NumSignals = 1
SPECIFICATION FairSpec
CHECK_DEADLOCK FALSE
PROPERTY SignalEndsServer

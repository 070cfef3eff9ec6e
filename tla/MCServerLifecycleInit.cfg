CONSTANT NumSignals = 1
SPECIFICATION Spec
CHECK_DEADLOCK FALSE
INVARIANT ServerOutlivesThreads

CONSTANTS
  t1 = t1
  t2 = t2
  Eve_Test = Eve_Test
  Eve_Test1 = Eve_Test1
  Thread <- MCThread
  EventType <- MCEventType
  Handler <- TwoMethods
  MaxLen = 4
  NULL = NULL
SPECIFICATION FairSpec
INVARIANT TypeOK
PROPERTIES
  ImplementsHub
  OperationsReturn

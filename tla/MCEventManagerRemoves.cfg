CONSTANTS
  t1 = t1
  t2 = t2
  Eve_Test = Eve_Test
  Eve_Test1 = Eve_Test1
  Thread <- MCThread
  EventType <- MCEventType
  Handler <- MCHandler
  MaxLen = 3
  NULL = NULL
SPECIFICATION Spec
PROPERTIES
  PopRemovesMethod

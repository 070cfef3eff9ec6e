CONSTANTS
  o1 = o1
  o2 = o2
  o3 = o3
  o4 = o4
  m_buckets <- MCBuckets
  Sock <- MCSock
  Commands <- MCCommands
  Fun <- MCFun
  Obj <- MCObj
  Request <- MCRequest
  MaxPerSock = 0
  NULL = NULL
SYMMETRY Symmetry
SPECIFICATION Spec
INVARIANTS
  TypeOK
  MessageOwnedOnce
  FieldsReadAsWritten
PROPERTY ImplementsRouter

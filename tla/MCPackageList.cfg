CONSTANTS
  s1 = s1
  s2 = s2
  m1 = m1
  m2 = m2
  m3 = m3
  m4 = m4
  Sock <- MCSock
  Msg <- MCMsg
  MaxPerSock = 1
  MaxClose = 2
  NULL = NULL
SPECIFICATION FairSpec
INVARIANTS
  TypeOK
  PermitCoversQueue
  QuotaPerSock
  OwnedOnce
PROPERTIES
  PurgeIsComplete
  QueuedIsServed
  ImplementsMsgQueue

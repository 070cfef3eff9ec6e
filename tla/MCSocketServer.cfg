CONSTANTS
  c1 = c1
  c2 = c2
  Conn <- MCConn
  MaxFd = 2
  MAX_CONN = 3
  NumMsg = 2
  MaxPerSock = 1
  TxCap = 1
  NULL = NULL
SYMMETRY Sym
SPECIFICATION Spec
INVARIANTS
  TypeOK
  BytesBelongToFd
  NoLostEdge
  NoLeftoverReply
PROPERTIES
  HandledInOrder

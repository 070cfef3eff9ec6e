CONSTANTS
  c1 = c1
  c2 = c2
  Conn <- MCConn
  MaxFd = 1
  MAX_CONN = 2
  NumMsg = 2
  MaxPerSock = 0
  TxCap = 1
  NULL = NULL
SPECIFICATION FairSpec
PROPERTIES
  MessageTaken
  ReplyLeaves

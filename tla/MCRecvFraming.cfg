CONSTANTS
  Modulus = 16
  MaxLen = 15
  HeadLen = 4
  Fields <- MCFields
  LowByte <- MCLowByte
  NumMsg = 3
SPECIFICATION FairSpec
CHECK_DEADLOCK FALSE
INVARIANTS
  TypeOK
  NoOverrun
  ClosedForCause
PROPERTIES
  ImplementsFraming
  WholeMessageDelivered

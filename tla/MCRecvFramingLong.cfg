CONSTANTS
  Modulus = 16
  MaxLen = 15
  HeadLen = 4
  Fields <- MCLongFields
  LowByte <- MCLowByte
  NumMsg = 2
SPECIFICATION Spec
CHECK_DEADLOCK FALSE
INVARIANT LongMessageRefused

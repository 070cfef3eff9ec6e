CONSTANTS
  Modulus = 16
  MaxLen = 15
  Lens <- MCLens
  NumMsg = 4
SPECIFICATION Spec
CHECK_DEADLOCK FALSE
INVARIANTS
  TypeOK
  RepliesInOrder
  KeptArrives

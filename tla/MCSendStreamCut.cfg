CONSTANTS
  Modulus = 16
  MaxLen = 15
  Lens <- MCLens
  NumMsg = 2
SPECIFICATION Spec
CHECK_DEADLOCK FALSE
INVARIANT WholeReplies

CONSTANTS
  u1 = u1
  u2 = u2
  u3 = u3
  d1 = d1
  d2 = d2
  d3 = d3
  d4 = d4
  User <- MCUser
  DB <- MCDB
  Reply <- MCReply
  NULL = NULL
SYMMETRY Symmetry
SPECIFICATION Spec
CHECK_DEADLOCK FALSE
INVARIANTS
  TypeOK
  OneUser
  PoolBounded
  ResultsAreOwn

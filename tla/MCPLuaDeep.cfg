CONSTANTS
  L1 = L1
  L2 = L2
  o1 = o1
  o2 = o2
  h1 = h1
  h2 = h2
  Interp = {L1}
  Obj = {o1}
  Handle = {h1}
  Null = Null
  Nil = Nil
  Files <- MCCallFiles
  Calls <- MCCallCalls
  Keys <- MCCallKeys
  Other = "old"
SPECIFICATION LuaSpec
CHECK_DEADLOCK FALSE
INVARIANT GetValFollowsAnyPath

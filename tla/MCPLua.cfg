CONSTANTS
  L1 = L1
  L2 = L2
  o1 = o1
  o2 = o2
  h1 = h1
  h2 = h2
  Interp = {L1, L2}
  Obj = {o1, o2}
  Handle = {h1, h2}
  Null = Null
  Nil = Nil
  Files <- MCFiles
  Calls <- MCCalls
  Keys <- MCKeys
  Other = "old"
SPECIFICATION LuaSpec
SYMMETRY MCSymmetry
CHECK_DEADLOCK FALSE
INVARIANTS LuaTypeOK ObjectsAreSafe CallReachesFunction GetValFollowsPath

SPECIFICATION ListsSpec
CONSTANTS
  R = R
  W = W
  f = f
  g = g
  HookType = {R, W}
  HookFun = {f, g}
  LastAddr = 4
INVARIANTS TypeOK Sorted
PROPERTIES AcceptedIsEffective NothingElseChanges ImplementsMap
CHECK_DEADLOCK FALSE

SPECIFICATION ListsSpec
CONSTANTS
  R = R
  W = W
  f = f
  g = g
  HookType = {R, W}
  HookFun = {f, g}
  LastAddr = 4
PROPERTY InsertionKeepsHooks
CHECK_DEADLOCK FALSE

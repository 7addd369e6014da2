SPECIFICATION ListsSpec
CONSTANTS
  R = R
  W = W
  f = f
  g = g
  HookType = {R, W}
  HookFun = {f, g}
  LastAddr = 4
INVARIANT NoOverlap
CHECK_DEADLOCK FALSE

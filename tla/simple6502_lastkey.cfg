SPECIFICATION MachineSpec
CONSTANTS
  Size = 3
  Colors <- ThreeBytes
  MaxWrites = 3
  Keys <- SomeKeys
  Escape <- EscapeKey
  MaxPresses = 3
  MaxStarts = 2
INVARIANT LastKeyPressed
CHECK_DEADLOCK FALSE

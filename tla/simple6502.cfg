SPECIFICATION MachineSpec
CONSTANTS
  Size = 3
  Colors <- ThreeBytes
  MaxWrites = 3
  Keys <- SomeKeys
  Escape <- EscapeKey
  MaxPresses = 3
  MaxStarts = 2
INVARIANTS
  TypeOK LastRefreshShows
  MutexHeld NoGhostKey
  OneLoop OffIsOff OwnMemory CallbackThere
PROPERTIES
  PictureSettles
  EventsSeen KeyReadEnds
  HooksStayInUse PowerOnReturns
CHECK_DEADLOCK FALSE

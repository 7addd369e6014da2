SPECIFICATION RunSpec
CONSTANTS
  OpcodeNames <- opcode_names
  Images <- Programs
  Transl <- DeviceTransl
  ReadHook <- DeviceReadHook
  WriteHook <- DeviceWriteHook
  BrkHook = "none"
  StepCb = TRUE
  StopOps = {"BRK"}
INVARIANTS TypeOK HookedCellsFiltered
PROPERTIES TranslatedCellsUntouched FlagsOwned
CHECK_DEADLOCK FALSE

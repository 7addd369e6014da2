SPECIFICATION RunSpec
CONSTANTS
  OpcodeNames <- opcode_names
  Images <- Sums
  ProgramStart = 512
  Transl <- NoHooks
  ReadHook <- NoHooks
  WriteHook <- NoHooks
  BrkHook = "exits"
  StepCb = FALSE
  StopOps = {}
PROPERTY OverflowDetected
CHECK_DEADLOCK FALSE

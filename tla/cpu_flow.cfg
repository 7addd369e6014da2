SPECIFICATION RunSpec
CONSTANTS
  OpcodeNames <- opcode_names
  Images <- FlowPrograms
  Transl <- NoHooks
  ReadHook <- NoHooks
  WriteHook <- NoHooks
  BrkHook = "exits"
  StepCb = FALSE
  StopOps = {}
  ProgramStart = 512
INVARIANT WideResult
PROPERTY FollowsProgramFlow
CHECK_DEADLOCK FALSE

SPECIFICATION SuitesSpec
CONSTANTS
  OpcodeNames <- opcode_names
  Images <- Tests
  Transl <- TestTransl
  ReadHook <- TestReadHook
  WriteHook <- TestWriteHook
  BrkHook = "returns"
  StepCb = TRUE
  StopOps = {"BRK"}
INVARIANTS TestSucceeds TestsPass
PROPERTIES TestEnds FieldsIndependent

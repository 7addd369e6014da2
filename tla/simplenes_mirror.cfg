SPECIFICATION MCSpec
CONSTANTS
  PageSize = 8
  Pages = 2
  Stride = 4
  Data <- Bytes8
  Values = {}
  LastBusAddr = 63
  INTERNAL_RAM_MIRROR_STOP = 8
  INTERNAL_RAM_MIRROR_SIZE = 4
  PPU_CR1_MAP = 8
  PPU_CR2_MAP = 9
  PPU_STATUS_MAP = 10
  PPU_MEM_ADDR_MAP = 14
  PPU_MEM_DATA_MAP = 15
  PPU_SPRITE_DMA_MAP = 20
  Accessed <- UsedAddresses
  Written = {1, 7}
  MaxAccesses = 5
  FileLen = 12
  File <- NesFile
  Start = 2
  LastAddr = 11
  MaxErrors = 2
  PrgOffset = 2
  PrgLen = 4
  VramSize = 4
  Garbage <- AnyCount
INVARIANT MirrorsCoincide
CHECK_DEADLOCK FALSE

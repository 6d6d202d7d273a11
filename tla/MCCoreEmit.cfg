SPECIFICATION FairSpec
CONSTANTS
  WARPS_PER_CORE = 2
  THREADS_PER_BLOCK = 2
  BLOCK_DIM = 3
  PcSize <- MCPc
  AddrSize = 8
  WordSize = 8
  ByteSize = 4
  NumRegs = 4
  ImmSize = 4
  BlockId = 1
  MMIO_TX <- MCTx
  SDEPTH = 4
  Programs <- EmitInIf
  LoadedData <- MCData
  Fuel = 14
PROPERTY
  EmitsAreAnswered

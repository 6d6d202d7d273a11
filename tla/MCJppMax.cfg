SPECIFICATION Spec
CONSTANTS
  Jobs <- MaxJobs
  NumLimit = 65536
  MAX_VAR_REG = 5
  SCRATCH_BASE = 6
  UART_TX_ADDR = 63
  IMM_MAX = 63
  WordSize = 65536
  ByteSize = 256
  AddrSize = 128
  MMIO_TX = 63
  NumRegs = 8
  PcSize = 256
  SDEPTH = 4
  BlockId = 1
  BLOCK_DIM = 3
  Lanes = {0, 1, 2}
  Launched = {0, 1, 2}
  LoadedData <- MCData
  Bias <- MCBias
INVARIANTS
  MaxIsTheLarger
CHECK_DEADLOCK FALSE

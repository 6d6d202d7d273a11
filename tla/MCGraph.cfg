SPECIFICATION Spec
CONSTANTS
  Graphs <- MCGraphs
  ROM_WORDS = 256
  IMM_MAX = 63
  MMIO_TX = 63
  WordSize = 65536
  ByteSize = 256
  AddrSize = 512
  NumRegs = 8
  PcSize = 256
  SDEPTH = 4
  BlockId = 0
  BLOCK_DIM = 1
  Lanes = {0}
  Launched = {0}
  Bias <- MCBias
INVARIANTS
  BuffersAreApart
  EveryAccessIsPlanned
  KernelMatchesEval
  WordCountAgrees
PROPERTIES
  ImplementsPlanner
  Ends
CHECK_DEADLOCK FALSE

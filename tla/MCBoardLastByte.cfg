SPECIFICATION Spec
CONSTANTS
  ByteSize = 4
  AddrSize = 6
  ProgSize = 8
  RunRst = 3
  Workloads <- MCWorkloads
INVARIANT
  EveryByteLands

SPECIFICATION Spec
CONSTANTS
  a = a
  b = b
  c = c
  d = d
  e = e
  Lanes <- FiveLanes
  Launched <- FiveLanes
  PcSize <- ProgLen
  SDEPTH = 4
  Programs <- EveryProgram
SYMMETRY Symmetry
PROPERTY SleepersAreKept
CHECK_DEADLOCK FALSE

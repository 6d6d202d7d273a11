SPECIFICATION Spec
CONSTANTS
  a = a
  b = b
  c = c
  d = d
  e = e
  Lanes <- FiveLanes
  Launched <- FourLanes
  PcSize <- ProgLen
  SDEPTH = 4
  Programs <- EveryProgram
SYMMETRY Symmetry
INVARIANTS
  TypeOK
  MasksDisjoint
  NobodyRunsForNobody
  BaseCovers
PROPERTY SleepersAreKept
CHECK_DEADLOCK FALSE

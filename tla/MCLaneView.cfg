SPECIFICATION ViewSpec
CONSTANTS
  a = a
  b = b
  c = c
  Lanes <- ThreeLanes
  Launched <- ThreeLanes
  PcSize <- ProgLen
  SDEPTH = 4
  Programs <- CompiledPrograms
SYMMETRY Symmetry
INVARIANTS
  NoLaneLost
  LanesInStep
  SleepersResume
PROPERTY ImplementsLaneSemantics
CHECK_DEADLOCK FALSE

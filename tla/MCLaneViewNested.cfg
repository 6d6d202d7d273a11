SPECIFICATION ViewSpec
CONSTANTS
  a = a
  b = b
  c = c
  Lanes <- ThreeLanes
  Launched <- ThreeLanes
  PcSize <- ProgLen
  SDEPTH = 4
  Programs <- NestedIf
SYMMETRY Symmetry
INVARIANTS
  NoLaneLost
CHECK_DEADLOCK FALSE

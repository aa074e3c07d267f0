SPECIFICATION Spec
CONSTANTS
  PAGE = 2
  MaxStore = 3
  MaxBlocks = 5
  MaxLength = 7
  Capacities <- Windows
  Stray = Stray
INVARIANTS
  ValidIsWhole
  StaysInWindow
  PageableExact
  RestoreExact

SPECIFICATION ReplaySpec
CONSTANTS
  Memory = 10
  PAGE = 2
  Output = 4
  Length = 5
  Regions = TRUE
  MinRegion = 2
  MaxLive = 4
  Spare = 4
  Code <- MCCode
  MaxAccess = 3
  MaxOps = 3
  Body = 2
  MaxIterations = 2
  MaxSteps = 6
  MaxInputs = 1
  Layouts <- MCLayouts
  MaxCode = 2
  MaxPages = 3
  MaxBlob = 4
  HeaderSize = 1
  PageSize = 0
  InstructionSize = 0
  SegmentSize = 0
INVARIANTS
  InputsExact
  WritesKept
  AcceptsRecorded
  Reproduces
PROPERTIES
  RefusedForCause

SPECIFICATION Spec
CONSTANTS
  i1 = i1
  i2 = i2
  Ids = {i1, i2}
  Windows = 2
  Sizes = {1, 2}
  Budget = 3
  Modes = {"stream", "shared", "socket"}
  MaxCalls = 5
SYMMETRY Symmetry
INVARIANTS
  SealedIsExact
  RestoredIsOriginal
  InStep
  BudgetKept
PROPERTIES
  WindowHeld

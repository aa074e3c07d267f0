SPECIFICATION Spec
CONSTANTS
  b1 = b1
  b2 = b2
  b3 = b3
  zero = zero
  one = one
  MaxTotal = 3
  Buffer = {b1, b2, b3}
  MaxPages = 2
  Values = {zero}
  Zero = zero
  MaxId = 3
  PAGE = 8
  Targets = {1}
  Retained = {1}
  Costs = {1}
  Slicing = {TRUE, FALSE}
  Window = 2
  Failing = {}
CONSTRAINT Fits
SYMMETRY Symmetry
INVARIANTS
  ColdIsRecoverable StopsForCause PeakCoversExcess
PROPERTIES
  TargetOrNothingLeft

SPECIFICATION Spec
CONSTANTS
  b1 = b1
  zero = zero
  one = one
  MaxTotal = 3
  Buffer = {b1}
  MaxPages = 3
  Values = {zero, one}
  Zero = zero
  MaxId = 1
  PAGE = 4
  Targets = {0}
  Retained = {0, 14}
  Costs = {1}
  Slicing = {TRUE, FALSE}
  Window = 2
  Failing = {"mmap", "mprotect", "madvise", "munmap", "replay"}
INVARIANTS
  TypeOK ProtectionMatches EvictionIsLossless WholeRegionRestores PageAccounting NoRecipeLeak
PROPERTIES
  PinnedForGood Transparent

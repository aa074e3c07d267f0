SPECIFICATION Spec
CONSTANTS
  Entries = {e1, e2, e3, e4}
  Bytes <- MCBytes
  LIMIT = 5
  MaxEntries = 3
  MaxClock = 5
  None = None
INVARIANTS
  RetainedExact
PROPERTIES
  ForgetsOldest

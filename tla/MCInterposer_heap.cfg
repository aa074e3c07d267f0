SPECIFICATION Spec
CONSTANTS
  f = f
  g = g
  Lib = Lib
  Main = Main
  None = None
  threshold = 2
  MAX_BUFFER = 3
  Buckets = {0, 1}
  Bucket <- Hash
  Home <- HomeOf
  Arguments <- TwoArguments
  Addresses = {a1, a2}
  Sizes = {1, 2, 3, 4}
  Entries = {g}
  Modules = {Main}
  MaxFailures = 1
  templates_enabled = TRUE
  resident_target_set = TRUE
  MaxTemplates = 1
  MaxNest = 1
INVARIANTS
  HeapExact
PROPERTIES
  SealsOwnBuffer

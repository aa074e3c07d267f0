SPECIFICATION LiveSpec
CONSTANTS
  f = f
  g = g
  Lib = Lib
  Main = Main
  None = None
  threshold = 2
  MAX_BUFFER = 3
  Buckets = {0, 1}
  Bucket <- Hash
  Home <- HomeOf
  Arguments <- OneArgument
  Addresses = {a1}
  Sizes = {2, 3}
  Entries = {f, g}
  Modules = {Main, Lib}
  MaxFailures = 2
  templates_enabled = TRUE
  resident_target_set = FALSE
  MaxTemplates = 1
  MaxNest = 0
INVARIANTS
  RangesExact
PROPERTIES
  RetriedEventually

SPECIFICATION Spec
CONSTANTS
  f = f
  g = g
  Lib = Lib
  Main = Main
  None = None
  threshold = 2
  MAX_BUFFER = 3
  Buckets = {0, 1}
  Bucket <- Hash
  Home <- HomeOf
  Arguments <- OneArgument
  Addresses = {a1, a2}
  Sizes = {2, 3}
  Entries = {g}
  Modules = {Main}
  MaxFailures = 1
  templates_enabled = TRUE
  resident_target_set = TRUE
  MaxTemplates = 1
  MaxNest = 0
INVARIANTS
  RejectedStaysResident

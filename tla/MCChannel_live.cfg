SPECIFICATION Spec
CONSTANTS
  i1 = i1
  i2 = i2
  Ids = {i1}
  Windows = 2
  Sizes = {1, 2}
  Budget = 1
  Modes = {"stream", "shared", "socket"}
  MaxCalls = 5
PROPERTIES
  CallsReturn
  WorkerLeaves

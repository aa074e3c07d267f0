SPECIFICATION FlowSpec
CONSTANT N = 4
INVARIANTS
  StaysRecorded
  FlagsSeen

SPECIFICATION Spec
CONSTANTS
  MaxSlots = 3
  PAGE = 2
  Word = 13
  MaxLength = 2
INVARIANTS
  IndexExact OwnerIsContainer NeverAborts PrepareExact

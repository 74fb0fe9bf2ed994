SPECIFICATION Spec
CONSTANTS
  Keys <- MCKeys
  zero_key = 0
  Depths = {0, 1, 2}
  Slots = {0, 1}
  Slot <- MCSlot
  TrialLimit = 4
INVARIANTS
  HitIsVisited
  IInv
PROPERTY
  NewTrialIsEmpty

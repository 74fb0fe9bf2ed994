SPECIFICATION Spec
CHECK_DEADLOCK FALSE
CONSTANTS
  N = 4
  MAP_ARRAY_ALIGNMENT = 4
  MaxDepth <- MCMaxDepth
  Unset = Unset
  none = none
  freed = freed
  Table <- MCTable
  EndingsOf <- MCEndings
  PruneOf <- MCPrune
  Requests <- AllGoals
  Repeated <- NoCalls
  Slots = {0, 1, 2, 3, 4, 5, 6}
  Slot <- MCSlot
  TrialLimit = 4
INVARIANT
  WildcardsAreSolved

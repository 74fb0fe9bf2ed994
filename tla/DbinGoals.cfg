SPECIFICATION Spec
CHECK_DEADLOCK FALSE
CONSTANTS
  N = 5
  MAP_ARRAY_ALIGNMENT = 4
  MaxDepth <- MCMaxDepth
  Unset = Unset
  none = none
  freed = freed
  Table <- MCTable
  EndingsOf <- MCEndings
  PruneOf <- MCPrune
  Requests <- ManyGoals
  Repeated <- Calls
  Slots = {0,1,2,3,4,5,6}
  Slot <- MCSlot
  TrialLimit = 4
INVARIANTS
  LongChainsCompute
  ExactIsSolved
  NoStaleHit
PROPERTY
  CallsReturn

SPECIFICATION Spec
CHECK_DEADLOCK FALSE
CONSTANTS
  N = 3
  SetBits = 6
  MaxScriptChain = 2
  no_filter = no_filter
  no_index = no_index
  MaxIterators = 1
  MaxCalls = 3
  Filters <- MCFilters
  AltsOf <- MCAltsOf
  Busy <- MCBusy
INVARIANTS
  DivisionIsExact
  InverseSwapsSides
  LayersFitTheirSpace
  ClassicLayersAreSearched
  HandedOnce
  IterationIsComplete
  HexSetsReadBack
  ChainsKeepTheirMeaning
PROPERTY
  CallsEnd

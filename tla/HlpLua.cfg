SPECIFICATION Spec
CONSTANTS
  N = 5
  MAP_ARRAY_ALIGNMENT = 4
  MaxChain = 6
  Wild = Wild
  Unset = Unset
  none = none
  Table <- MCTable
  Requests <- FromLua
  Slots = {0, 1, 2, 3, 4, 5, 6}
  Slot <- MCSlot
  TrialLimit = 6
INVARIANT
  ScriptsGetChains

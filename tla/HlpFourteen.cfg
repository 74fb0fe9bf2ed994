SPECIFICATION Spec
CONSTANTS
  N = 16
  MAP_ARRAY_ALIGNMENT = 4
  MaxChain = 31
  Wild = Wild
  Unset = Unset
  none = none
  Table <- MCTable
  Requests <- FourteenRequests
  Slots = {0, 1, 2, 3, 4, 5, 6, 7, 8, 9, 10, 11, 12, 13, 14, 15, 16}
  Slot <- FourteenSlot
  TrialLimit = 40
INVARIANTS
  NoLongerThanKnown

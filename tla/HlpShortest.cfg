SPECIFICATION OneCallSpec
CHECK_DEADLOCK FALSE
CONSTANTS
  N = 5
  MAP_ARRAY_ALIGNMENT = 4
  MaxChain = 6
  Wild = Wild
  Unset = Unset
  none = none
  Table <- MCTable
  Requests <- ShortestRequests
  Slots = {0, 1, 2, 3, 4, 5, 6}
  Slot <- MCSlot
  TrialLimit = 4
INVARIANTS
  SoundAnswer
  OnlyDistanceLosesChains
  DistancesSuffice

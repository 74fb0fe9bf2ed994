SPECIFICATION ProgramSpec
CHECK_DEADLOCK FALSE
CONSTANTS
  N = 3
  RandomN = 4
  Wild = Wild
  Bracket = Bracket
  Dash = Dash
  Space = Space
  Other = Other
  nil = nil
  none = none
  TableEntries <- MCTableEntries
  Typed <- MCTyped
  MaxTyped = 4
  TypedBits <- MCTypedBits
  MaxTypedBits = 7
  LaneInputs <- MCLaneInputs
INVARIANTS
  GoalsAreRead
  
  RandomGoalHasGroup
  ArraysAreSorted
  FilterIsLegalDist
PROPERTY
  ReadingEnds

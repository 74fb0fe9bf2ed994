SPECIFICATION PreparationsSpec
CONSTANTS
  N = 4
  MAP_ARRAY_ALIGNMENT = 4
  Groups = {2, 4}
  DbinGroups = {2, 3, 4}
  HexLayers <- PreparedHexLayers
  none = none
  NULL = NULL
INVARIANTS
  ReturnsTheTable
  RowsLoseNoMap
  IdentityRowIsLongest
  VectorsStayInRow
  ReturnsTheEndings
  EndingsAreShortest
  TreeIsShallow
  EntriesAreBest
  PruneLosesNothing
PROPERTY
  PreparationsEnd

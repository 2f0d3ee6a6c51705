SPECIFICATION Spec
CONSTANTS
  Table8 = 4
  GridPoints = 4
  PoolUnit = 32
  NameBytes = 4
  MaxWord = 9999
  MaxSaves = 2
  Starts = {0, 2}
  Inputs <- MCInputs
  ForeignTags <- MCForeignTags
CHECK_DEADLOCK FALSE
INVARIANTS
  RoundTrip
  WholeIsRead
  CutIsNoticed
  StaysInTag
PROPERTIES
  OnlyFragilePanics
  SavedAgain

SPECIFICATION MCSpec
CONSTANTS
  GridPoints = 4096
  MaxWord = 100000
  NCells = 4
  MaxHeld = 1
  Luts = {"a", "b", "long"}
  Widths <- MCWidths
  Kinds <- MCKinds
INVARIANTS
  EveryStageHasOneOwner
  ChannelsAreTheEnds
PROPERTIES
  ImplementsLists
  NothingLeftToRemove
  PreOptimizeReturns

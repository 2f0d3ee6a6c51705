\* A row is transformed and the behaviour ends, or it ends with a refusal or
\* a panic.
CHECK_DEADLOCK FALSE
SPECIFICATION Spec
CONSTANTS
  Pairs <- MCPairs
  Changes <- MCChanges
  Changed <- MCChanged
  Pixels = 2
  Rooms = {0, 64}
INVARIANTS
  LanesAreTheSamples
  SamplesAreTheLanes
  StaysInBuffer
PROPERTIES
  NeverOverwritten

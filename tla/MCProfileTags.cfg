SPECIFICATION Spec
CONSTANTS
  Sigs = {"rTRC", "gTRC", "tech", "priv"}
  Types = {"curv", "sig"}
  StrictFree = {"curv"}
  Supported <- MCSupported
  Values = {1, 2}
  Malformed <- MCMalformed
  RawWrites <- MCRawWrites
  Disk <- MCDisk
  Files <- MCFiles
  Links <- MCLinks
  MAX_TABLE_TAG = 3
  Rooms = {150, 192, 1000}
INVARIANTS
  NamesUnique
  ReadsLatest
  SavedReadsTheSame

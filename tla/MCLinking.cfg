SPECIFICATION Spec
CONSTANTS
  GridPoints = 4096
  MaxWord = 100000
  MaxByte = 3
  Names <- MCNames
  ProfileOf <- MCProfileOf
  Calls <- MCCalls
INVARIANTS
  StagesMeet
  EachProfileOnce
  SoundChainsAreMade

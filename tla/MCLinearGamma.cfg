SPECIFICATION FairSpec
CONSTANTS
  GridPoints = 4096
  MaxWord = 100000
  MaxByte = 255
  Names <- MCNames
  ProfileOf <- MCProfileOf
  Calls <- GammaCalls
PROPERTIES
  RampIsFilled

SPECIFICATION Spec
CONSTANTS
  Routines = {"FloatXFORM", "NullFloatXFORM", "NullXFORM", "PrecalculatedXFORM", "PrecalculatedXFORMGamutCheck", "CachedXFORMGamutCheck"}
  MaxPpl = 2
  MaxLines = 3
  MaxPad = 1
  PixelSize = 4
  AlphaStart = 0
INVARIANTS
  EachLineInItsPlace
  NeverOverrun
PROPERTY AlphaCopied

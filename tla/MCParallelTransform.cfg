SPECIFICATION FairSpec
CONSTANTS
  MaxWorkers = 3
  MaxPixels = 4
  NumCPU = 2
  Calls <- MCCalls
  Managers <- MCCalls
  Sample = {0, 1}
  cmsMAXCHANNELS = 16
  EntryColorSpace = "Rgb"
  Xform = "CachedXFORM"
  Output <- Pixel
  Eval <- MCEval
  Inputs <- MCInputs
  Untouched = Untouched
INVARIANTS
  TypeOK
  WrittenPixelsCorrect
  ReturnedComplete
  PanicsAreClean
PROPERTIES
  WrittenOnce
  ImplementsPixelMap
  Terminates

SPECIFICATION FairSpec
CONSTANTS
  Calls = {0, 1, 2}
  ZeroCallers = {1, 2}
  PMemManager = PMemManager
  Managers <- MCManagers
  HandleFormats = {"leading"}
  Size = 1
  Rows = 2
  DirtyLanes <- MCDirtyLanes
  Sample = {0, 1}
  cmsMAXCHANNELS = 16
  EntryColorSpace = "5color"
  Xform = "CachedXFORMGamutCheck"
  Output <- Pixel
  Eval <- MCEval
  Inputs <- MCInputs
  Untouched = Untouched
INVARIANTS
  DamageStaysWithSharers
PROPERTIES
  AllTransformed

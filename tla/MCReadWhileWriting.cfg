SPECIFICATION Spec
CONSTANTS
  Readers = {"r1", "r2"}
  Writers = {"w"}
  Tags = {"rTRC", "gTRC", "damaged"}
  Disk <- MCDisk
  Written = "written"
  Nothing = "nil"
  Free = "free"
  Locking = TRUE
  MaxCalls = 2
INVARIANT AnswersHeld

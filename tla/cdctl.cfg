SPECIFICATION Spec
CONSTANTS
  End = 2
  Locs = {1}
  Commands <- Cmds
  Repeats = FALSE
  Tight = FALSE
  Fails = TRUE
  MaxLids = 1
  None = None
  MaxOps = 3
INVARIANTS Answered DriveGoesOn SectorTruth
CHECK_DEADLOCK FALSE

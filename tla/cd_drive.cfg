SPECIFICATION FairSpec
CONSTANTS
  d1 = d1
  d2 = d2
  Lead = 1
  Bit = 8
  Total = 3
  Discs <- OneDisc
  Counts = {0, 2}
  Times = {1, 3}
  Calls = {"cdda", "sub", "prefetch", "count", "eject", "swap"}
  Physical = TRUE
  Sub = TRUE
  Flaky = TRUE
  Starts = {TRUE, FALSE}
  Spurious = FALSE
INVARIANTS DriveExclusive
PROPERTIES CallsReturn

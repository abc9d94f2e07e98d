SPECIFICATION Spec
CONSTANTS
  d1 = d1
  d2 = d2
  Lead = 1
  Bit = 8
  Total = 3
  Discs <- TwoDiscs
  Counts = {2}
  Times = {1, 3, 4}
  Calls = {"data", "prefetch", "swap", "osd"}
  Physical = FALSE
  Sub = FALSE
  Flaky = FALSE
  Starts = {TRUE, FALSE}
  Spurious = TRUE
INVARIANTS ReadTruth CacheTruth NoDoubleRead

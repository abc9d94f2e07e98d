SPECIFICATION FairSpec
CONSTANTS
  Addr = {a1, a2}
  Bad = {a2}
  None = None
  Torn = FALSE
  MaxVersion = 2
  MaxOps = 1
INVARIANTS Exclusive CodeTruth
PROPERTIES CallsReturn
CHECK_DEADLOCK FALSE

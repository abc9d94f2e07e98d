SPECIFICATION RcntSpec
CONSTANTS
  Event = {11}
  RCNT = 11
  CycleMod = 128
  Horizon = 16
  Strides = {1, 4}
  Slack = 2
  Late = 0
  Delays <- Soon
  Start = 118
  Overflow = 8
  LoadLimit = 1
  PixelRate = 3
  EighthRate = 2
  LineCycles = 2
  VBlankStart = 2
  HSyncTotal = 4
  Modes <- ModesOf
  Counts = {5}
  Targets = {3}
  Live = {0, 1, 2}
  MaxNow = 137
  MaxWrites = 2
INVARIANTS Punctual CounterTruth FrameTruth
PROPERTIES ImplementsEvents
CHECK_DEADLOCK FALSE

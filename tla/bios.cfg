SPECIFICATION Spec
CONSTANTS
  Threads = {0, 1}
  Slots <- TwoSlots
  Kinds <- AllKinds
  Setups <- Tables
  Ports = {0}
  Sectors = {2}
  Calls = {"open", "close", "threads", "deliver", "pads", "cards", "irqs"}
  Shared = TRUE
  MaxCalls = 3
INVARIANTS ThreadTruth VblankOnce
PROPERTIES CardTold

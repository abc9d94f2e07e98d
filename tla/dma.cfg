SPECIFICATION Spec
CONSTANTS
  Chan = {0, 1, 2}
  BlockUnits = 3
  Lens <- SmallLens
  Pcrs <- AllOrNone
  Enables <- ButOut
  Walking = TRUE
  Stops = FALSE
  Freezes = FALSE
  MaxOps = 5
  MaxIrqOps = 1
INVARIANTS StreamTruth NeverStuck InterruptTruth
PROPERTIES EndsWhenOver
CHECK_DEADLOCK FALSE

SPECIFICATION Spec
CONSTANTS
  FrameLen = 2
  Frames = {0, 1}
  Data <- TwoPayloads
  Slots = {1, 2}
  Types <- TwoPads
  Swaps = {1}
  MidPad = FALSE
  Saves = {9}
  None = None
  MaxStarts = 2
  MaxActs = 2
INVARIANTS AnswerTruth Awaited
PROPERTIES CardTruth

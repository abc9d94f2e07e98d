SPECIFICATION FairSpec
CONSTANTS
  v1 = v1
  v2 = v2
  MaxCnt = 2
  CntMod = 4
  StateMod = 2
  Chans = {v1}
  FMods = {}
  Reverbs = {0, 1}
  Calls = {"samples", "dma", "load", "key", "reverb", "config"}
INVARIANTS SlotsSafe DecoderTruth RvbStable ThreadAtRest
PROPERTIES ImplementsFifo CallsReturn

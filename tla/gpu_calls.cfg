SPECIFICATION Spec
CONSTANTS
  t1 = t1
  t2 = t2
  t3 = t3
  BufLen = 7
  PosMod = 14
  MaxPos = 8
  AreaCnt = 2
  EcmdsLen = 2
  Tiles = {t1, t2}
  Lists <- MixedLists
  Screens <- T1T2
  Areas <- T1T2
  Dmas <- OneLine
  Calls = {"list", "vram", "ecmds", "screen", "ilace", "dma"}
  FrameSkip = FALSE
  Spurious = TRUE
INVARIANTS RingSafe DrawsInTheirArea DmaFits

SPECIFICATION FairSpec
CONSTANTS
  t1 = t1
  t2 = t2
  t3 = t3
  BufLen = 6
  PosMod = 12
  MaxPos = 10
  AreaCnt = 2
  EcmdsLen = 2
  Tiles = {t1, t2}
  Lists <- FrameLists
  Screens <- T1T2
  Areas <- T1T2
  Dmas <- OneLine
  Calls = {"list", "vram", "stop", "dma", "scanout", "screen"}
  FrameSkip = TRUE
  Spurious = FALSE
INVARIANTS SyncPost RendererExclusive HandshakeOK
PROPERTIES ImplementsFifo CallsReturn

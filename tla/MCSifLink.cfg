CONSTANTS
  Word <- MCWord
  EeTag <- MCEeTag
  IopTag <- WholeQuadwords
  RamQwords <- MCRamQwords
  OutsideRam <- MCOutside
  TadrWrap = 2
  IopRamWords <- MCIopRamWords
  CountLimit = 65536
  EeMemory <- MCEeMemory
  IopMemory <- MCIopMemory
  Traffic <- MCTraffic
  MaxBacklog = 4
SPECIFICATION Spec
INVARIANT Framed
PROPERTIES Complete Delivered
CHECK_DEADLOCK FALSE

CONSTANTS
  Word <- MCWord
  EeTag <- MCEeTag
  RamQwords <- MCRamQwords
  OutsideRam <- MCOutside
  FifoWords = 6
  TadrWrap = 8
  Memories <- MCMemories
  Programs <- MCPrograms
  VifReads = {1}
  SifWords = 4
  MaxTags = 3
CHECK_DEADLOCK FALSE
SPECIFICATION FairSpec
INVARIANTS TypeOK NoSpuriousInt1 NoStaleEnd
PROPERTIES StreamConserved Completes

CONSTANTS
  Ratio <- MCRatio
  BusCycles = 5
  CountMax = 15
  SliceCycles = 4
  FrameCycles = 12
  VblankOff = 8
  Driven <- MCDriven
  Modes <- MCModes
  Counts <- MCCounts
  Masks <- MCMasks
SPECIFICATION FairSpec
INVARIANTS TypeOK NoSpuriousInt0 FlagsPending
PROPERTIES TimerFires VblankInTurn

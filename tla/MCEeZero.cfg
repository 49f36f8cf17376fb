SPECIFICATION OpsSpec
CONSTANTS
  ByteBits = 2
  VuQwords = 3
  FAdd <- MCFAdd
  FSub <- MCFSub
  FMul <- MCFMul
  OverflowCheck <- MCOverflowCheck
  EeMemory <- MCEeMemory
  InstrPc <- MCInstrPc
  EePrograms <- ZeroPrograms
CHECK_DEADLOCK FALSE
INVARIANT ZeroIsZero

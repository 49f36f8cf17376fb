SPECIFICATION EeSpec
CONSTANTS
  Last <- MCLast
  Images <- AllImages
  Elves <- OneElf
  Common = 4
  Interrupt = 6
  Slice = 3
  Interrupted <- ExceptionImages
  ByteBits = 2
  VuQwords = 3
  FAdd <- MCFAdd
  FSub <- MCFSub
  FMul <- MCFMul
  OverflowCheck <- MCOverflowCheck
  EeMemory <- MCEeMemory
  InstrPc <- MCInstrPc
  EePrograms <- MCEePrograms
\* An instruction that does not decode terminates the emulator.
CHECK_DEADLOCK FALSE
PROPERTIES ImplementsMips EpcKept TicksEnd InterruptsTaken ImplementsR5900

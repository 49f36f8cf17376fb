SPECIFICATION IopSpec
CONSTANTS
  ByteBits = 3
  Registers <- MCRegisters
  Programs <- MCPrograms
  Slice = 3
  TimerLast = 60
  ExceptionAddr <- MCExceptionAddr
  Lines = {0}
  Triggers = 1
  Handler <- MCHandler
  Hidden <- MCHidden
PROPERTIES ImplementsR3000 LinesAnswered TimerInterrupts

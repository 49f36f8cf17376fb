SPECIFICATION Spec
CONSTANTS
  Last <- MCLast
  Images <- ExceptionImages
  Elves <- OneElf
  Common = 4
  Interrupt = 6
  Slice = 3
  Interrupted <- ExceptionImages
CHECK_DEADLOCK FALSE
PROPERTY HandlerFromStart

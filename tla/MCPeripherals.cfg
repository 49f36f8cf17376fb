SPECIFICATION PeripheralsSpec
CONSTANTS
  Sio2Scripts <- MCSio2Scripts
  Slots = 3
  Retries = 2
  CdvdLimit = 4
  SifData <- MCSifData
  SifMailboxes <- MCMailboxes
  Zero = w0
  Word = {w0, w1}
  N = 6
  Ratios <- MCRatios
CHECK_DEADLOCK FALSE
INVARIANTS RepliesOwn AnswersOwn CtrlAgrees TypeOK RearFollowsFront
PROPERTIES Served ImplementsFifo

SPECIFICATION PeripheralsSpec
CONSTANTS
  Sio2Scripts <- MCListedScripts
  Slots = 3
  Retries = 0
  CdvdLimit = 1
  SifData <- MCSifData
  SifMailboxes <- MCMailboxes
  Zero = w0
  Word = {w0, w1}
  N = 6
  Ratios <- MCRatios
CHECK_DEADLOCK FALSE
INVARIANT RepliesListed

CONSTANTS
  Word <- MCWord
  IopTag <- MCIopTag
  IopRamWords = 2
  CountLimit = 4
  Memories <- MCMemories
  Blocks = {2}
  MaxReplies = 8
SPECIFICATION Spec
INVARIANT SystemTypeOK
INVARIANT RepliesExist
INVARIANT CompletionSignalled
PROPERTY TransferEnds
CHECK_DEADLOCK FALSE

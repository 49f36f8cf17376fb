SPECIFICATION PathsSpec
CONSTANTS
  Id = 1
  VifStreams <- MCStreams
  VifWords = 10
  WordCycles = 6
  VuQwords = 4
  NumLimit = 3
  Garbage <- MCGarbage
  VifResets = 1
  GifStreams <- MCGifStreams
  GifQwords = 3
  GifResets = 1
CHECK_DEADLOCK FALSE
INVARIANTS VifAligned VifFaithful GifAligned PrimitivesWhole ImagePlaced DrawnOnce DepthOfTest
PROPERTY PathsDrain

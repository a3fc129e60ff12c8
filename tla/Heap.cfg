SPECIFICATION Spec
CONSTANTS
  Word = 16384
  HalfWord = 128
  Begin = 8192
  End = 12288
  PageSize = 512
  TrimThreshold = 1024
  Sizes = {0, 20, 260, 310, 600, 7600, 9000, 16319}
  Lists <- MCLists
  Products <- MCProducts
  Aligned <- MCAligned
  Values = {0, 2048, 16383}
  Orders <- MCOrders
  MaxCalls = 4
  MaxOther = 3
INVARIANTS
  HeapSound
PROPERTIES
  ImplementsAllocator
  BestFit
  FailsOnlyWhenFull
CHECK_DEADLOCK FALSE

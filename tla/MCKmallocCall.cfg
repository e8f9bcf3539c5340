SPECIFICATION CallSpec
CONSTANTS
  NumBlocks = 7
  Size = 7
  BlockSize = 2
  Sizes = {0, 1, 2, 3, 5}
  Words = {1}
INVARIANTS
  HeapInv
  ScanInv
PROPERTIES
  ImplementsKmalloc
  ImplementsHeap

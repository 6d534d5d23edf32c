\* As MCMemoryAllocator.cfg, with requests that split a segment further down the list.
CONSTANTS
  MEM_BLOCK_SIZE = 8
  SegmentOffset = 1
  HeapStart = 8
  HeapSize = 43
  Requests = {5, 8, 20}
  SplitsBehind = TRUE
  NULL = NULL
SPECIFICATION Spec
INVARIANT FreeListIsFree

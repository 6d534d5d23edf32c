\* Five blocks of 8 words and three words more.  With the header, 5 words take one
\* block, 8 words two (one more than fits) and 20 words three.
CONSTANTS
  MEM_BLOCK_SIZE = 8
  SegmentOffset = 1
  HeapStart = 8
  HeapSize = 43
  Requests = {5, 8, 20}
  SplitsBehind = FALSE
  NULL = NULL
SPECIFICATION Spec
INVARIANTS TypeOK NothingLost Coalesced RefusesOnlyForCause
PROPERTY ImplementsHeap

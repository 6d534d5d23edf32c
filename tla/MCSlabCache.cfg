\* Eight blocks for two caches, whose Cache objects take a block each.
CONSTANTS
  maxPowerSize = 4
  small = small
  large = large
  Caches <- TwoCaches
  SlabSize <- Sizes
  OptimalSlots <- Slots
  MaxObjects = 5
  NULL = NULL
SPECIFICATION LinkSpec
INVARIANTS SlabTypeOK SlabsLinked ObjectsHeld SlabsHaveBlocks BlocksDisjoint HalvesMerged
PROPERTY GrowsOnlyWhenFull ImplementsHeap
\* The kernel stops when a slab cannot be had.
CHECK_DEADLOCK FALSE

\* Up to 8 words for up to 8 workers, the hardware threads of a tile.
CONSTANTS
  MaxThreads = 8
  MaxStack = 8
SPECIFICATION Spec
INVARIANT StacksWithinAllocation
CHECK_DEADLOCK FALSE

SPECIFICATION Spec
CONSTANTS
  SL_INDEX_COUNT_LOG2 = 2
  FL_INDEX_MAX = 8
  SIZE_BITS = 10
  Pools <- MCPools
  MallocSizes = {37, 100}
  ReallocSizes = {0, 24, 60}
  CallocArgs <- MCCallocArgs
  Alignments = {32}
INVARIANTS NoAssertFails HeapWellFormed CallersServed MallocFailsOnlyWhenFull
PROPERTY ImplementsHeap

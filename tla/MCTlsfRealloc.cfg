SPECIFICATION Spec
CONSTANTS
  SL_INDEX_COUNT_LOG2 = 2
  FL_INDEX_MAX = 8
  SIZE_BITS = 10
  Pools <- MCPools
  MallocSizes = {24, 60}
  ReallocSizes = {300}
  CallocArgs = {}
  Alignments = {}
INVARIANTS ReallocFailureKeepsBuffer

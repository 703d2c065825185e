SPECIFICATION Spec
CONSTANTS
  PAGE_SIZE = 4
  HhdmOffset = 100
  MemMap <- MCMemMap
  PageContents <- MCPageContents
INVARIANTS IInv
PROPERTIES PallocFresh ImplementsFrameAllocator

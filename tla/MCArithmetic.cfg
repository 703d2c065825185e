SPECIFICATION Spec
CONSTANTS
  SL_INDEX_COUNT_LOG2 = 5
  FL_INDEX_MAX = 11
  SIZE_BITS = 13
  IntBits = 6
  FractionScale = 10
  DevLimit = 2
  FuncLimit = 2
  BarBits = 8
  TimeModulus = 16
INVARIANTS SearchFits BufferExactlyCovered TextEditedExactly TakesItsWidth
  PictureFits StringsExact ValuesExact
  PrintedExactly PciScansOnce DelaysExact

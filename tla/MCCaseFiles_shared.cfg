SPECIFICATION Spec
CONSTANTS
  NumFiles = 2
  Stems = {"dns", "http"}
  Contents <- MCContents
  Overhead = 2
  ReadOverhead = 1
  SliceBudget = 7
  MinBudget = 4
  MaxPreamble = 1
  MaxRead = 3
INVARIANT
  EveryLineIsScanned
CHECK_DEADLOCK FALSE

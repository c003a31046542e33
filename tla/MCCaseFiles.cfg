SPECIFICATION Spec
CONSTANTS
  NumFiles = 2
  Stems = {"dns", "http"}
  Contents <- MCContents
  Overhead = 2
  ReadOverhead = 1
  SliceBudget = 7
  MinBudget = 4
  MaxPreamble = 1
  MaxRead = 3
INVARIANTS
  TypeOK
  EveryLineInOneSlice
  SlicesFit
  ReadStopsAtALimit
CHECK_DEADLOCK FALSE

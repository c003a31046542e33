SPECIFICATION FairSpec
CONSTANTS
  line_1 = line_1
  line_2 = line_2
  host = host
  Slice <- MCSlice
  Indicators = {host}
  Shows <- MCShows
  Elsewhere = Elsewhere
  Malformed = Malformed
  NoRef = NoRef
  Unparsed = Unparsed
  MaxRefs = 1
  DefaultShown = 1
  MaxAttempts = 2
  Backstop = 2
  Reports <- MCReports
INVARIANTS
  AcceptedIsVouchedFor
  SalvageKeepsTheRest
  PositivesAreTold
PROPERTY
  AlwaysRecorded
CHECK_DEADLOCK FALSE

SPECIFICATION FairSpec
CONSTANTS
  search = search
  close_read = close_read
  NoAction = NoAction
  Actions <- MCActions
  CloseReads <- MCCloseReads
  MaxIterations = 3
  MinSteps = 2
  MaxCrashes = 2
INVARIANTS
  TypeOK
  AssertsHold
  SynthesisRestsOnEvidence
  BudgetAccounting
  RepeatsAnswer
  StopIsExplained
  InterruptedBriefSaysSo
  AbortIsPrompt
PROPERTIES
  OnlyLegalTransitions
  EvidenceKept
  ImplementsContract
  RunEnds
CHECK_DEADLOCK FALSE

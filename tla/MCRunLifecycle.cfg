SPECIFICATION Spec
CONSTANTS
  Endpoints = 2
  MaxCalls = 1
  MaxLives = 2
INVARIANTS
  MetaTellsTheTruth
  OnlyProvenEndpoints
  TranscriptSurvives
CHECK_DEADLOCK FALSE

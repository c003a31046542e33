SPECIFICATION Spec
CONSTANTS
  Replies <- MCReplies
  MaxAttempts = 2
  MinSteps = 1
INVARIANTS
  RunsWhatWasAsked
  ValidatorSpeaksForExecutor
  RefusalsNameTheFix
CHECK_DEADLOCK FALSE

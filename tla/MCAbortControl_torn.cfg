SPECIFICATION Spec
CONSTANTS
  Runs = {r1}
  Clients = {c1}
  MaxLives = 1
INVARIANT
  HardIsNeverReadAsGraceful
CHECK_DEADLOCK FALSE

SPECIFICATION Spec
CONSTANTS
  Runs = {r1, r2}
  Clients = {c1}
  MaxLives = 2
SYMMETRY Symmetric
INVARIANTS
  RunningIsVisible
  RefusesToGuess
CHECK_DEADLOCK FALSE

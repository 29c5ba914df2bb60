\* A transaction may be the last on a line, so every state may be final.
CONSTANTS
  MaxBatches = 4
  Requests = {1, 2, 4}
  MaxRemaining = 2
  Today = 2
SPECIFICATION WalkSpec
INVARIANTS
  NothingGoesAstray
  TakesInOrder
  RestoresInOrder
  NeverRefused
CHECK_DEADLOCK FALSE

SPECIFICATION XSpec
CONSTANTS
  Workers = {w1, w2}
  MaxGC = 1
  MaxRetry = 0
INVARIANT ExitAlone
CHECK_DEADLOCK FALSE

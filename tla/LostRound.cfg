SPECIFICATION Spec
CONSTANTS
  Workers = {w1, w2}
  MaxGC = 1
  MaxRetry = 0
INVARIANT RoundHasOwner

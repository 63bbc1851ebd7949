SPECIFICATION Spec
CONSTANTS
  Workers = {w1, w2}
  Nil = Nil
  Threads = {t1}
  Ctxs = {1, 2}
  Members0 = {w1}
  MaxRanges = 2
  MaxGC = 1
CHECK_DEADLOCK FALSE
INVARIANT StackIsClosed

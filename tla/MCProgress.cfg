SPECIFICATION MCSpec
CONSTANTS
  Workers = {w1, w2}
  MaxGC = 2
  MaxRetry = 0
  Threads = {t1}
  Ctxs = {1, 2, 3}
  MaxRanges = 2
  Nil = Nil
  Sigs = {INT}
  Foreign = {INT}
  Receivers = {w1}
  Mutators = {m1, m2}
  BlockAddrs = {1, 2, 3}
INVARIANT SignalHasHook
PROPERTIES GCWaitEnds StealEnds HookIsCalled DeadIsFinalized
CHECK_DEADLOCK FALSE

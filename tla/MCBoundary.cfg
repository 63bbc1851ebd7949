SPECIFICATION MCSpec
CONSTANTS
  w1 = w1  w2 = w2  Nil = Nil
  Workers = {w1, w2}
  Threads = {t1, t2}
  Ctxs = {1, 2, 3, 4}
  Members0 <- One
  MaxRanges = 2
  MaxGC = 1
  Functions = {"plain", "handler", "foreign"}
  MaxDepth = 6
  MaxExns = 2
  Codes = {f, g}
  Envs = {1, 2, 3}
  PerPage = 2
  MaxExports = 2
SYMMETRY Symmetry
CHECK_DEADLOCK FALSE
INVARIANTS
  UsersListed ClosedStack OneWalker AllSeen
  UnwindingSound CallbacksSound
PROPERTY EnvironmentsSeen

SPECIFICATION ScriptSpec
CONSTANTS
  w1 = w1  w2 = w2  a = a  b = b  c = c
  Workers = {w1, w2}
  Objs = {a, c}
  Global = Global
  Nil = Nil
  Home <- Owner
  Heap0 <- Single
  Members0 <- Both
  Finalize0 = {}
  Program <- NoSwaps
  MaxGC = 1
  MaxOps = 7
CHECK_DEADLOCK FALSE
INVARIANT QuietFinishMeansTraced

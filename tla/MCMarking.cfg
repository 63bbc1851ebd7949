SPECIFICATION MCSpec
CONSTANTS
  w1 = w1  w2 = w2  a = a  b = b  c = c
  Workers = {w1, w2}
  Objs = {a, b, c}
  Global = Global
  Nil = Nil
  Home <- Owner
  Heap0 <- Across
  Members0 <- Both
  Finalize0 <- Last
  Program <- AllOps
  MaxGC = 1
  MaxOps = 3
INVARIANTS MarksSound KeptUnlessMissed TracedAtFinish
PROPERTIES FinalizesDead TracingEnds
CHECK_DEADLOCK FALSE

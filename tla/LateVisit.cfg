SPECIFICATION OneSpec
CONSTANTS
  w1 = w1  w2 = w2  a = a  b = b  c = c
  Workers = {w1, w2}
  Objs = {a, c}
  Global = Global
  Nil = Nil
  Home <- Owner
  Heap0 <- Across
  Members0 <- Both
  Finalize0 = {}
  Program = {"write"}
  MaxGC = 1
  MaxOps = 1
CHECK_DEADLOCK FALSE
INVARIANT CleanInAsync

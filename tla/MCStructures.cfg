SPECIFICATION MCSpec
CONSTANTS
  w1 = w1  w2 = w2
  Workers = {w1, w2}
  Members0 <- Both
  Count = 2
  Pool0 = 1
  MaxRoom = 1
  MaxGC = 2
  SegmentSize = 32768
  SegmentHeader = 32
  WordBits = 32
  WordBytes = 4
  PtrBytes = 8
  BlockMinLog2 = 3
  BlockMaxLog2 = 12
  ObjHeader = 4
  MaxAlign = 16
  MaxSize = 4104
CHECK_DEADLOCK FALSE
INVARIANTS
  SegmentsReady OneOwner YoungKept ExhaustedMeansPool NoABA
  TreeSound RootsFound FramesWalked ObjectsSound VisitsReachable SizesSound
PROPERTY IsTreeSet

SPECIFICATION MCSpec
CONSTANTS
  Workers = {w1, w2, w3}
  MaxGC = 1
  MaxRetry = 0
  MaxMoves = 2
SYMMETRY Symmetry
INVARIANTS IInv OneCoordinator StoresLoseNothing HelpNotLost
PROPERTY RoundsComplete

SPECIFICATION Spec
CONSTANTS
  kBlockSize = 16
  kAlign = 4
  kPointer = 4
  Sizes = {1, 3, 4, 5, 17}
  MaxPieces = 6
INVARIANTS
  PiecesDisjoint
  AlignedPieces
  UsageExact
PROPERTIES
  LittleWaste
CHECK_DEADLOCK FALSE

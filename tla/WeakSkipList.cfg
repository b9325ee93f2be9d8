SPECIFICATION Spec
CONSTANTS
  Keys = {1, 2}
  Readers = {r1, r2}
  head = h
  NULL = null
  Uninit = uninit
  kMaxHeight = 3
  Height = 3
SYMMETRY ReaderSymmetry
INVARIANTS
  ReadsInitialized
  FoundStaysFound
PROPERTY ImplementsLaggingSet

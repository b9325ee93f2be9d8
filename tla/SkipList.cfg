SPECIFICATION FairSpec
CONSTANTS
  Keys = {1, 2, 3}
  Readers = {r1, r2}
  Writer = w
  head = head
  NULL = null
  Uninit = uninit
  kMaxHeight = 4
  Height = 3
INVARIANTS
  NoUninitializedLoad
  LevelsOrdered
  LevelsNested
PROPERTIES
  NeverUnlinked
  ImplementsKeySet
  CallsReturn

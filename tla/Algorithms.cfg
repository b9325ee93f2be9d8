SPECIFICATION InputSpec
CONSTANTS
  Base = 4
  Radix = 8
  TagBytes = 2
  MaxUserKey = 2
  MaxBlock = 6
  Groups = 2
  Groups64 = 3
  Modulus = 8
  Modulus64 = 32
  WordBytes = 2
  M = 127
  A = 3
  UserKeys <- SmallKeys
  TaggedKeys <- SmallInternalKeys
  Contents <- SmallContents
  Seeds <- AllSeeds
  MaxLogs <- SmallLogs
  Functions <- FewFunctions
  Registrations <- InOrder
INVARIANTS
  ShortKeysSeparate
  InternalKeysOrdered
  EntriesDecode
  RestartsDecoded
  RandomIsModular
  CleanupsRunOnce
CHECK_DEADLOCK FALSE

SPECIFICATION SpecR
CONSTANTS
  Writers = {w1, w2}
  Readers = {r1}
  Names = {manifest, table}
  Manifests = {manifest}
  Inodes = {i1}
  None = none
  MaxRecords = 3
  MaxGen = 1
  StringLength = 3
  Fragment = 2
SYMMETRY NameSymmetry
INVARIANTS
  AllOrNothing
  SyncedStringSurvives
  ReadsBack

SPECIFICATION Spec
CONSTANTS
  Writers = {w1}
  Names = {manifest, t1}
  Manifests = {manifest}
  Inodes = {i1, i2}
  None = none
  MaxRecords = 1
  MaxGen = 1
SYMMETRY WriterSymmetry
INVARIANTS
  FlushedInKernel
  SyncedOnDisk
  ManifestKeepsFiles

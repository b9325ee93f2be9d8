SPECIFICATION FairSpec
CONSTANTS
  Base = 3
  Letters <- Byte
  Keys <- AllTargets
  Targets <- AllTargets
  Less <- Bytewise
  Blocks <- AllBlocks
  MaxEntries = 4
INVARIANTS
  FindsFirst
  ShortScan
PROPERTIES
  SeekReturns

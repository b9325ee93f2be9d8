SPECIFICATION FairSpec
CONSTANTS
  Items = {i1, i2, i3}
  Callers = {c1, c2}
  Workers = {w1, w2}
  None = none
INVARIANTS
  NoLostWakeup
PROPERTIES
  ImplementsExecutor
  EveryItemRuns

SPECIFICATION FairSpec
CONSTANTS
  f1 = f1
  f2 = f2
  Clients = {c1, c2, c3}
  Files = {f1, f2}
  Size <- Lengths
  Limit = 1
  None = none
INVARIANTS
  PermitsConserved
  NothingLeaks
PROPERTIES
  ImplementsPermits
  CallsReturn

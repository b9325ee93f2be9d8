SPECIFICATION Spec
CONSTANTS
  f1 = f1
  f2 = f2
  Clients = {c1, c2}
  Files = {f1, f2}
  Size <- Lengths
  Limit = 1
  None = none
INVARIANTS
  MappingFits

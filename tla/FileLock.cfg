SPECIFICATION Spec
CONSTANTS
  p1 = p1
  p2 = p2
  p3 = p3
  c1 = c1
  c2 = c2
  c3 = c3
  c4 = c4
  None = none
  Processes = {p1, p2, p3}
  Clients = {c1, c2, c3, c4}
  ProcessOf <- Mixed
INVARIANTS
  OneHolder
  HolderIsBacked
  OneHolderPerProcess
  TableExact
  NothingLeftBehind

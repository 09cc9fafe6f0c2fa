CONSTANTS
  a1 = a1
  a2 = a2
  f1 = f1
  f2 = f2
  c1 = c1
  c2 = c2
  w1 = w1
  None = None
  Artifacts = {a1, a2}
  Finalizers = {f1, f2}
  Target <- MCTarget
  Endpoint = {a1, a2}
  Matching = {a2}
  HuntLimit = 1
  Clients = {c1}
  Workers = {w1}
  MaxCalls = 3
  MaxAborts = 0
SPECIFICATION Spec
INVARIANTS
  ReuseCovers
CHECK_DEADLOCK FALSE

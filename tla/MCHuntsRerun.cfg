CONSTANTS
  a1 = a1
  a2 = a2
  f1 = f1
  f2 = f2
  c1 = c1
  c2 = c2
  w1 = w1
  None = None
  Artifacts = {a1}
  Finalizers = {}
  Target <- NoFinalizers
  Endpoint = {a1}
  Matching = {a1}
  HuntLimit = 1
  Clients = {c1, c2}
  Workers = {w1}
  MaxCalls = 3
  MaxAborts = 0
SPECIFICATION Spec
INVARIANTS
  NoLostHuntAtAll
CHECK_DEADLOCK FALSE

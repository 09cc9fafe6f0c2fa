CONSTANTS
  p1 = p1
  p2 = p2
  h1 = h1
  h2 = h2
  t1 = t1
  None = None
  Paths = {p1, p2}
  priority <- MCPriority
  Hashes = {h1}
  Tasks = {t1}
  MaxAttempts = 1
  SpoolCap = 2
  MaxRows = 2
  MaxFiles = 2
  MaxSequence = 4
  MaxDamage = 0
  MaxCrashes = 0
SPECIFICATION Spec
INVARIANT NeverLeasedTwice
CHECK_DEADLOCK FALSE

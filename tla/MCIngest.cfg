CONSTANTS
  t1 = t1
  t2 = t2
  u1 = u1
  u2 = u2
  r1 = r1
  r2 = r2
  b1 = b1
  b2 = b2
  h1 = h1
  h2 = h2
  o1 = o1
  None = None
  Tenants = {t1, t2}
  Uploads = {u1, u2}
  Requests = {r1, r2}
  Bytes = {b1, b2}
  Hashes = {h1, h2}
  Sizes = {1, 2}
  OccKeys = {o1}
  sha256 <- MCsha256
  len <- MClen
  Announces <- MCAnnounces
  Finalizes <- MCFinalizes
SPECIFICATION Spec
INVARIANTS
  TypeOK
  StoredArtifacts
  EvidenceBacked
  TenantIsolation
  DisciplinedIntegrity
  CommittedSwept
PROPERTIES
  TerminalSessions
  ImplementsContentStore
SYMMETRY Symmetry

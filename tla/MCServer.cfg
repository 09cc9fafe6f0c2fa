CONSTANTS
  Parts = {"variants", "enrollment", "access", "opinions", "alerts", "merlin", "detonation", "scanner", "neighborhood", "bootstrap"}
  None = None
  Artifacts = {1, 2, 3, 4}
  seq <- MCSeq
  Related <- MCRelated
  Banded <- MCBanded
  StrongPairs <- MCStrong
  CANDIDATE_CAP = 1
  FUNC_CANDIDATE_CAP = 2
  Groups = {1, 2}
  Procs = {p1, p2}
  MaxCalls = 2
  MaxDrops = 1
  Device = {p1, p2}
  EnrollToken = {k1, k2}
  EnrollTenant = {t1, t2}
  MaxAgents = 2
  MaxCa = 2
  MaxEnrollFaults = 2
  Tenants = {"t1", "t2"}
  DefaultTenant = "t1"
  AgentTenant <- MCAgentTenant
  MaxOpinions = 3
  Trigger = {g1}
  Server = {p1, p2}
  MaxAttempts = 2
  SweepLimit = 1
  MaxAlertFaults = 1
  Bridge = {p1, p2}
  Batch <- MCBatch
  MaxEvents = 2
  MaxSends = 4
  Submission = {"c1", "c2"}
  ArtifactOf <- MCArtifactOf
  Report <- MCReport
  MaxPolls = 2
  FindingLimit = 1
  SimilarityGraphs <- MCGraphs
  NewEdges <- MCNewEdges
  WeakTypes = {2}
  MAX_DEPTH = 3
  MAX_NODES = 4
  MAX_EDGES = 5
  MAX_RESPONSE = 7
  Requested <- MCRequested
  UsizeMax = 7
  MaxChanges = 2
  ImportPath = {1, 2, 3}
  BytesOf <- MCBytesOf
  CodePath = {1, 3}
  LargePath = {3}
  Layer = {"l1", "l2"}
  LayerOf <- MCLayerOf
  Image <- MCImage
  Feed <- MCFeed
  TaxiiBundle <- MCTaxiiBundle
  MaxImports = 1
  MaxImportFaults = 1
SPECIFICATION ServerSpec
INVARIANTS
  GroupsJustified
  GroupsComplete
  NoHollowGroups
  PairsLinked
  TokenAdmitsOne
  IdentityUsable
  CallsEntitled
  LatestOpinionCurrent
  GivenUpHonestly
  SegmentsHonest
  DetonationAccounted
  ScansFailClosed
  NeighborhoodExact
  PagesSliced
  ImportAccounted
  HashIntelComplete
SYMMETRY Symmetry
CHECK_DEADLOCK FALSE

SPECIFICATION Spec
CONSTANTS
  n1 = n1
  n2 = n2
  n3 = n3
  n4 = n4
  c1 = c1
  c2 = c2
  None = None
  Nodes = {n1, n2, n3}
  InitialVoters = {n1, n2, n3}
  Clients = {c1}
  SnapshotThreshold = 1
  MaxRequests = 2
  MaxChangeIndex = 3
  MaxReads = 0
  MaxCrashes = 1
  MaxDelay = 0
  BeatingTerms = {}
  MayCampaign <- Contested
  Links <- ContestedLinks
  Reads = {}
  Proposals <- Shrinking
INVARIANTS ConfigDerived ElectionSafety LogMatching TimerMatchesRole
PROPERTIES CommitQuorum
CHECK_DEADLOCK FALSE

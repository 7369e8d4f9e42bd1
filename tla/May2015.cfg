SPECIFICATION Spec
CONSTANTS
  n1 = n1
  n2 = n2
  n3 = n3
  n4 = n4
  c1 = c1
  c2 = c2
  None = None
  Nodes = {n1, n2, n3, n4}
  InitialVoters = {n1, n2, n3, n4}
  Clients = {c1}
  SnapshotThreshold = 1
  MaxRequests = 1
  MaxChangeIndex = 2
  MaxReads = 0
  MaxCrashes = 0
  MaxDelay = 0
  BeatingTerms = {}
  MayCampaign <- May2015
  Links <- May2015Links
  Reads = {}
  Proposals <- Removals
INVARIANTS LeaderCompleteness
CHECK_DEADLOCK FALSE

SPECIFICATION FairSpec
CONSTANTS
  n1 = n1
  n2 = n2
  n3 = n3
  c1 = c1
  None = None
  Nodes = {n1, n2}
  InitialVoters = {n1, n2}
  Clients = {c1}
  SnapshotThreshold = 0
  MaxRequests = 1
  MaxChangeIndex = 0
  MaxReads = 0
  MaxCrashes = 0
  MaxDelay = 1
  BeatingTerms = {1, 2}
  MayCampaign <- Handover
  Links <- Connected
  Reads = {}
  Proposals = {}
  MaxIndex = 1
PROPERTIES RequestsCommit
CHECK_DEADLOCK FALSE

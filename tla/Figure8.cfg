SPECIFICATION Spec
CONSTANTS
  n1 = n1
  n2 = n2
  n3 = n3
  n4 = n4
  c1 = c1
  c2 = c2
  None = None
  Nodes = {n1, n2, n3}
  InitialVoters = {n1, n2, n3}
  Clients = {c1}
  SnapshotThreshold = 0
  MaxRequests = 2
  MaxChangeIndex = 2
  MaxReads = 0
  MaxCrashes = 0
  MaxDelay = 1
  BeatingTerms = {}
  MayCampaign <- Figure8
  Links <- Figure8Links
  Reads = {}
  Proposals = {}
INVARIANTS TypeOK LeaderCompleteness CommittedDurable TruncatesNoCommit SessionsInOrder AppliedOnce
PROPERTIES AppliesOneLog
CHECK_DEADLOCK FALSE

SPECIFICATION Spec
CONSTANTS
  n1 = n1
  n2 = n2
  n3 = n3
  n4 = n4
  c1 = c1
  c2 = c2
  None = None
  Nodes = {n1, n2, n3}
  InitialVoters = {n1, n2, n3}
  Clients = {c1, c2}
  SnapshotThreshold = 1
  MaxRequests = 2
  MaxChangeIndex = 2
  MaxReads = 1
  MaxCrashes = 1
  MaxDelay = 2
  BeatingTerms = {1}
  MayCampaign <- Handover
  Links <- Lagging
  Reads <- SecondClientReads
  Proposals = {}
INVARIANTS TermsOrdered StateMachineSafety
PROPERTIES ReadsFresh CommitIndexMonotonic AppliesOneLog
CHECK_DEADLOCK FALSE

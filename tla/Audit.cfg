SPECIFICATION Spec
CONSTANTS
  k = k
  v = v
  w = w
  Keys = {k}
  Values = {v, w}
  Absent = Absent
  c1 = c1
  c2 = c2
  n1 = n1
  n2 = n2
  Clients = {c1, c2}
  Nodes = {n1, n2}
  SnapshotThreshold = 2
  Modes = {"log", "readindex", "stale"}
  Workload <- OneKey
  MaxInvocations = 3
  MaxLog = 3
  MaxReads = 1
  MaxCrashes = 1
  Budget = 4
INVARIANTS TypeOK ExactlyOnce CorrectRunsPass VerdictExact WitnessLegal
SYMMETRY Symmetry
CHECK_DEADLOCK FALSE

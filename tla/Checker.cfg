SPECIFICATION Spec
CONSTANTS
  a = a
  b = b
  N = 2
  MaxTerm = 2
  Entries <- TwoTerms
  MaxLog = 2
  MaxVersions = 3
  MaxRestarts = 1
INVARIANTS AlarmTrue NothingMissed RecordTrue
CHECK_DEADLOCK FALSE

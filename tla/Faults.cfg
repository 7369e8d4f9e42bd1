SPECIFICATION Spec
CONSTANTS
  N = 3
  Profiles = {"none", "light", "chaos"}
  Schedules <- Overlapping
  Masks = {{}, {0}, {1}}
  Interval = 2
  ResumeDelays = {1, 3}
  Delays = {0, 2}
  MaxCycles = 2
  MaxTime = 6
  MaxSends = 1
INVARIANTS TypeOK HeapInOrder RecoveryPending MajorityAlive MessagesCounted
PROPERTY CalmInTheEnd
CHECK_DEADLOCK FALSE

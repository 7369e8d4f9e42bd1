SPECIFICATION Spec
CONSTANTS
  N = 3
  Profiles = {"none"}
  Schedules <- Overlapping
  Masks = {{}}
  Interval = 2
  ResumeDelays = {1, 3}
  Delays = {0, 2}
  MaxCycles = 2
  MaxTime = 6
  MaxSends = 1
INVARIANT WindowsHeld
CHECK_DEADLOCK FALSE

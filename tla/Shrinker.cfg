SPECIFICATION FairSpec
CONSTANTS
  Steps = 3
  MaxFaults = 4
INVARIANTS StillReproduces KeptOneMinimal
PROPERTIES Terminates
CHECK_DEADLOCK FALSE

SPECIFICATION Spec
CONSTANTS
  Steps = 2
  MaxFaults = 3
INVARIANTS OneMinimal
CHECK_DEADLOCK FALSE

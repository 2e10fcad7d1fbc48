SPECIFICATION RunnerSpec
CONSTANTS
  BackoffInitial = 2
  BackoffMax = 60
  MaxAbandoned = 2
INVARIANTS
  LeaksPaced
PROPERTIES
  StopHonoured

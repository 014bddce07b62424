SPECIFICATION Spec
CONSTANTS
  a = a  b = b
  Procs = {a, b}
  Ids = {1, 2, 3, 4, 5}
  NoId = 0
  StaleTimeout = 6
  RefreshInterval = 2
  RefreshTimeout = 3
  MaxTries = 2
  MaxFaults = 1
  SleepAt = {"select", "exists1"}
  TickAtDeadline = FALSE
SYMMETRY Symmetry
INVARIANTS TypeOK WorkerHoldsFreshLock
PROPERTIES ImplementsRepositoryLock ForcedRefreshIsHonest

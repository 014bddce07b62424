SPECIFICATION Spec
CONSTANTS
  u1 = u1  u2 = u2  c1 = c1  c2 = c2
  Setups <- ResticRestore
  Unlocks = {u1, u2}
  NoUnlock = NoUnlock
  Confs = {c1, c2}
  NoConf = NoConf
  NoJob = NoJob
  Limit = 1
  PruneInterval = 1
  MaxTime = 1
  MaxEdits = 1
  MaxFaults = 0
  HastyUser = TRUE
  CacheMissesCleanup = FALSE
  OrphansLinger = FALSE
INVARIANTS ImageConsistent

SPECIFICATION Spec
CONSTANTS
  u1 = u1  u2 = u2  c1 = c1  c2 = c2
  Setups <- KopiaRestore
  Unlocks = {u1, u2}
  NoUnlock = NoUnlock
  Confs = {c1}
  NoConf = NoConf
  NoJob = NoJob
  Limit = 1
  PruneInterval = 1
  MaxTime = 3
  MaxEdits = 2
  MaxFaults = 2
  HastyUser = FALSE
  CacheMissesCleanup = FALSE
  OrphansLinger = FALSE
INVARIANTS ImageConsistent

SPECIFICATION Spec
CONSTANTS
  s1 = s1
  s2 = s2
  s3 = s3
  p1 = p1
  p2 = p2
  NoSnap = NoSnap
  RD = RD
  Snaps <- TwoSnaps
  PVCs <- OnePVC
  MaxKeeps = 0
  MaxFaults = 0
INVARIANTS
  CleanupLeavesNothing

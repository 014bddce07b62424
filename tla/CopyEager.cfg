SPECIFICATION Spec
CONSTANTS
  t1 = t1
  t2 = t2
  NoTag = NoTag
  Tags <- TwoTags
  UserSetsAt <- Ahead
  Timeout = 1
  MaxTime = 1
  MaxSyncs = 2
  MaxFaults = 0
INVARIANTS
  TriggerServed

SPECIFICATION FairSpec
CONSTANTS
  t1 = t1
  t2 = t2
  NoTag = NoTag
  Tags <- TwoTags
  UserSetsAt <- WhenAsked
  Timeout = 1
  MaxTime = 4
  MaxSyncs = 3
  MaxFaults = 2
INVARIANTS
  TypeOK
  TriggerServed
  TimeoutIsDue
PROPERTIES
  CopyNeedsNewTrigger
  TriggerAnswered

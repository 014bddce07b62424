SPECIFICATION FairSpec
CONSTANTS
  t1 = t1
  t2 = t2
  a = a
  b = b
  NoTag = NoTag
  NoCronJob = NoCronJob
  Tags <- TwoTags
  Shapes <- TwoShapes
  maxConsecutiveFailures = 1
  HistoryLimit = 1
  Editable <- Everything
  MaxEvents = 2
INVARIANTS
  TypeOK
  OneMaintenance
PROPERTIES
  RunningJobKept
  TriggerProcessed
  CronJobFollowsSpec
  DeletionCompletes
CHECK_DEADLOCK FALSE

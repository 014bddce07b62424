SPECIFICATION Spec
CONSTANTS
  t1 = t1
  t2 = t2
  a = a
  b = b
  NoTag = NoTag
  NoCronJob = NoCronJob
  Tags <- TwoTags
  Shapes <- OneShape
  maxConsecutiveFailures = 1
  HistoryLimit = 1
  Editable <- Triggers
  MaxEvents = 3
PROPERTIES
  ResetClearsFailures
CHECK_DEADLOCK FALSE

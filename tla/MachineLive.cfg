SPECIFICATION FairSpec
CONSTANTS
  t1 = t1
  t2 = t2
  NoTag = NoTag
  Tags <- TwoTags
  Crons <- OneCron
  InitialTriggers <- StartAny
  DisciplinedUser = TRUE
  MaxTime = 3
  MaxEdits = 2
  MaxFaults = 1
INVARIANTS
  ManualSyncIsFresh
PROPERTIES
  OneCreditPerJob
  ManualTriggerCompletes
  ScheduledSyncStarts

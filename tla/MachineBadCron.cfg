SPECIFICATION Spec
CONSTANTS
  t1 = t1
  t2 = t2
  NoTag = NoTag
  Tags <- OneTag
  Crons <- AllCrons
  InitialTriggers <- StartAny
  DisciplinedUser = FALSE
  MaxTime = 3
  MaxEdits = 2
  MaxFaults = 1
PROPERTIES
  OneCreditPerJob

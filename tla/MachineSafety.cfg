SPECIFICATION Spec
CONSTANTS
  t1 = t1
  t2 = t2
  NoTag = NoTag
  Tags <- OneTag
  Crons <- AllCrons
  InitialTriggers <- StartAny
  DisciplinedUser = FALSE
  MaxTime = 4
  MaxEdits = 1
  MaxFaults = 2
INVARIANTS
  TypeOK
  PhaseInv
PROPERTIES
  ImplementsSyncCycle
  NoEarlyScheduledStart

CONSTANTS
  ModelNames <- AllNames
  Callers = {c1}
  Pids = {p1}
  Requests <- AllJobs
  RamLimits = {0, 10}
  VramLimits = {0, 10}
  HwRam = 12
  HwVram = 0
  MaxModels = 2
  MaxQueue = 2
  MaxTime = 1
  MaxRefs = 1
  Empty = Empty
SPECIFICATION MCSpec
INVARIANTS TypeOK OneRecordPerModel LowerNicenessIsNoWorse EvictionMatchesLoop
PROPERTIES InUseSurvivesAdmission EvictsOldestFirst
  RefusalIsQueued ImplementsCache

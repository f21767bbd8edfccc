CONSTANTS
  ModelNames = {m1, m2}
  Callers = {c1, c2}
  Pids = {p1, p2}
  Requests <- Jobs
  RamLimits = {0}
  VramLimits = {0}
  HwRam = 10
  HwVram = 0
  MaxModels = 1
  MaxQueue = 1
  MaxTime = 0
  MaxRefs = 0
  MaxExits = 1
  MaxKills = 1
  MaxEvicts = 1
  MaxHangs = 1
  MaxReinits = 1
  ModelRam = 5
  MaxEvents = 3
  Empty = Empty
  NoReq = NoReq
  NoPid = NoPid
SPECIFICATION BoundedFairSpec
INVARIANTS NoOrphanBackend
PROPERTIES CallsReturn

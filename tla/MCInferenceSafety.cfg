CONSTANTS
  ModelNames = {m1, m2, m3}
  Callers = {c1, c2}
  Pids = {p1, p2, p3}
  Requests <- Jobs
  RamLimits = {12}
  VramLimits = {0}
  HwRam = 10
  HwVram = 0
  MaxModels = 3
  MaxQueue = 1
  MaxTime = 0
  MaxRefs = 0
  MaxExits = 1
  MaxKills = 1
  MaxEvicts = 1
  MaxHangs = 0
  MaxReinits = 1
  ModelRam = 10
  MaxEvents = 4
  Empty = Empty
  NoReq = NoReq
  NoPid = NoPid
SPECIFICATION BoundedSpec
INVARIANTS ITypeOK RefcountsBacked BackendServesItsModel 
  CommittedWithinLimit
SYMMETRY Symmetry
VIEW WithoutQueue

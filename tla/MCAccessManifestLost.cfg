CONSTANTS
  t1 = t1
  t2 = t2
  t3 = t3
  p1 = p1
  p2 = p2
  NoInode = NoInode
  NoRequest = NoRequest
  Truncated = Truncated
  Kinds <- MCKinds
  Subjects <- MCSubjects
  Methods <- MCMethods
  Paths <- MCPaths
  Covers <- MCCovers
  Threads = {t1, t2}
  Processes = {p1, p2}
  ProcessOf <- OwnProcesses
  Rules <- MCRules
  Asked <- MCAsked
  Choices = {"always"}
  MaxPolicies = 2
  MaxPending = 1
  JsonCapacity = 3
  Inodes = {1, 2, 3, 4, 5, 6}
SPECIFICATION AllWork
CHECK_DEADLOCK FALSE
INVARIANTS SavedDecisionApplies

CONSTANTS
  t1 = t1
  t2 = t2
  t3 = t3
  p1 = p1
  p2 = p2
  NoInode = NoInode
  NoRequest = NoRequest
  Truncated = Truncated
  Kinds <- MCKinds
  Subjects <- MCSubjects
  Methods <- MCMethods
  Paths <- MCPaths
  Covers <- MCCovers
  Threads = {t1, t2, t3}
  Processes = {p1, p2}
  ProcessOf <- TwoProcesses
  Rules <- MCRules
  Asked <- MCAsked
  Choices = {"always", "never", "ask"}
  MaxPolicies = 2
  MaxPending = 2
  JsonCapacity = 3
  Inodes = {1, 2, 3, 4, 5, 6, 7}
SPECIFICATION MCSpec
VIEW Visible
CHECK_DEADLOCK FALSE
INVARIANTS MTypeOK PendingIsUndecided FindPolicyMatchesLoop NeverTorn DecisionsApply

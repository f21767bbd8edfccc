CONSTANTS
  c1 = c1
  c2 = c2
  h1 = h1
  h2 = h2
  cli = cli
  editor = editor
  p1 = p1
  p2 = p2
  p3 = p3
  p4 = p4
  NoInode = NoInode
  NoRequest = NoRequest
  Truncated = Truncated
  Kinds <- MCKinds
  Subjects <- MCSubjects
  Methods <- MCMethods
  Paths <- MCPaths
  Covers <- MCCovers
  Clients = {c1, c2}
  Prompting = FALSE
  HandlerOf <- OwnHandlers
  Processes = {p1, p2, p3, p4}
  ProcessOf <- ForkedProcesses
  Threads = {h1, h2, cli, editor}
  Cli = cli
  Editors = {editor}
  Rules <- MCRules
  Asked <- MCOneAsked
  Choices = {"always"}
  MaxPolicies = 2
  MaxPending = 1
  JsonCapacity = 3
  Inodes = {1, 2, 3, 4, 5, 6, 7, 8, 9, 10}
SPECIFICATION FairProxySpec
CHECK_DEADLOCK FALSE
PROPERTIES RequestsAnswered

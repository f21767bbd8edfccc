CONSTANTS
  c1 = c1
  c2 = c2
  h1 = h1
  h2 = h2
  cli = cli
  editor = editor
  p1 = p1
  p2 = p2
  p3 = p3
  p4 = p4
  NoInode = NoInode
  NoRequest = NoRequest
  Truncated = Truncated
  Kinds <- MCKinds
  Subjects <- MCSubjects
  Methods <- MCMethods
  Paths <- MCPaths
  Covers <- MCCovers
  Clients = {c1, c2}
  Prompting = TRUE
  HandlerOf <- OneHandler
  Processes = {p1, p2, p3}
  ProcessOf <- PromptingProcesses
  Threads = {h1, cli, editor}
  Cli = cli
  Editors = {editor}
  Rules <- MCRules
  Asked <- MCAsked
  Choices = {"always", "never"}
  MaxPolicies = 2
  MaxPending = 1
  JsonCapacity = 3
  Inodes = {1, 2, 3, 4, 5, 6, 7, 8}
SPECIFICATION PSpec
CHECK_DEADLOCK FALSE
INVARIANTS ForwardedByConsent

CONSTANTS
  Configs <- AllConfigs
  MaxKills = 2
SPECIFICATION FairSandboxSpec
CHECK_DEADLOCK FALSE
INVARIANTS AgentConfined CleanReturn ProxyBeforeAgent
PROPERTIES SetupEnds NothingStays

CONSTANTS
  Blank = Blank
  Failed = Failed
  UnnamedTool = UnnamedTool
  Printed = Printed
  Items <- MCItems
  MaxItems = 4
  Registries <- MCRegistries
  Machines <- MCMachines
  Limits <- MCLimits
  Hosts <- MCHosts
  Names <- MCNames
  Roots <- MCRoots
  Workdirs <- MCWorkdirs
  Binaries <- MCBinaries
  LlamaBackends <- MCLlamaBackends
  AnyValue = AnyValue
  NoModel = NoModel
  ProtectedRoots <- MCProtectedRoots
  SystemPrefixes <- MCSystemPrefixes
  NoPath = NoPath
  Cwd <- MCCwd
  Staging <- MCStaging
  PyNames <- MCPyNames
  Agent = "agt-1"
SPECIFICATION AlgorithmsSpec
CHECK_DEADLOCK FALSE
INVARIANTS ConversationKept SessionModelStarts OfferedModelStarts InstallFitsMachine LaunchIsWhatWasAsked

CONSTANTS
  c1 = c1
  c2 = c2
  LlamaBackends <- MCLlamaBackends
  AnyValue = AnyValue
  NoModel = NoModel
  Packaged <- MCPackaged
  UserFile <- MCUserFile
  Machine <- MCMachine
  Choosers = {k1, k2}
  MaxChoices = 2
  MaxKills = 1
  Corrupt = Corrupt
  Callers = {c1, c2}
  DefaultSpecialty <- MCDefaultSpecialty
  Servers = {d1}
  MaxDeaths = 1
  Asked = {"default-instruct", "openai/doc-ocr", "gpt"}
  Unprefixed <- MCUnprefixed
  Others = {p1}
  NoDaemon = NoDaemon
SPECIFICATION MCSpec
CHECK_DEADLOCK FALSE
INVARIANTS ServedAsAsked WithinConfiguredLimit ChoicesKept
PROPERTIES EndpointComesUp ClientReturns

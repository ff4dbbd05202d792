CONSTANTS
  Providers = {"openrouter", "opencode_zen"}
  Catalog <- MCCatalog
  DefaultProvider = "openrouter"
  DefaultModel <- MCDefaultModel
  Tokens = {"token"}
  EnvTokens = {}
  None = None
  Torn = Torn
  Any = Any
  ConfigInodes = {1, 2, 3, 4}
  LogInodes = {1, 2, 3, 4}
  LogLimit = 2
  EntrySizes = {1}
  Changes <- MCChanges
  FoundLogs <- MCFoundLogs
  FoundConfigs <- MCFoundConfigs
  Edits <- MCEdits
  MaxOperations = 3
  MaxStops = 1
SPECIFICATION Spec
INVARIANT TypeOK
INVARIANT PromisesKept
INVARIANT ClearedIsGone
PROPERTY FilesAreRegisters
PROPERTY StaysStartable
PROPERTY LogsStayBounded
CHECK_DEADLOCK FALSE

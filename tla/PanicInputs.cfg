CONSTANTS
  plain = plain
  guarded = guarded
  read = read
  write = write
  Configs <- MCConfigs
  Tools <- MCTools
  ToolsOf <- MCToolsOf
  HasPolicy <- MCHasPolicy
  Options <- NoDeadline
  InitialConfig = plain
  Updaters = {}
  Waiters = {}
  MaxRevision = 1
  MaxInteractions = 4
  MaxRequests = 2
  MaxInputs = 1
  MaxCalls = 1
  HostPanics = TRUE
  TaskAborts = FALSE
SPECIFICATION Spec
INVARIANTS
  InputsSurviveEveryEnding

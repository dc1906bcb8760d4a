CONSTANTS
  plain = plain
  guarded = guarded
  read = read
  write = write
  Configs <- MCConfigs
  Tools <- MCTools
  ToolsOf <- MCToolsOf
  HasPolicy <- MCHasPolicy
  Options <- EveryEnding
  InitialConfig = guarded
  Updaters = {}
  Waiters = {w1}
  MaxRevision = 1
  MaxInteractions = 2
  MaxRequests = 2
  MaxInputs = 0
  MaxCalls = 1
  HostPanics = TRUE
  TaskAborts = TRUE
SPECIFICATION FairSpec
INVARIANTS
  DeadlineOutcomeIsConfigured
  ObservationOrder
  ReportHonoursCancel
PROPERTIES
  ReportIsFinal
  CancelEndsLoop
  DeadlineEndsLoop
  WaitersReturn

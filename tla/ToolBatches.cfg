CONSTANTS
  plain = plain
  guarded = guarded
  read = read
  write = write
  Configs <- MCConfigs
  Tools <- MCTools
  ToolsOf <- MCToolsOf
  HasPolicy <- MCHasPolicy
  Options <- OneToolRound
  InitialConfig = guarded
  Updaters = {}
  Waiters = {}
  MaxRevision = 1
  MaxInteractions = 4
  MaxRequests = 3
  MaxInputs = 1
  MaxCalls = 2
  HostPanics = FALSE
  TaskAborts = FALSE
SPECIFICATION Spec
INVARIANTS
  HistoryBalanced
  ToolRoundsBounded
  InteractionNeverLost
  OpenSlotIsShown
  AnswerReachesOwnSlot

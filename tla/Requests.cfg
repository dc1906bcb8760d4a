CONSTANTS
  plain = plain
  guarded = guarded
  read = read
  write = write
  Configs <- MCConfigs
  Tools <- MCTools
  ToolsOf <- MCToolsOf
  HasPolicy <- MCHasPolicy
  Options <- NoDeadline
  InitialConfig = plain
  Updaters = {u1}
  Waiters = {}
  MaxRevision = 2
  MaxInteractions = 1
  MaxRequests = 2
  MaxInputs = 2
  MaxCalls = 1
  HostPanics = FALSE
  TaskAborts = FALSE
SPECIFICATION BoundariesSpec
INVARIANTS
  TypeOK
  NoStaleRequest
  IssuedRequestsAccounted
  InputsReported
  BatchPinnedToRequest
  VerdictMatchesWinner
  SealedStaysClosed
  MarksNameFirstRequest
PROPERTIES
  ImplementsControl
  ImplementsContract

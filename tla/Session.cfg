SPECIFICATION SessionSpec
CONSTANTS
  CallIds = {"a", "b"}
  PartLists <- MCPartLists
  InputTexts = {"Clean", "Raw"}
  Fields = {"input", "cache_read"}
  MaxCount = 3
  Usages <- MCUsages
  MaxTurns = 2
  MaxRequests = 2
  MaxInputs = 1
INVARIANTS
  SessionStaysUsable
  TotalIsSum

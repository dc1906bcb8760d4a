SPECIFICATION PromptSpec
CONSTANTS
  CallIds = {"a", "b"}
  PartLists <- MCPartLists
  SystemTexts = {"Empty", "Clean"}
  Ceiling = 5
  Prefix = 1
  MaxItems = 2
  MaxMessages = 4
INVARIANTS
  CheckDecides
  WireIsInvisible
  CutIsLongest

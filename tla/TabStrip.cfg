SPECIFICATION Spec
CONSTANTS
  Requests = {r}
  Flows = {f}
  Collection = c
  Gone = Gone
  NoItem = NoItem
  MaxTabs = 3
  MaxEdits = 1
  MaxChanges = 1
PROPERTIES SavingAsks
CHECK_DEADLOCK FALSE

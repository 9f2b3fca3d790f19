SPECIFICATION Spec
CONSTANTS
  UNDO_LIMIT = 2
  LOG_LIMIT = 2
  RUN_DATA_LIMIT = 2
  Ids = {1, 2}
  Sizes = {1, 2}
  NoBlock = NoBlock
  NoRun = NoRun
  MaxEdits = 3
  MaxEvents = 3
INVARIANT NewBlocksHaveNotRun
CHECK_DEADLOCK FALSE

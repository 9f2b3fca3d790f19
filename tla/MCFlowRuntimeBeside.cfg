SPECIFICATION Spec
CONSTANTS
  Flows <- MCFlowsBeside
  MaxBlockRuns = 40
INVARIANT ItemsTakeTurns
CHECK_DEADLOCK FALSE

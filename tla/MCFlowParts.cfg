SPECIFICATION FlowsSpec
CONSTANTS
  Flows <- MCFlows
  MaxBlockRuns = 16
  NoBlock = NoBlock
  NoRun = NoRun
INVARIANTS
  IterationsNeverMix
  TurnsAreTaken
  LoopsFinish
  TablesAreRight
PROPERTIES
  EditorKeepsTrack
  EveryRunEnds
CHECK_DEADLOCK FALSE

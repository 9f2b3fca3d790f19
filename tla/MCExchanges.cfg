SPECIFICATION ExchangesSpec
CONSTANTS
  Urls = {"u", "w"}
  Paths = {"absolute", "relative", "other"}
  Absolute = "absolute"
  Relative = "relative"
  NoTarget = NoTarget
  Values = {1, 2}
  MaxEdits = 2
  MaxInvokes = 2
  EnvTasks <- RunTasks
  EnvPaths = {"p", "q"}
  PathOf <- RunPaths
  EnvUpdates <- RunUpdates
  Nobody = "nobody"
  Hidden = Hidden
  MaxEntries = 2
  MaxBytes = 4
  MaxCalls = 3
  MaxPrompts = 2
  MaxTroubles = 1
  MaxChoices = 1
  MaxRequests = 2
  MaxIterations = 2
  MaxPauses = 1
  MaxRuns = 1
  UPDATE_QUEUE = 1
  MaxSends = 3
  MaxEvents = 4
  REQUEST_LIMIT = 2
  CONCURRENT_REQUESTS = 1
  MaxJobs = 1
  MaxPromises = 1
  EVENT_QUEUE = 1
  QUEUED_BYTES = 2
  Sizes = {1, 3}
  MaxConnections = 2
  MaxMessages = 2
INVARIANTS
  TypeOK
  AwaitingIsServed
  CallsFitTheirDefinition
  ReflectionIsCurrent
  RunIsExact
  ExchangesAreRecorded
  LimitsHold
  ScriptsAreTold
PROPERTIES
  UpdatesAreAtomic
  PromptsArePrepared
  ExchangesEnd
CHECK_DEADLOCK FALSE

SPECIFICATION StoresSpec
CONSTANTS
  Processes = {app, cli}
  Keys = {session, theme}
  Values = {old, new}
  NoCookie = NoCookie
  Nobody = Nobody
  Request = request
  Flow = flow
  Collection = collection
  Gone = Gone
  NoItem = NoItem
  ImportDone = ImportDone
  Unreadable = Unreadable
  MaxChanges = 3
  MaxFailures = 1
  Secrets = {"s1", "s2"}
  NoSecret = ""
  MaxEdits = 2
  MaxOthers = 1
  MaxRefusals = 2
  MaxStops = 1
  LIMIT = 1
  MaxSent = 2
  Looks = {"a", "b"}
  MaxCaptures = 3
  MaxFaults = 1
  MaxStripTabs = 3
  MaxTabEdits = 1
  MaxMoves = 1
  MaxNames = 3
  MaxFiles = 2
  MaxTabs = 2
  MaxVariables = 1
  MaxEvents = 1
  Tracks = {"stable", "nightly"}
  NoTrack = "none"
  MaxChecks = 4
  MaxStarts = 2
INVARIANTS
  TypeOK
  SkippedJarsAreSaved
  PreferencesHold
  HistoryHolds
  UpdatesFit
PROPERTIES
  OnlyOwnChangesReplace
  DeletionsReachTheFile
  NewestSessionStays
  TabsStayAsLeft
  EnvironmentsAreKept
  StoresSettle
CHECK_DEADLOCK FALSE

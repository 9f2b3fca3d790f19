SPECIFICATION TabsSpec
CONSTANTS
  Requests = {r}
  Pages = {p}
  Flows = {f}
  Ids = {i1, i2}
  PageId = i1
  Values = {a, b}
  Default = a
  None = None
  NoItem = NoItem
  Kinds = {r, p, f}
  MaxOutside = 2
  Idle = Idle
  Nothing = Nothing
  Unreadable = Unreadable
  Editors = {"first", "second", "third"}
  NoEditor = "nobody"
  QueueLimit = 2
  MaxAsks = 4
  MaxReceived = 2
  MaxSent = 2
  Collections = {1, 2}
  Folders = {5, 6}
  Files = {7, 8, 9, 10}
  Reserved = 7
  FileRequests = {"a", "b", "i", "j", "n"}
  ImportedItems <- RunImport
  MaxDepth = 3
  MaxEdits = 2
  MaxTroubles = 1
INVARIANTS
  TypeOK
  NoSilentOverwrite
  OwnChangesStay
  RoomIsPassedOn
  ReceivedAreShown
  ItemsAreSafe
  SidebarIsFaithful
PROPERTIES
  TabsFollow
  AnswersArrive
CHECK_DEADLOCK FALSE

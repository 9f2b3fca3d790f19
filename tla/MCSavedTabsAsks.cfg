SPECIFICATION MCSpec
CONSTANTS
  Requests = {r}
  Pages = {p}
  Flows = {f}
  Ids = {i1, i2}
  PageId = i1
  Values = {a, b}
  Default = a
  None = None
  NoItem = NoItem
  Kinds = {p}
  MaxOutside = 2
INVARIANTS
  AsksWhoseToKeep

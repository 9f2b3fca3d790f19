SPECIFICATION Spec
CONSTANTS
  Repositories <- MCRepositories
  Home = "home"
  Happens = {}
  Touched <- MCTouched
  MaxContents = 2
  MaxAsked = 3
INVARIANT PulledRequestsShow
CHECK_DEADLOCK FALSE

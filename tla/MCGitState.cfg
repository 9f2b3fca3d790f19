SPECIFICATION Spec
CONSTANTS
  Repositories <- MCRepositories
  Home = "home"
  Happens <- MCHappens
  Touched <- MCTouched
  MaxContents = 2
  MaxAsked = 2
INVARIANTS
  ViewsFollow
  NoStatusCatchesAPull
PROPERTY Settles
CHECK_DEADLOCK FALSE

SPECIFICATION Spec
CONSTANTS
  MaxSends = 2
  MaxChoices = 1
  MaxTroubles = 1
INVARIANT AllowsOnlyInBypass
CHECK_DEADLOCK FALSE

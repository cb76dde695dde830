SPECIFICATION FairSpec
CONSTANTS
  Requests <- RequestsAll
  Ends <- EndsAll
  MaxInjects = 2
CHECK_DEADLOCK FALSE
INVARIANTS NoStorm TpduAlternates
PROPERTY FallsSilent

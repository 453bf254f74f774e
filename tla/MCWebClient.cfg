SPECIFICATION FairSpec
CONSTANTS
  Services = {a, b}
  Switches = {k1, k2}
  MaxChecks = 2
  MaxPolls = 1
  None = none
INVARIANTS
  WantedStaysShown
PROPERTIES
  BlockEnds
  ShownInTheEnd
CHECK_DEADLOCK FALSE

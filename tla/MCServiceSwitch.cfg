SPECIFICATION FairSpec
CONSTANTS
  Players = {a, b, c}
  Installed = {a, b}
  Requests = {r1, r2, r3}
  Boot = boot
  None = none
INVARIANTS
  TypeOK
  OneSwitchAtATime
  OneLink
  OnlyTheLinkedPlays
PROPERTIES
  SelectionSpec
  ServerSpec
  LockReleased

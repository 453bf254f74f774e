SPECIFICATION RestartSpec
CONSTANTS
  Players = {a, b}
  Installed = {a, b}
  Requests = {r1}
  Boot = boot
  None = none
  AlsaRequests = {s1}
  Mdev = mdev
  MaxEvents = 2
INVARIANTS
  SelectedPlays
CHECK_DEADLOCK FALSE

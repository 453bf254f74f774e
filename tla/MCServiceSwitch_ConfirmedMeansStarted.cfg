SPECIFICATION Spec
CONSTANTS
  Players = {a, b}
  Installed = {a, b}
  Requests = {r1}
  Boot = boot
  None = none
PROPERTY ConfirmedMeansStarted

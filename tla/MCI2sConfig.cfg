SPECIFICATION Spec
CONSTANTS
  Requests = {r1, r2}
  Swaps = {"PCM_SWAP"}
  Forms <- MCForms
  MaxPosts = 3
  MaxFailures = 1

INVARIANTS
  TypeOK
  AppliedEverywhere
  AppliedRuns
  ErasedOnlyForWrite

\* A board whose device tree is erased stays off; the run ends at its bounds.
CHECK_DEADLOCK FALSE

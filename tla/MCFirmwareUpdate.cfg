SPECIFICATION Spec
CONSTANTS
  Updates = {u1, u2}
  MaxRuns = 4
  MaxFaults = 2
SYMMETRY Symmetry

INVARIANTS
  TypeOK
  CompletedMeansNew
  FetchedBeforeErase
  OneDamagedPerFault

\* A board that does not boot stays off; otherwise the run ends at its bounds.
CHECK_DEADLOCK FALSE

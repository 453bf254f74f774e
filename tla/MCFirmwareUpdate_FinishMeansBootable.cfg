SPECIFICATION Spec
CONSTANTS
  Updates = {u1, u2}
  MaxRuns = 2
  MaxFaults = 0
SYMMETRY Symmetry

INVARIANT FinishMeansBootable

\* The run ends when both updates have ended.
CHECK_DEADLOCK FALSE

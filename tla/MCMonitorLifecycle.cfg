SPECIFICATION Spec
CONSTANTS
  Callers = {s1, s2, s3}
  MaxPids = 5
INVARIANTS
  TypeOK
  MonitorAlive
CHECK_DEADLOCK FALSE

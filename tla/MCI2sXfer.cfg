SPECIFICATION Spec
CONSTANT Connected = {"playback", "capture"}
INVARIANTS
  TypeOK
  RefcountCounts
  RunningFlows
  QuietAtRest
\* Nothing is called after platform_shutdown.
CHECK_DEADLOCK FALSE

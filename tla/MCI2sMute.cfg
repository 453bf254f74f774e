SPECIFICATION FairSpec
CONSTANTS
  Stream = stream
  Switchers = {s1}
  Delays = {0, 2001}
INVARIANTS
  TypeOK
  LockDiscipline
  UserMuteHolds
  OpenMeansUnmuted
  WorkOnlyWhileStarted
  RoutingMatchesMode
PROPERTIES
  OnlyJustifiedUnmute
  DacMuteSpec
  ScheduledUnmuteDelivered
  StreamCallsReturn

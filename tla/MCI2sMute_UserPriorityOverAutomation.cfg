SPECIFICATION Spec
CONSTANTS
  Stream = stream
  Switchers = {s1}
  Delays = {0, 300}
PROPERTY UserPriorityOverAutomation

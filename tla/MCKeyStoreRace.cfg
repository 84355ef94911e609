SPECIFICATION Spec
CONSTANTS
  Requests = {r1, r2}
  Missing = Missing
  Empty = Empty
  Loads = {2}
  MaxCrashes = 0
  MaxFailures = 0
CHECK_DEADLOCK FALSE
PROPERTIES
  KeyNeverReplaced

SPECIFICATION DeviceSpec
CONSTANTS
  Requests = {r1, r2, r3}
  Missing = Missing
  Empty = Empty
  Loads = {1, 3}
  MaxCrashes = 1
  MaxFailures = 1
  Saves = {s1, s2}
  Logins = {l1}
CHECK_DEADLOCK FALSE
INVARIANTS
  SignedByItsKey
  PublicNeedsPrivate
  IdentityKept
  CachedIdentityLogsIn
PROPERTIES
  KeyKeptAlone

SPECIFICATION Spec
CONSTANTS
  Users = {u1, u2}
  Logins = {l1, l2}
  Requests = {r1, r2}
  Names = {n1}
  TTL = 2
  NoSession = NoSession
  NoInfo = NoInfo
  NoCert = NoCert
  Nobody = Nobody
  MaxTime = 2
  MaxFailures = 1
  MaxTimeouts = 1
  MaxCrashes = 1
CHECK_DEADLOCK FALSE
SYMMETRY MCSymmetry
INVARIANTS
  TypeOK
  LiveSessionKept
  OwnerWasLoggedIn
  RegisteredIsListed
  CacheShowsContent
  RegisteredIsShown
PROPERTIES
  RefusedStaysRefused

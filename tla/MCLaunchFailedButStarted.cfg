SPECIFICATION Spec
CONSTANTS
  u1 = u1
  u2 = u2
  a1 = a1
  Users <- MCUsers
  Assets <- MCAssets
  Keys = {k1}
  MaxUint = 2
  Times = {1, 2}
  PriceInputs = {100000}
  ModeInputs = {0, 1}
  LegalInputs = {0, 1, 2, 3}
  StatusInputs = {0, 10}
  RoleInputs = {2}
  ScoreInputs = {59}
  NoIdentity = NoIdentity
  NoKey = NoKey
  NoCert = NoCert
  NoOwner = NoOwner
  NoInfo = NoInfo
  NoEntry = NoEntry
  Handlers = {h1, h2}
  Requests <- MCRequests
  OwnerOf <- MCOwnerOf
  InitialScore <- MCInitialScore
  NoRequest = NoRequest
  Nobody = Nobody
  MaxFailures = 0
  MaxLostAnswers = 1
  MaxCrashes = 0
  MaxScoreMoves = 0
CHECK_DEADLOCK FALSE
INVARIANTS
  FailedMeansNotStarted

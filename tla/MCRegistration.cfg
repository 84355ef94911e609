SPECIFICATION FairSpec
CONSTANTS
  r1 = r1
  r2 = r2
  k1 = k1
  k2 = k2
  Requests = {r1, r2}
  KeyOf <- MCKeyOf
  NoKey = NoKey
  NoRecord = NoRecord
  MaxTimeouts = 3
  MaxFailures = 1
CHECK_DEADLOCK FALSE
INVARIANTS
  TradingHasIdentity
  RegisteredCanLogin
PROPERTIES
  EveryRequestAnswered

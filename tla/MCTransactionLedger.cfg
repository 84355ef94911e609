\* Two users, one asset, one transaction ID, every mode and role; the launch runs
\* have more IDs and check that their steps are steps of this ledger.
SPECIFICATION Spec
CONSTANTS
  Users = {u1, u2}
  Assets = {a1}
  Keys = {k1}
  MaxUint = 1
  Times = {1, 2}
  PriceInputs = {0, 100001}
  ModeInputs = {0, 1, 3}
  LegalInputs <- MCLegalInputs
  StatusInputs <- MCStatusInputs
  RoleInputs = {0, 2, 3}
  ScoreInputs = {60, 70}
  NoIdentity = NoIdentity
  NoKey = NoKey
  NoCert = NoCert
  NoOwner = NoOwner
  NoInfo = NoInfo
  NoEntry = NoEntry
INVARIANTS
  TypeOK
  RegistryConsistent
  CounterCoversTransactions
  TermsMatchMode
PROPERTIES
  TransactionHistory
  StartsOnlyOnMarket
  TradeEntriesPersist

SPECIFICATION Spec
CONSTANTS
  Scores <- MCScores
  Prices <- MCPrices
  MaxSafeInteger = 2000000
INVARIANTS
  ServerAgreesWithChain
  BrowserAgreesWithChain

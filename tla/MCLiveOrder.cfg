SPECIFICATION Spec
CONSTANTS
  Plans = {1, 2, 3}
  Intents = {10, 20}
  None = 0
  MaxLives = 2
  Symbols <- MCSymbols
  Sides <- MCSides
  IntentOf <- MCIntentOf
  SymbolOf <- MCSymbolOf
  SideOf <- MCSideOf
INVARIANTS LockIsTheWorkers NoSilentPost AuditTellsTruth OneOpenOrderPerSide
PROPERTY ImplementsOneShot

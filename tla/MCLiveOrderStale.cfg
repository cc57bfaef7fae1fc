SPECIFICATION FairSpec
CONSTANTS
  Plans = {1, 3}
  Intents = {10, 20}
  None = 0
  MaxLives = 1
  Symbols <- MCSymbols
  Sides <- MCSides
  IntentOf <- MCIntentOf
  SymbolOf <- MCSymbolOf
  SideOf <- MCSideOf
PROPERTY NoPostOnStaleQuote

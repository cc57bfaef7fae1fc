SPECIFICATION FairSpec
CONSTANTS
  Symbols = {"A", "B"}
  First = "A"
  NumTrades = 2
  None = None
  Skew = 2
  MaxBuffer = 1
  MaxRevisions = 2
  SymbolOf <- MCSymbolOf
  MinuteOf <- MCMinuteOf
INVARIANTS NoForeignData CandlesAreExact LiveIsUndegraded
PROPERTIES QuoteNeverGoesBack SwitchEnds

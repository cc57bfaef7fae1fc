SPECIFICATION CalcSpec
CONSTANTS
  None = None
  Symbols = {"A", "B", "C"}
  Intents <- MCIntents
  Quotes <- MCQuotes
  OpenOrders <- MCOpenOrders
  Trades <- MCTrades
  MaxTrades = 3
  Span = 4
  Charts <- MCCharts
  Dailies <- MCDailies
  Opened <- MCOpened
  Prices = {1, 3}
  Timeframes <- MCTimeframes
  Sides <- MCSides
  Tapes <- MCTapes
  Holdings <- MCHoldings
  MaxHoldings = 3
  Rate = 3
  Lengths <- MCLengths
  Outlooks <- MCOutlooks
  Period = 2
  Window = 1
  Recent = 3
  Least = 2
  Depth = 2
  Unit = 2
  Cap <- MCCap
  Minute = 2
  Day = 8
  Limit = 2
  Lookback = 20
  MinTraining = 48
  MinValidation = 12
  ValidationWindow = 24
  MinScore = 45
  MinAgreement = 58
  MinMargin = 12
  MinConfidence = 35
  Horizon <- MCHorizon
  MaxCandles = 200
INVARIANTS FactsAnnounceTheGates PassIsFounded LiveCandlesAreExact ChartIsTrue PortfolioAddsUp ReadingsAreEvenHanded DirectionIsHonest
CHECK_DEADLOCK FALSE

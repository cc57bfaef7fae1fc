SPECIFICATION Spec
CONSTANTS
  Accounts = {a, b}
  None = None
  MaxMoments = 2
  MaxAccountChanges = 2
INVARIANTS HistoryOfShownAccount NoLostWakeup
PROPERTY FullMeansAfterTheOrder

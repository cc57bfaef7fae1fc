SPECIFICATION FairSpec
CONSTANTS
  Symbols = {A, B}
  Presses = {1, 2}
  None = None
  Stale = 3
  Arm = 2
  MaxScreens = 2
  MaxOrders = 2
INVARIANTS OneOrderAtATime ConfirmedWhileFactsValid
PROPERTIES PreviewIsOfActiveSymbol ApprovedAfterAPause TicketLockIsReleased

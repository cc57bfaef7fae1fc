SPECIFICATION FairSpec
CONSTANTS
  PingEvery = 3
  SilenceAfter = 5
  PongWithin = 1
  DelayCap = 30
  MaxAttempt = 7
  MaxInbox = 2
  None = None
INVARIANTS QuietConnectionSurvives KeepaliveHasItsConnection
PROPERTIES DialsAreSpaced ImplementsProtocol DeadConnectionIsReplaced
CHECK_DEADLOCK FALSE

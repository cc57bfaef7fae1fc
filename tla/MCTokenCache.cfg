SPECIFICATION FairSpec
CONSTANTS
  Callers = {r1, r2, w}
  Readers = {r1, r2}
  NoCaller = NoCaller
  MaxLosses = 2
INVARIANTS NoNeedlessIssuance RetryRecovers
PROPERTY EveryRequestEnds

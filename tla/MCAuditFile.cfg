SPECIFICATION FairSpec
CONSTANTS
  Writers = {a, b}
  Nobody = Nobody
  NumRecords = 3
  Size = 2
INVARIANT OnlyTornLinesAreShared
PROPERTIES ImplementsAuditLog EveryAppendEnds

SPECIFICATION LockSpec
CONSTANTS
  Processes = {live, watch, probe}
  Nobody = Nobody
  MaxInodes = 2
  MaxTokens = 3
INVARIANT SessionTokenIsValid
PROPERTY RefusedOnlyByASession

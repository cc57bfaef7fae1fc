SPECIFICATION Spec
CONSTANTS
  Accounts = {a}
  None = None
  MaxMoments = 2
  MaxAccountChanges = 0
INVARIANT TrustedOrdersAreCurrent

SPECIFICATION Spec
CONSTANTS
  Symbols = {"A", "B"}
  First = "A"
  Commands = {c1}
  Tui = Tui
  None = None
  MaxRules = 2
  MaxCrossings <- MCThrice
  MaxCommands = 2
  MaxBack = 2
  Wanted <- MCWanted
INVARIANTS IdsAreUnique OneAlertPerCrossing

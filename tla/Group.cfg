SPECIFICATION Spec
CONSTANTS
  Node = {a, b, c}
  Creator = a
  MaxCommands = 4
  MaxFaults = 1
CHECK_DEADLOCK FALSE
SYMMETRY NodeSymmetry
INVARIANTS TypeOK MembersAgreeWhenQuiet LeaverGetsNoNewKey SettledLineIsShown

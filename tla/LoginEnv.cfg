CONSTANTS
  Proc = {p1}
  Account = {ann, bob}
  EnvToken = bob
  MaxCommands = 1
  None = none
SPECIFICATION Spec
INVARIANTS
  LoggedInAsNamed
CHECK_DEADLOCK FALSE

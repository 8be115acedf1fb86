CONSTANTS
  Proc = {p1, p2}
  Account = {ann, bob}
  EnvToken = none
  MaxCommands = 2
  None = none
SPECIFICATION Spec
INVARIANTS
  WholeSession
CHECK_DEADLOCK FALSE

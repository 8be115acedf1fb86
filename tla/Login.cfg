CONSTANTS
  Proc = {p1, p2}
  Account = {ann, bob}
  EnvToken = none
  MaxCommands = 4
  None = none
SPECIFICATION FairSpec
INVARIANTS
  OneSessionOnFile
  OnlyChosenAccounts
PROPERTIES
  EveryCommandEnds
CHECK_DEADLOCK FALSE

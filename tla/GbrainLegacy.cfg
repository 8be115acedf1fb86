CONSTANTS
  p1 = p1
  p2 = p2
  a = a
  None = None
  Notes = notes
  Proc = {p1, p2}
  File = {a}
  MaxVersion = 2
  MaxDirs = 2
  MaxFaults = 1
SPECIFICATION Spec
PROPERTIES
  LegacyKept
CHECK_DEADLOCK FALSE

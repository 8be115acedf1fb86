CONSTANTS
  empty = empty
  o = o
  ox = ox
  oa = oa
  ob = ob
  None = none
  Text <- MCText
  Initial = o
  Blank = {empty}
  Results <- MCResults
  MaxResults = 2
  MaxKeys = 4
SPECIFICATION Spec
INVARIANTS
  TypedByUser
CHECK_DEADLOCK FALSE

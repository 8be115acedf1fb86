CONSTANTS
  B = B
  R = R
  S = S
  Q = Q
  C = C
  K = K
  latest = latest
  none = none
  sSkill = sSkill
  sRule = sRule
  sSetup = sSetup
  sBox = sBox
  sBoxC = sBoxC
  b1 = b1
  b2 = b2
  b3 = b3
  r1 = r1
  r1x = r1x
  r2 = r2
  s1 = s1
  q1 = q1
  c1 = c1
  k1 = k1
  lineB = lineB
  lineS = lineS
  claude = claude
  codex = codex
  Latest = latest
  None = none
  Slot <- MCSlot
  SlotOf <- MCSlotOf
  Bucket <- MCBucket
  Key <- MCSlot
  KeyOf <- MCKeyOf
  Content <- MCContent
  Line = {lineB, lineS}
  Target = {claude, codex}
  LineTarget = {claude}
  Pkg = {B, R, K}
  Archive = {b1, r1, k1}
  Ver = {1}
  Proc = {p1}
  TargetLists <- PairTargetLists
  Request <- SiblingRequest
  Published <- MCPublished
  Checkouts <- MCCheckouts
  MirrorOn = FALSE
  CrashPoints = {}
  MaxCommands = 2
  MaxChanges = 0
SPECIFICATION Spec
INVARIANTS
  SiblingsSurvive
CHECK_DEADLOCK FALSE

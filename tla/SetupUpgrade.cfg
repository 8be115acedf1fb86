CONSTANTS
  tools = tools
  guard = guard
  tools1 = tools1
  tools2 = tools2
  guard1 = guard1
  style = style
  style1 = style1
  run = run
  check = check
  pre = pre
  post = post
  docs = docs
  logs = logs
  scan = scan
  Ref <- Packages
  RuleRef <- RulePackages
  Bundle <- Bundles
  Content <- Contents
  Inside <- Siblings
  File <- Files
  Event <- Events
  Name <- Names
  UserName = docs
  Agent = {"tagging", "codex"}
  CrashPoints = {}
  MaxCommands = 2
  MaxEdits = 0
  User = user
  Gone = gone
  None = none
SPECIFICATION Spec
INVARIANTS
  ReinstallReplaces
CHECK_DEADLOCK FALSE

SPECIFICATION FairSpec
CONSTANTS
  p1 = p1
  p2 = p2
  toml = toml
  t = t
  o = o
  Absent = Absent
  Patch <- MCPatch
  Toml = toml
  Tools <- MCTools
  Other <- MCOther
  AutoMerge = TRUE
  MaxBackups = 1
  MaxMerges = 2
  MaxBreaks = 1
INVARIANTS PendingCanRollBack OnlyGatedOrApproved StableWasProbed
PROPERTIES RollbackUndoesMerge PendingIsResolved
CHECK_DEADLOCK FALSE

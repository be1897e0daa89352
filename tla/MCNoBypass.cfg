SPECIFICATION Spec
CONSTANTS
  p1 = p1
  p2 = p2
  toml = toml
  t = t
  o = o
  Absent = Absent
  Patch <- MCPatch
  Toml = toml
  Tools <- MCTools
  Other <- MCOther
  AutoMerge = TRUE
  MaxBackups = 1
  MaxMerges = 2
  MaxBreaks = 0
INVARIANTS NoBypass
CHECK_DEADLOCK FALSE

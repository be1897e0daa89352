SPECIFICATION FairSpec
CONSTANTS
  r = r
  w = w
  x = x
  g = g
  bad = bad
  Call = {r, w, x, g, bad}
  ToolOf <- MCToolOf
  Registered = {"search", "write_file", "shell"}
  AllowedTools = {"search", "write_file", "ghost"}
  ApprovalTools = {"write_file", "shell"}
  ValidCalls = {r, w, x, g}
  Actions <- ControlActions
  Ok = Ok
  FailureKind = {timeout, error}
  Denied = Denied
  MaxSteps = 2
  MaxToolCalls = 2
  MaxRetries = 0
  Requests = {"pause", "resume", "interrupt"}
INVARIANTS
  InterruptIsPrompt
PROPERTIES
  RunEnds

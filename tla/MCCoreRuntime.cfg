SPECIFICATION Spec
CONSTANTS
  r = r
  w = w
  x = x
  g = g
  bad = bad
  Call = {r, w, x, g, bad}
  ToolOf <- MCToolOf
  Registered = {"search", "write_file", "shell"}
  AllowedTools = {"search", "write_file", "ghost"}
  ApprovalTools = {"write_file", "shell"}
  ValidCalls = {r, w, x, g}
  Actions <- MCActions
  Ok = Ok
  FailureKind = {timeout, error}
  Denied = Denied
  MaxSteps = 3
  MaxToolCalls = 3
  MaxRetries = 2
  Requests = {}
INVARIANTS
  TypeOK
  CapsHold
  AuditedExecution
  BreakerStopsHopelessRuns
  BusFollowsTrace
  CompletedRunLeavesNoCallOpen
  MemoryKeepsUpWithTrace
  ConversationIsWellFormed
PROPERTIES
  ImplementsRunTrace

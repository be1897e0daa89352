SPECIFICATION ReplaySpec
CONSTANTS
  r = r
  w = w
  x = x
  Call = {r, w, x}
  ToolOf <- MCToolOf
  Registered = {"search", "write_file", "shell"}
  AllowedTools = {"search", "write_file", "shell"}
  ApprovalTools = {"write_file", "shell"}
  ValidCalls = {r, w, x}
  Actions <- MCActions
  Ok = Ok
  FailureKind = {error, denial}
  Denied = Denied
  DenialServed = denial
  MaxSteps = 3
  MaxToolCalls = 2
  MaxRetries = 1
  MaxActions = 2
  Requests = {}
INVARIANTS
  ReplayFollowsReference
  AnsweredReferenceSuffices
  ReplayStaysInBudget
  VerdictsAgree

SPECIFICATION Spec
CONSTANTS
  Bad = Bad
  Null = Null
  Absent = Absent
  NotToml = NotToml
  Script = {"script"}
  StarterTools = {"clock", "write_file"}
  TierOf <- MCTierOf
  AgentId <- MCAgentId
  DelegateName <- MCDelegateName
  Delegate <- MCDelegate
  EmbeddingsInstalled = FALSE
  HandEdits = {}
  CutOffs = {}
  ProfileNames <- MCProfileNames
  HandProfiles <- MCHandProfiles
  BundledFake <- MCBundled
  FormChanges <- MCFormChanges
  EnvVars = {}
  MaxEdits = 0
INVARIANTS
  ReplayLatestSurvives

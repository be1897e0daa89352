------------------------------ MODULE Topology -------------------------------
(***************************************************************************)
(* parse_team_topology (orchestration/topology.py): which naqsha.toml is   *)
(* accepted, and the TeamTopology an accepted one becomes.  What the       *)
(* parser does not look at stays unlooked at: the type of the memory       *)
(* beyond being a text, and everything inside a model adapter's section.   *)
(***************************************************************************)
EXTENDS Tables

CONSTANTS
  AgentId,       \* names of [agents.<id>] tables
  DelegateName,  \* every name that starts with delegate_to_
  Delegate       \* _safe_delegate_tool_name, on AgentId

ASSUME TopologyAssumption ==
  /\ Delegate \in [AgentId -> DelegateName]
  /\ StarterTools \cap (MemoryTools \cup DelegateName) = {}
  /\ MemoryTools \cap DelegateName = {}

WorkspaceKeys == {"name", "orchestrator", "description", "trace_dir", "auto_approve",
                  "approval_required_tiers", "sanitizer_max_chars"}
AgentKeys == {"role", "model_adapter", "tools", "max_steps", "max_model_tokens",
              "max_retries", "budgets", "approval_required_tiers", "fake_model",
              "fake_model_json", "instructions"} \cup Remote

WorkspaceOK(ws) ==
  /\ IsTable(ws) /\ DOMAIN ws \subseteq WorkspaceKeys
  /\ IsText(Get(ws, "name", "team")) /\ IsText(Get(ws, "orchestrator", Null))
  /\ Get(ws, "description", NoText) # Bad
  /\ IsText(Get(ws, "trace_dir", ".naqsha/traces"))
  /\ IsBool(Flag(ws, "auto_approve"))
  /\ TiersOK(Get(ws, "approval_required_tiers", Null))
  /\ AtLeast(Get(ws, "sanitizer_max_chars", 4000), 1)

\* An absent, null or empty [memory] or [reflection] is the empty table, and so
\* is a false, zero or empty value of another type: it is written as Null here.
Section(doc, key) == IF Has(doc, key) THEN doc[key] ELSE <<>>
MemoryOK(memory) ==
  /\ memory # Bad /\ DOMAIN memory \subseteq {"type", "db_path", "embeddings"}
  /\ IsText(Get(memory, "type", "sqlite")) /\ IsText(Get(memory, "db_path", "memory.db"))
  /\ IsBool(Flag(memory, "embeddings"))
ReflectionOK(reflection) ==
  /\ reflection # Bad
  /\ DOMAIN reflection \subseteq {"enabled", "auto_merge", "reliability_gate"}
  /\ \A key \in DOMAIN reflection : IsBool(reflection[key])

-----------------------------------------------------------------------------
Orchestrator(doc) == doc["workspace"]["orchestrator"]
Workers(doc) == DOMAIN doc["agents"] \ {Orchestrator(doc)}
Delegates(doc) == {Delegate[id] : id \in Workers(doc)}

\* The orchestrator is given the delegate of every worker, listed or not.
ToolsOf(doc, id) ==
  doc["agents"][id]["tools"] \cup (IF id = Orchestrator(doc) THEN Delegates(doc) ELSE {})
ToolsOK(doc, id) ==
  LET listed == Get(doc["agents"][id], "tools", Null)
  IN  /\ listed \notin {Bad, Null, {}}
      /\ id # Orchestrator(doc) => listed \cap DelegateName = {}
      /\ ToolsOf(doc, id) \subseteq StarterTools \cup MemoryTools \cup Delegates(doc)

AdapterOf(agent) == Get(agent, "model_adapter", "fake")
\* A section is only checked for being a table of the agent's own adapter.
AdapterOK(agent) ==
  /\ AdapterOf(agent) \in Adapters
  /\ \A a \in Remote : Has(agent, a) => a = AdapterOf(agent) /\ IsTable(agent[a])

ScriptOK(agent) ==
  /\ ~(Has(agent, "fake_model") /\ Has(agent, "fake_model_json"))
  /\ (Has(agent, "fake_model") \/ Has(agent, "fake_model_json")) => AdapterOf(agent) = "fake"
  /\ FakeModelOK(Get(agent, "fake_model", Null))
  /\ MessagesOK(Get(agent, "fake_model_json", Null))
ScriptOf(agent) ==
  CASE Has(agent, "fake_model") -> Get(agent["fake_model"], "messages", Null)
    [] OTHER -> Get(agent, "fake_model_json", Null)

AgentOK(doc, id) ==
  LET agent == doc["agents"][id]
      tokens == Get(agent, "max_model_tokens", Null)
  IN  /\ id # NoText /\ IsTable(agent) /\ DOMAIN agent \subseteq AgentKeys
      /\ IsText(Get(agent, "role", "agent"))
      /\ AdapterOK(agent) /\ ToolsOK(doc, id) /\ ScriptOK(agent)
      /\ AtLeast(Get(agent, "max_steps", 8), 1)
      /\ tokens # Null => AtLeast(tokens, 1)
      /\ BudgetsOK(Get(agent, "budgets", Null))
      /\ AtLeast(Get(agent, "max_retries", 3), 0)
      /\ Get(agent, "instructions", NoText) # Bad
      /\ TiersOK(Get(agent, "approval_required_tiers", Null))

Accepted(doc) ==
  /\ DOMAIN doc \subseteq {"workspace", "memory", "reflection", "agents"}
  /\ WorkspaceOK(Get(doc, "workspace", Null))
  /\ MemoryOK(Section(doc, "memory")) /\ ReflectionOK(Section(doc, "reflection"))
  /\ IsTable(Get(doc, "agents", Null))
  /\ Orchestrator(doc) \in DOMAIN doc["agents"]
  /\ \A id \in DOMAIN doc["agents"] : AgentOK(doc, id)

\* The fields of an AgentRoleConfig; agent.max_steps yields to budgets.max_steps.
AgentOf(doc, id) ==
  LET agent == doc["agents"][id]
  IN  [agent_id |-> id, model_adapter |-> AdapterOf(agent), tools |-> ToolsOf(doc, id),
       budgets |-> BudgetsOf(Get(agent, "budgets", Null),
                     [max_steps |-> Get(agent, "max_steps", 8),
                      max_model_tokens |-> Get(agent, "max_model_tokens", Null)]
                     ++ DefaultBudgets),
       max_retries |-> Get(agent, "max_retries", 3),
       tiers |-> Get(agent, "approval_required_tiers", Null),
       script |-> ScriptOf(agent), section |-> Get(agent, AdapterOf(agent), Null)]

TopologyOf(doc) ==
  LET ws == doc["workspace"]
      memory == Section(doc, "memory")
  IN  [orchestrator |-> Orchestrator(doc),
       auto_approve |-> Flag(ws, "auto_approve"),
       tiers |-> TiersOf(Get(ws, "approval_required_tiers", Null)),
       sanitizer_max_chars |-> Get(ws, "sanitizer_max_chars", 4000),
       agents |-> [id \in DOMAIN doc["agents"] |-> AgentOf(doc, id)],
       memory |-> [type |-> Get(memory, "type", "sqlite"),
                   embeddings |-> Flag(memory, "embeddings")],
       reflection |-> Section(doc, "reflection") ++
                      [enabled |-> FALSE, auto_merge |-> FALSE, reliability_gate |-> TRUE]]

-----------------------------------------------------------------------------
\* json.loads of a fake_model_json that is not JSON escapes the parser as a
\* JSONDecodeError: every other refusal is a ProfileValidationError.
Unreadable(agent) == IsTable(agent) /\ Get(agent, "fake_model_json", Null) = "not json"
WithoutUnreadable(doc) ==
  [doc EXCEPT !["agents"] =
     [id \in DOMAIN @ |-> IF Unreadable(@[id]) THEN [@[id] EXCEPT !["fake_model_json"] = Null]
                                              ELSE @[id]]]
Verdict(doc) ==
  CASE Accepted(doc) -> "accepted"
    [] /\ ~Accepted(doc)
       /\ IsTable(Get(doc, "agents", Null)) /\ Accepted(WithoutUnreadable(doc)) -> "raises"
    [] OTHER -> "rejected"
==============================================================================

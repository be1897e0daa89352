----------------------------- MODULE TeamRuntime -----------------------------
(***************************************************************************)
(* orchestration/team_runtime.py: the Run Profile, the tools, the policy   *)
(* and the gate each agent of a parsed topology is wired with, and when    *)
(* the wiring raises.  `team` is a TopologyOf(doc).                        *)
(***************************************************************************)
EXTENDS Topology, RunProfile

CONSTANTS
  EmbeddingsInstalled  \* sqlite-vec can be imported

TiersFor(team, id) ==
  IF team.agents[id].tiers = Null THEN team.tiers ELSE team.agents[id].tiers

\* The mapping run_profile_for_topology_agent hands to parse_run_profile.
AgentData(team, id) ==
  LET agent == team.agents[id]
      listed == agent.tools \ (DelegateName \cup MemoryTools)
      plain == [name |-> id, model |-> agent.model_adapter, memory_adapter |-> "none",
                memory_token_budget |-> 512, auto_approve |-> team.auto_approve,
                sanitizer_max_chars |-> team.sanitizer_max_chars,
                approval_required_tiers |-> TiersFor(team, id), budgets |-> agent.budgets]
  IN  plain
      ++ (IF agent.script = Null THEN <<>> ELSE Entry("fake_model", [messages |-> agent.script]))
      ++ (IF agent.section = Null THEN <<>> ELSE Entry(agent.model_adapter, agent.section))
      ++ (IF listed = {} THEN <<>> ELSE Entry("allowed_tools", listed))

\* The parsed allow-list is replaced by the agent's own tools, which may be
\* delegates and memory tools.
\* Mutant: it is not replaced.
AgentProfileAsParsed(team, id) == ProfileOf(AgentData(team, id))
AgentProfile(team, id) ==
  [ProfileOf(AgentData(team, id)) EXCEPT !.allowed = team.agents[id].tools]

\* build_tools_for_agent, and build_orchestrator_tools with the delegates.
BuiltTools(team, id) ==
  (team.agents[id].tools \cap (StarterTools \cup MemoryTools)) \cup
  (IF id = team.orchestrator
   THEN {Delegate[w] : w \in DOMAIN team.agents \ {id}} ELSE {})
\* The worker a delegate tool of the orchestrator runs: of those with its name
\* the one that is built last keeps it.  Tables have no order, so it is left
\* open which one that is.  And the workers it can reach with its tools.
DelegateRuns(team, name) ==
  CHOOSE w \in DOMAIN team.agents \ {team.orchestrator} : Delegate[w] = name
Reached(team) ==
  {DelegateRuns(team, name) :
     name \in BuiltTools(team, team.orchestrator) \cap DelegateName}
MissingTools(team, id) == team.agents[id].tools \ BuiltTools(team, id)

MemoryOpens(memory) == memory.type = "sqlite" /\ (memory.embeddings => EmbeddingsInstalled)

\* tool_policy_for_topology_agent and run_profile_for_topology_agent, which
\* parses the sections topology.py let through.
AgentBuilds(team, id) == ProfileOK(AgentData(team, id)) /\ MissingTools(team, id) = {}

\* build_team_orchestrator_runtime touches the memory and the orchestrator;
\* a worker is built when it is delegated to.
TeamBuilds(team) == MemoryOpens(team.memory) /\ AgentBuilds(team, team.orchestrator)
==============================================================================

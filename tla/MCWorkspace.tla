----------------------------- MODULE MCWorkspace -----------------------------
(* The wizard's ids, and two that share a safe delegate name.  A hand may   *)
(* leave a good file, one with the two ids, one for a single agent, one of  *)
(* each kind the parser turns down and the two it lets through that cannot  *)
(* be wired.  A write may break off before anything is written, in the      *)
(* middle of a line, or between the first agent and the second.             *)
EXTENDS Workspace, TLC

MCAgentId == {TeamIds[i] : i \in 1..8} \cup {"w-1", "w_1"}
MCDelegate ==
  [id \in MCAgentId |-> IF id = "w-1" THEN "delegate_to_w_1" ELSE "delegate_to_" \o id]
MCDelegateName == {MCDelegate[id] : id \in MCAgentId}
MCTierOf == ("clock" :> "read_only") @@ ("write_file" :> "write")

Agent(tools) == [tools |-> tools]
Team(orch, worker) ==
  [workspace |-> [orchestrator |-> "orch"], agents |-> ("orch" :> orch) @@ ("w-1" :> worker)]
Plain2 == Team(Agent({"clock"}), Agent({"write_file", "memory_schema"}) @@
            [max_steps |-> 3, budgets |-> [max_tool_calls |-> 2],
             approval_required_tiers |-> {"high"}])
Twins == [workspace |-> [orchestrator |-> "orch"],
          agents |-> [id \in {"orch", "w-1", "w_1"} |-> Agent({"clock"})]]
Alone == [workspace |-> [orchestrator |-> "orch", auto_approve |-> TRUE],
          agents |-> ("orch" :> (Agent({"clock"}) @@ [fake_model_json |-> "script"]))]
Postgres == Plain2 @@ [memory |-> [type |-> "postgres"]]
BadSection == Team(Agent({"clock"}) @@ [model_adapter |-> "anthropic",
                     anthropic |-> [modle |-> "m"]], Agent({"clock"}))
NotJson == Team(Agent({"clock"}) @@ [fake_model_json |-> "not json"], Agent({"clock"}))
WorkerDelegates == Team(Agent({"clock"}), Agent({"delegate_to_orch"}))
NoBudget == Team(Agent({"clock"}) @@ [budgets |-> [max_steps |-> 0]], Agent({"clock"}))

MCHandEdits == {Plain2, Twins, Alone, Postgres, BadSection, NotJson, WorkerDelegates, NoBudget,
                NotToml, Absent}
Beginning == [Plain2 EXCEPT !.agents = "orch" :> @["orch"]]
MCCutOffs == {<<>>, NotToml, Beginning}
MCProfileNames == <<"extra", "workbench">>
MCBundled == [allowed_tools |-> {"clock"}, model |-> "fake"]
MCHandProfiles == {Bad, [allowed_tools |-> {"delegate_to_w_1"}],
                   [model |-> "ollama", ollama |-> [api_key_env |-> Null]]}
MCFormChanges ==
  {<<"adapter", "anthropic">>, <<"sanitizer", Bad>>, <<"sanitizer", 12>>, <<"agents", 1>>,
   <<"auto_merge", TRUE>>, <<"enabled", TRUE>>, <<"tiers", {}>>, <<"embeddings", TRUE>>,
   <<"full_tools", FALSE>>, <<"power", FALSE>>,
   <<"orch", [PowerOrch EXCEPT !.max_steps = 0]>>}
==============================================================================

------------------------------- MODULE Wizard --------------------------------
(***************************************************************************)
(* The init wizard's form (tui/wizard/init.py) as a record, what choosing  *)
(* a template does to it, when a save is refused, and the naqsha.toml      *)
(* render_workspace_toml writes from it.  A number field holds Bad when    *)
(* its text is no number; the names, paths, prompts and environment        *)
(* variables fall back to a default when left blank and are left out.      *)
(***************************************************************************)
EXTENDS Tables, Sequences

\* The ids of the agents, in order.
TeamIds == <<"orch", "worker1", "worker2", "worker3", "worker4", "worker5", "worker6",
             "worker7">>

Templates == {"blank", "quick_demo", "code_assistant", "research", "local_llm"}
AgentsOf(template) ==
  CASE template \in {"blank", "quick_demo"} -> 2
    [] template \in {"code_assistant", "local_llm"} -> 3
    [] OTHER -> 4

PowerOrch == [max_steps |-> 96, max_tool_calls |-> 192,
              wall_clock_seconds |-> 7200, per_tool_seconds |-> 180]
PowerWorker == [max_steps |-> 64, max_tool_calls |-> 160,
                wall_clock_seconds |-> 5400, per_tool_seconds |-> 120]

\* The form as compose and on_mount leave it: the first template applied.
FreshForm ==
  [agents |-> AgentsOf("blank"), adapter |-> "fake", full_tools |-> TRUE,
   auto_approve |-> TRUE, tiers |-> {"write", "high"}, sanitizer |-> 65536,
   embeddings |-> FALSE, enabled |-> FALSE, auto_merge |-> FALSE, reliability_gate |-> TRUE,
   power |-> TRUE, orch |-> PowerOrch, worker |-> PowerWorker, retries |-> 5]

\* A template resets the number of agents and the reflection box; only
\* local_llm touches the model backend, and no template puts it back.
ApplyTemplate(form, template) ==
  [form EXCEPT !.agents = AgentsOf(template), !.enabled = FALSE,
               !.adapter = IF template = "local_llm" THEN "ollama" ELSE @]

\* The generous budgets overwrite the budget fields when the form is saved.
Gathered(form) ==
  LET f == [form EXCEPT !.sanitizer = IF @ \in Int /\ @ < 1024 THEN 1024 ELSE @]
  IN  IF f.power THEN [f EXCEPT !.orch = PowerOrch, !.worker = PowerWorker] ELSE f

FieldsOK(form) ==
  /\ form.sanitizer \in Int /\ form.agents \in Int
  /\ form.auto_merge => form.enabled
  /\ \A key \in DOMAIN PowerOrch : AtLeast(form.orch[key], 1) /\ AtLeast(form.worker[key], 1)
  /\ AtLeast(form.retries, 0)

\* render_workspace_toml raises for a team of one or of more than eight and
\* for tiers it does not know.
Renders(form) == form.agents \in 2..8 /\ form.tiers \notin {Bad, {}}

ToolsListed(form, isOrch) ==
  CASE form.full_tools -> StarterTools \cup MemoryTools
    [] ~form.full_tools /\ isOrch -> {"clock"}
    [] OTHER -> {"clock", "list_memory_tables"}
AdapterSection(adapter) ==
  IF adapter = "fake" THEN <<>>
  ELSE Entry(adapter, [model |-> "model", timeout_seconds |-> 120]
                      ++ (IF adapter = "ollama" THEN <<>> ELSE [api_key_env |-> "API_KEY"])
                      ++ (IF adapter \in {"ollama", "openai_compat"}
                          THEN [base_url |-> "url"] ELSE <<>>))
AgentTable(form, isOrch) ==
  [role |-> IF isOrch THEN "orchestrator" ELSE "worker", model_adapter |-> form.adapter,
   tools |-> ToolsListed(form, isOrch), max_retries |-> form.retries,
   budgets |-> IF isOrch THEN form.orch ELSE form.worker]
  ++ AdapterSection(form.adapter)

Rendered(form) ==
  [workspace |-> [name |-> "team", orchestrator |-> TeamIds[1], description |-> NoText,
                  trace_dir |-> ".naqsha/traces", auto_approve |-> form.auto_approve,
                  sanitizer_max_chars |-> form.sanitizer,
                  approval_required_tiers |-> form.tiers],
   memory |-> [type |-> "sqlite", db_path |-> "memory.db", embeddings |-> form.embeddings],
   reflection |-> [key \in {"enabled", "auto_merge", "reliability_gate"} |-> form[key]],
   agents |-> [id \in {TeamIds[i] : i \in 1..form.agents} |-> AgentTable(form, id = TeamIds[1])]]
==============================================================================

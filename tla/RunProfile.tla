----------------------------- MODULE RunProfile ------------------------------
(***************************************************************************)
(* parse_run_profile, load_raw_profile and the policy a Run Profile is     *)
(* wired with (profiles.py, wiring.py).  A profile file is a table as in   *)
(* module Tables; paths and texts are left out except that they must be    *)
(* texts.                                                                  *)
(***************************************************************************)
EXTENDS Tables, Sequences

CONSTANTS
  TierOf         \* the risk tier of a starter tool

\* "allowed_tool_names" and "fake_model_messages" are fields of the dataclass:
\* the parser lets both through as keys and reads neither.
ProfileKeys == {"name", "trace_dir", "tool_root", "model", "allowed_tool_names",
  "memory_adapter", "memory_token_budget", "memory_cross_project", "memory_cross_database",
  "auto_approve", "approval_required_tiers", "budgets", "sanitizer_max_chars",
  "fake_model_messages", "instructions", "fake_model", "allowed_tools"} \cup Remote

SectionKeys(adapter) ==
  {"base_url", "model", "api_key_env", "timeout_seconds"} \cup
  (IF adapter = "anthropic" THEN {"max_tokens", "anthropic_version"} ELSE {})
SectionFieldOK(adapter, key, v) ==
  CASE key \in {"timeout_seconds", "max_tokens"} -> AtLeast(v, 1)
    [] key = "api_key_env" /\ adapter = "ollama" -> v # Bad
    [] OTHER -> IsText(v)
SectionOK(adapter, blob) ==
  blob # Null =>
    /\ IsTable(blob)
    /\ DOMAIN blob \subseteq SectionKeys(adapter)
    /\ \A key \in DOMAIN blob : SectionFieldOK(adapter, key, blob[key])

AllowedToolsOK(allowed) ==
  allowed # Null => allowed \notin {Bad, {}} /\ allowed \subseteq StarterTools

ProfileOK(data) ==
  LET model == Get(data, "model", "fake")
  IN  /\ DOMAIN data \subseteq ProfileKeys
      /\ IsText(Get(data, "name", "unnamed"))
      /\ model \in Adapters
      /\ \A a \in Remote : Has(data, a) => a = model /\ SectionOK(a, data[a])
      /\ \A key \in {"trace_dir", "tool_root", "memory_cross_project", "memory_cross_database"} :
           IsText(Get(data, key, "default"))
      /\ AllowedToolsOK(Get(data, "allowed_tools", Null))
      /\ Get(data, "memory_adapter", "none") \in {"none", "inmemory", "simplemem_cross"}
      /\ AtLeast(Get(data, "memory_token_budget", 512), 1)
      /\ Has(data, "fake_model") => model = "fake" /\ FakeModelOK(data["fake_model"])
      /\ IsBool(Flag(data, "auto_approve"))
      /\ TiersOK(Get(data, "approval_required_tiers", Null))
      /\ BudgetsOK(Get(data, "budgets", Null))
      /\ AtLeast(Get(data, "sanitizer_max_chars", 4000), 1)
      /\ Get(data, "instructions", NoText) # Bad

\* The settings of a RunProfile that decide what a run may do.
ProfileOf(data) ==
  [model |-> Get(data, "model", "fake"),
   section |-> Get(data, Get(data, "model", "fake"), Null),
   allowed |-> Get(data, "allowed_tools", Null),
   memory_adapter |-> Get(data, "memory_adapter", "none"),
   auto_approve |-> Flag(data, "auto_approve"),
   tiers |-> TiersOf(Get(data, "approval_required_tiers", Null)),
   budgets |-> BudgetsOf(Get(data, "budgets", Null), DefaultBudgets),
   sanitizer_max_chars |-> Get(data, "sanitizer_max_chars", 4000),
   script |-> IF Has(data, "fake_model") THEN Get(data["fake_model"], "messages", Null) ELSE Null]

-----------------------------------------------------------------------------
\* tool_policy_for_profile: every starter tool, or the listed ones; a name that
\* is not a starter tool is a ProfileValidationError.
PolicyOK(profile) == profile.allowed # Null => profile.allowed \subseteq StarterTools
AllowedOf(profile) == IF profile.allowed = Null THEN StarterTools ELSE profile.allowed

\* inspect_policy_payload: what the operator is told of each allowed tool.
Effective(profile, tool) ==
  IF TierOf[tool] \notin profile.tiers \/ profile.auto_approve
  THEN "allow" ELSE "denied_without_approval"
PolicyPayload(profile) == [tool \in AllowedOf(profile) |-> Effective(profile, tool)]

-----------------------------------------------------------------------------
\* The places load_raw_profile looks for a name in, first hit first; "path" is
\* the specifier taken as a path, "bundled" the package's own profiles.
SearchOrder == <<"path", "profiles/json", "profiles/toml", ".naqsha/json", ".naqsha/toml",
                 "examples/json", "examples/toml", "docs/json", "docs/toml", "bundled">>
Hits(files) == {i \in 1..Len(SearchOrder) : SearchOrder[i] \in DOMAIN files}
Found(files) == files[SearchOrder[CHOOSE i \in Hits(files) : \A j \in Hits(files) : i <= j]]

\* load_run_profile: the profile, or why there is none.
LoadVerdict(files) ==
  CASE Hits(files) = {} -> "not found"
    [] Hits(files) # {} /\ Found(files) = Bad -> "unreadable"
    [] OTHER -> IF ProfileOK(Found(files)) THEN "loaded" ELSE "rejected"
==============================================================================

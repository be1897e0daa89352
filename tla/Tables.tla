------------------------------- MODULE Tables --------------------------------
(***************************************************************************)
(* What the two configuration parsers (orchestration/topology.py and       *)
(* profiles.py) share: the tables tomllib or json hand them, and the       *)
(* checks of one value.  A table is a function from keys.  A value of the  *)
(* wrong type is Bad, JSON's null is Null, the texts are strings, a TOML   *)
(* array of distinct names is a set.                                       *)
(***************************************************************************)
EXTENDS Integers

CONSTANTS
  Bad,           \* a value whose type is not the one the field asks for
  Null,          \* None: an absent key, or null in a JSON file
  Script,        \* the model scripts parse_nap_message accepts message by message
  StarterTools   \* starter_tool_names()

MemoryTools == {"memory_schema", "list_memory_tables"}
Tiers == {"read_only", "write", "high"}
Adapters == {"fake", "openai_compat", "anthropic", "gemini", "ollama"}
Remote == Adapters \ {"fake"}

\* The union of two tables, in which the first one wins, and a table of one key.
f ++ g == [key \in DOMAIN f \cup DOMAIN g |-> IF key \in DOMAIN f THEN f[key] ELSE g[key]]
Entry(key, v) == [k \in {key} |-> v]

Get(table, key, default) == IF key \in DOMAIN table THEN table[key] ELSE default
Flag(table, key) == Get(table, key, FALSE)
Has(table, key) == Get(table, key, Null) # Null

NoText == ""
IsTable(v) == v \notin {Bad, Null}
IsText(v) == v \notin {Bad, Null, NoText}
IsBool(v) == v \in BOOLEAN
AtLeast(v, least) == v \in Int /\ v >= least

TiersOK(v) == v # Null => v \notin {Bad, {}} /\ v \subseteq Tiers
TiersOf(v) == IF v = Null THEN {"write", "high"} ELSE v

BudgetKeys == {"max_steps", "max_tool_calls", "wall_clock_seconds",
               "per_tool_seconds", "max_model_tokens"}
DefaultBudgets ==
  [max_steps |-> 8, max_tool_calls |-> 16, wall_clock_seconds |-> 30,
   per_tool_seconds |-> 5, max_model_tokens |-> Null]

BudgetsOK(blob) ==
  blob # Null =>
    /\ IsTable(blob)
    /\ DOMAIN blob \subseteq BudgetKeys
    /\ \A key \in DOMAIN blob :
         \/ AtLeast(blob[key], 1)
         \/ key = "max_model_tokens" /\ blob[key] = Null
BudgetsOf(blob, defaults) == IF blob = Null THEN defaults ELSE blob ++ defaults

\* What is absent is none of the tables below, what has the wrong type no table
\* and no set of names, and neither is a text.
ASSUME NullAssumption ==
  Null \notin [BudgetKeys -> Int \cup {Null}] \cup [{"messages"} -> Script]
ASSUME BadAssumption ==
  /\ Bad \notin [BudgetKeys -> Int \cup {Null}]
  /\ \A names \in (SUBSET Tiers) \cup (SUBSET StarterTools) : names # Bad
  /\ {Bad, Null} \cap {NoText, "default", "model", "API_KEY", "url"} = {}

MessagesOK(messages) == messages \in Script \cup {Null}
FakeModelOK(blob) ==
  blob # Null => /\ IsTable(blob)
                 /\ DOMAIN blob \subseteq {"messages"}
                 /\ MessagesOK(Get(blob, "messages", Null))
==============================================================================

--------------------------- MODULE WorkspaceProofs ---------------------------
(***************************************************************************)
(* Theorems of module Workspace, for any agents, tools, profiles, form     *)
(* fields and any content a hand may leave in a file.                      *)
(***************************************************************************)
EXTENDS Workspace, TLAPS

-----------------------------------------------------------------------------
(* The profile file that init writes never replaces one.                   *)

LEMMA WithProfileKeeps ==
  ASSUME NEW name, NEW other \in DOMAIN profiles
  PROVE  WithProfile(name)[other] = profiles[other]
BY DEF WithProfile, ++, Entry

LEMMA BrokenLayoutKeeps ==
  ASSUME NEW name, NEW other \in DOMAIN profiles, LayoutBreaksOff(name)
  PROVE  profiles'[other] = profiles[other]
<1>1. (profiles ++ Entry(name, Bad))[other] = profiles[other]
  BY DEF ++, Entry
<1>2. QED BY <1>1, WithProfileKeeps DEF LayoutBreaksOff

\* Whatever is reported as initialised, and wherever init breaks off, every
\* profile that was there is as it was (project.py 54-64, cli.py 374-410).
THEOREM InitKeepsEveryProfile == Spec => InitKeepsProfiles
<1>1. ASSUME [Next]_vars, said' = "initialized" \/ (crashed = "no" /\ crashed' = "init"),
             NEW name \in DOMAIN profiles
      PROVE  profiles'[name] = profiles[name]
  <2>1. CASE UNCHANGED vars
    BY <2>1 DEF vars
  <2>2. CASE InitWithoutWizard
    BY <2>2, WithProfileKeeps, BrokenLayoutKeeps DEF InitWithoutWizard
  <2>3. CASE WizardSave
    BY <2>3, WithProfileKeeps, BrokenLayoutKeeps DEF WizardSave, WizardWrites, WizardBreaksOff
  <2>4. CASE Duplicate
    BY <2>4, <1>1 DEF Duplicate, Crash
  <2>5. CASE HandEditsProfile
    BY <2>5, <1>1 DEF HandEditsProfile
  <2>6. CASE Next /\ ~(InitWithoutWizard \/ WizardSave \/ Duplicate \/ HandEditsProfile)
    <3>1. UNCHANGED profiles
      BY <2>6 DEF Next, HandEditsToml, OpenWizard, WizardNext, WizardBack, WizardTemplate,
           WizardField, WizardQuit, OpenCenter, OpenEditor, EditorCancel, EditorSave,
           EditorReadsBack, Health, Query, ReplayLatest, CenterQuit, ProfileCommand, Restart, files
    <3>2. QED BY <3>1
  <2>7. QED BY <1>1, <2>1, <2>2, <2>3, <2>4, <2>5, <2>6
<1>2. [Next]_vars =>
        [said' = "initialized" \/ (crashed = "no" /\ crashed' = "init") =>
           \A name \in DOMAIN profiles : profiles'[name] = profiles[name]]_vars
  BY <1>1
<1>3. QED BY <1>2, PTL DEF Spec, InitKeepsProfiles

-----------------------------------------------------------------------------
(* What the editor and the wizard leave behind.  The wizard runs and the   *)
(* Command Center runs, but never both.                                    *)

\* The Command Center goes on with the topology of the file it saved itself,
\* through every interleaving with hands, health checks, queries and restarts
\* (command_center.py 722-727).
THEOREM CenterKeepsUpWithEditor == Spec => []CenterFollowsEditor
<1>1. Init => CenterFollowsEditor
  BY DEF Init, CenterFollowsEditor
<1>2. CenterFollowsEditor /\ [Next]_vars => CenterFollowsEditor'
  <2> SUFFICES ASSUME CenterFollowsEditor, [Next]_vars,
                      screen' \in {"center", "editor"}, writer' = "editor"
               PROVE  cached' = TopologyOf(toml')
    BY DEF CenterFollowsEditor
  <2> USE DEF CenterFollowsEditor
  <2>1. CASE EditorSave \/ EditorReadsBack
    BY <2>1 DEF EditorSave, EditorReadsBack, TakesTopology
  <2>2. CASE OpenCenter
    BY <2>2 DEF OpenCenter, files, Crash
  <2>3. CASE WizardSave \/ WizardQuit
    BY <2>3 DEF WizardSave, WizardQuit, CloseWizard
  <2>4. CASE HandEditsToml \/ HandEditsProfile
    BY <2>4 DEF HandEditsToml, HandEditsProfile
  <2>5. CASE InitWithoutWizard \/ OpenWizard
    BY <2>5 DEF InitWithoutWizard, OpenWizard, Crash
  <2>6. CASE WizardNext \/ WizardBack \/ WizardTemplate \/ WizardField
    BY <2>6 DEF WizardNext, WizardBack, WizardTemplate, WizardField, files
  <2>7. CASE OpenEditor \/ EditorCancel \/ Health \/ Query
    BY <2>7 DEF OpenEditor, EditorCancel, Health, Query, files, Crash
  <2>8. CASE ReplayLatest \/ Duplicate \/ CenterQuit \/ ProfileCommand \/ Restart
    BY <2>8 DEF ReplayLatest, Duplicate, CenterQuit, ProfileCommand, Restart, files, Crash
  <2>9. CASE UNCHANGED vars
    BY <2>9 DEF vars
  <2>10. QED BY <2>1, <2>2, <2>3, <2>4, <2>5, <2>6, <2>7, <2>8, <2>9 DEF Next
<1>3. QED BY <1>1, <1>2, PTL DEF Spec

-----------------------------------------------------------------------------
(* An accepted file, and the team it becomes.                              *)

LEMMA AcceptedFile ==
  ASSUME NEW content, FileAccepted(content)
  PROVE  Accepted(content)
BY DEF FileAccepted, FileVerdict, Verdict

LEMMA TeamOfFile ==
  ASSUME NEW doc, NEW id \in DOMAIN doc["agents"]
  PROVE  /\ TopologyOf(doc).agents[id] = AgentOf(doc, id)
         /\ DOMAIN TopologyOf(doc).agents = DOMAIN doc["agents"]
         /\ TopologyOf(doc).orchestrator = Orchestrator(doc)
BY DEF TopologyOf

\* The tools an agent is built with are the ones of its file.
LEMMA ToolsAsDeclared ==
  ASSUME NEW doc, Accepted(doc), DOMAIN doc["agents"] \subseteq AgentId,
         NEW id \in DOMAIN doc["agents"]
  PROVE  /\ BuiltTools(TopologyOf(doc), id) = ToolsOf(doc, id)
         /\ ToolsOf(doc, id) \cap DelegateName =
              IF id = Orchestrator(doc) THEN Delegates(doc) ELSE {}
<1>1. ToolsOK(doc, id)
  BY DEF Accepted, AgentOK
<1>2. Delegates(doc) \subseteq DelegateName
  BY TopologyAssumption DEF Delegates, Workers
<1>3. ToolsOf(doc, id) \subseteq StarterTools \cup MemoryTools \cup Delegates(doc)
  BY <1>1 DEF ToolsOK
<1>4. id # Orchestrator(doc) => ToolsOf(doc, id) \cap DelegateName = {}
  <2> SUFFICES ASSUME id # Orchestrator(doc)
               PROVE  ToolsOf(doc, id) \cap DelegateName = {}
    OBVIOUS
  <2>1. Get(doc["agents"][id], "tools", Null) # Null
    BY <1>1 DEF ToolsOK
  <2>2. Get(doc["agents"][id], "tools", Null) = doc["agents"][id]["tools"]
    BY <2>1 DEF Get
  <2>3. ToolsOf(doc, id) = doc["agents"][id]["tools"]
    BY DEF ToolsOf
  <2>4. QED BY <1>1, <2>2, <2>3 DEF ToolsOK
<1>5. id = Orchestrator(doc) => Delegates(doc) \subseteq ToolsOf(doc, id)
  BY DEF ToolsOf
<1>6. BuiltTools(TopologyOf(doc), id) =
        (ToolsOf(doc, id) \cap (StarterTools \cup MemoryTools)) \cup
        (IF id = Orchestrator(doc) THEN Delegates(doc) ELSE {})
  <2>1. TopologyOf(doc).agents[id].tools = ToolsOf(doc, id)
    <3>1. TopologyOf(doc).agents[id] = AgentOf(doc, id)
      BY TeamOfFile
    <3>2. AgentOf(doc, id).tools = ToolsOf(doc, id)
      BY DEF AgentOf
    <3>3. QED BY <3>1, <3>2
  <2>2. QED BY <2>1, TeamOfFile DEF BuiltTools, Delegates, Workers
<1>7. QED BY <1>2, <1>3, <1>4, <1>5, <1>6, TopologyAssumption

LEMMA BudgetsComplete ==
  ASSUME NEW doc, Accepted(doc), NEW id \in DOMAIN doc["agents"]
  PROVE  AgentOf(doc, id).budgets \in [BudgetKeys -> Int \cup {Null}]
<1> DEFINE agent == doc["agents"][id]
           blob == Get(agent, "budgets", Null)
           spare == [max_steps |-> Get(agent, "max_steps", 8),
                     max_model_tokens |-> Get(agent, "max_model_tokens", Null)]
                    ++ DefaultBudgets
<1>1. /\ AtLeast(Get(agent, "max_steps", 8), 1) /\ BudgetsOK(blob)
      /\ Get(agent, "max_model_tokens", Null) # Null =>
           AtLeast(Get(agent, "max_model_tokens", Null), 1)
  BY DEF Accepted, AgentOK
<1>2. spare \in [BudgetKeys -> Int \cup {Null}]
  BY <1>1 DEF ++, DefaultBudgets, BudgetKeys, AtLeast
<1> HIDE DEF spare, blob
<1>3. BudgetsOf(blob, spare) \in [BudgetKeys -> Int \cup {Null}]
  <2>1. CASE blob = Null
    BY <2>1, <1>2 DEF BudgetsOf
  <2>2. CASE blob # Null
    <3>1. \A key \in DOMAIN blob : key \in BudgetKeys /\ blob[key] \in Int \cup {Null}
      BY <1>1, <2>2 DEF BudgetsOK, AtLeast
    <3>2. QED BY <2>2, <3>1, <1>2 DEF BudgetsOf, ++
  <2>3. QED BY <2>1, <2>2
<1>4. QED BY <1>3 DEF AgentOf, spare, blob

\* What the agent's own Run Profile is parsed from says what the file says.
LEMMA DataAsDeclared ==
  ASSUME NEW team, NEW id
  PROVE  LET data == AgentData(team, id)
             agent == team.agents[id]
         IN  /\ Get(data, "model", "fake") = agent.model_adapter
             /\ Flag(data, "auto_approve") = team.auto_approve
             /\ Get(data, "approval_required_tiers", Null) = TiersFor(team, id)
             /\ Get(data, "budgets", Null) = agent.budgets
BY DEF AgentData, Get, Flag, ++

LEMMA ScriptAsDeclared ==
  ASSUME NEW doc, Accepted(doc), NEW id \in DOMAIN doc["agents"],
         NEW team, team.agents[id] = AgentOf(doc, id)
  PROVE  LET data == AgentData(team, id)
         IN  (IF Has(data, "fake_model") THEN Get(data["fake_model"], "messages", Null) ELSE Null)
               = team.agents[id].script
<1> DEFINE agent == doc["agents"][id]
           script == team.agents[id].script
           data == AgentData(team, id)
<1>1. script = ScriptOf(agent)
  BY DEF AgentOf
<1>2. script \in Script \cup {Null}
  <2>1. FakeModelOK(Get(agent, "fake_model", Null)) /\ MessagesOK(Get(agent, "fake_model_json", Null))
    BY DEF Accepted, AgentOK, ScriptOK
  <2>2. Has(agent, "fake_model") =>
          MessagesOK(Get(agent["fake_model"], "messages", Null))
    BY <2>1 DEF Has, Get, FakeModelOK
  <2>3. QED BY <1>1, <2>1, <2>2 DEF ScriptOf, MessagesOK
<1>3. CASE script = Null
  <2>1. "fake_model" \notin DOMAIN data
    <3>1. team.agents[id].section # Null => team.agents[id].model_adapter # "fake_model"
      <4>1. AdapterOf(agent) \in Adapters
        BY DEF Accepted, AgentOK, AdapterOK
      <4>2. team.agents[id].model_adapter = AdapterOf(agent)
        BY DEF AgentOf
      <4>3. QED BY <4>1, <4>2 DEF Adapters
    <3>2. QED BY <1>3, <3>1 DEF AgentData, ++, Entry
  <2>2. QED BY <2>1, <1>3 DEF Has, Get
<1>4. CASE script # Null
  <2>1. "fake_model" \in DOMAIN data /\ data["fake_model"] = [messages |-> script]
    BY <1>4 DEF AgentData, ++, Entry
  <2>2. [messages |-> script] \in [{"messages"} -> Script]
    BY <1>2, <1>4
  <2>3. [messages |-> script] # Null
    BY <2>2, NullAssumption
  <2>4. QED BY <2>1, <2>3 DEF Has, Get
<1>5. QED BY <1>3, <1>4

LEMMA ProfileAsDeclared ==
  ASSUME NEW doc, Accepted(doc), NEW id \in DOMAIN doc["agents"]
  PROVE  LET team == TopologyOf(doc)
             agent == team.agents[id]
             profile == AgentProfile(team, id)
         IN  /\ profile.allowed = agent.tools
             /\ profile.budgets = agent.budgets /\ profile.script = agent.script
             /\ profile.tiers = TiersFor(team, id)
             /\ profile.auto_approve = team.auto_approve
             /\ profile.model = agent.model_adapter
<1> DEFINE team == TopologyOf(doc)
           agent == team.agents[id]
           data == AgentData(team, id)
           profile == AgentProfile(team, id)
<1>1. agent = AgentOf(doc, id)
  BY TeamOfFile
<1>2. profile.allowed = agent.tools
  BY DEF AgentProfile, ProfileOf
<1>3. profile.budgets = agent.budgets
  <2>1. agent.budgets \in [BudgetKeys -> Int \cup {Null}]
    BY <1>1, BudgetsComplete
  <2>2. Get(data, "budgets", Null) = agent.budgets
    BY DataAsDeclared
  <2>3. profile.budgets = BudgetsOf(agent.budgets, DefaultBudgets)
    BY <2>2 DEF AgentProfile, ProfileOf
  <2>4. agent.budgets # Null
    BY <2>1, NullAssumption
  <2>5. DOMAIN DefaultBudgets = BudgetKeys
    BY DEF DefaultBudgets, BudgetKeys
  <2> HIDE DEF agent
  <2>6. agent.budgets ++ DefaultBudgets = agent.budgets
    BY <2>1, <2>5 DEF ++
  <2>7. QED BY <2>3, <2>4, <2>6 DEF BudgetsOf
<1>4. profile.script = agent.script
  BY <1>1, ScriptAsDeclared DEF AgentProfile, ProfileOf
<1>5. profile.tiers = TiersFor(team, id)
  <2>1. Get(data, "approval_required_tiers", Null) = TiersFor(team, id)
    BY DataAsDeclared
  <2>2. profile.tiers = TiersOf(TiersFor(team, id))
    BY <2>1 DEF AgentProfile, ProfileOf
  <2>3. team.tiers = TiersOf(Get(doc["workspace"], "approval_required_tiers", Null))
    BY DEF TopologyOf
  <2>4. QED BY <2>2, <2>3 DEF TiersFor, TiersOf
<1>6. profile.auto_approve = team.auto_approve /\ profile.model = agent.model_adapter
  <2>1. Flag(data, "auto_approve") = team.auto_approve
    BY DataAsDeclared
  <2>2. profile.auto_approve = Flag(data, "auto_approve")
    BY Zenon DEF AgentProfile, ProfileOf
  <2>3. profile.model = agent.model_adapter
    BY DataAsDeclared DEF AgentProfile, ProfileOf
  <2>4. QED BY ONLY <2>1, <2>2, <2>3
<1>7. QED BY <1>2, <1>3, <1>4, <1>5, <1>6

-----------------------------------------------------------------------------
(* Whatever is in naqsha.toml, and in the editor's screen, names agents    *)
(* that have a delegate.                                                   *)
IdsKnown(content) == FileAccepted(content) => DOMAIN content["agents"] \subseteq AgentId
FilesAreKnown == IdsKnown(toml) /\ IdsKnown(draft)

LEMMA AbsentIsKnown == IdsKnown(Absent)
BY DEF IdsKnown, FileAccepted, FileVerdict

LEMMA HandEditsAreKnown == \A content \in HandEdits \cup CutOffs : IdsKnown(content)
BY WorkspaceAssumption DEF IdsKnown

LEMMA RenderedIsKnown ==
  ASSUME NEW f, WizardAccepts(f)
  PROVE  IdsKnown(Rendered(f))
<1>1. DOMAIN Rendered(f)["agents"] = {TeamIds[i] : i \in 1..f.agents}
  BY DEF Rendered
<1>2. f.agents \in 2..8
  BY DEF WizardAccepts, Renders
<1>3. \A i \in 1..8 : TeamIds[i] \in Range(TeamIds)
  BY DEF TeamIds, Range
<1>4. QED BY <1>1, <1>2, <1>3, WorkspaceAssumption DEF IdsKnown

LEMMA KnownInitially == Init => FilesAreKnown
BY AbsentIsKnown DEF Init, FilesAreKnown

LEMMA StaysKnown == FilesAreKnown /\ [Next]_vars => FilesAreKnown'
<1> SUFFICES ASSUME FilesAreKnown, [Next]_vars
             PROVE  IdsKnown(toml') /\ IdsKnown(draft')
  BY DEF FilesAreKnown, IdsKnown, FileAccepted, FileVerdict
<1>1. IdsKnown(toml) /\ IdsKnown(draft)
  BY DEF FilesAreKnown
<1>2. CASE HandEditsToml
  BY <1>1, <1>2, HandEditsAreKnown DEF HandEditsToml
<1>3. CASE WizardSave
  BY <1>1, <1>3, RenderedIsKnown, HandEditsAreKnown
  DEF WizardSave, WizardWrites, WizardBreaksOff
<1>4. CASE EditorSave
  <2>1. IdsKnown(draft')
    BY <1>4, AbsentIsKnown DEF EditorSave
  <2>2. IdsKnown(toml')
    BY <1>1, <1>4, HandEditsAreKnown DEF EditorSave
  <2>3. QED BY <2>1, <2>2
<1>5. CASE OpenEditor \/ EditorCancel
  BY <1>1, <1>5, AbsentIsKnown DEF OpenEditor, EditorCancel, files
<1>6. CASE UNCHANGED <<toml, draft>>
  BY <1>1, <1>6
<1>7. CASE Next /\ ~(HandEditsToml \/ WizardSave \/ EditorSave \/ OpenEditor \/ EditorCancel)
  <2>1. UNCHANGED <<toml, draft>>
    BY <1>7 DEF Next, HandEditsProfile, InitWithoutWizard, OpenWizard, WizardNext, WizardBack,
         WizardTemplate, WizardField, WizardQuit, OpenCenter, EditorReadsBack, Health, Query,
         ReplayLatest, Duplicate, CenterQuit, ProfileCommand, Restart, files
  <2>2. QED BY <2>1, <1>6
<1>8. CASE UNCHANGED vars
  BY <1>6, <1>8 DEF vars
<1>9. QED BY <1>2, <1>3, <1>4, <1>5, <1>7, <1>8

\* A worker no delegate runs has given its delegate's name to one that is run.
LEMMA UnreachedWorker ==
  ASSUME NEW doc, Accepted(doc), DOMAIN doc["agents"] \subseteq AgentId,
         NEW w \in Workers(doc)
  PROVE  \E v \in Workers(doc) \cap Reached(TopologyOf(doc)) : Delegate[v] = Delegate[w]
<1> DEFINE team == TopologyOf(doc)
           v == DelegateRuns(team, Delegate[w])
<1>1. DOMAIN team.agents = DOMAIN doc["agents"] /\ team.orchestrator = Orchestrator(doc)
  BY DEF TopologyOf
<1>2. Workers(doc) = DOMAIN team.agents \ {team.orchestrator}
  BY <1>1 DEF Workers
<1>3. v \in Workers(doc) /\ Delegate[v] = Delegate[w]
  BY <1>2, Zenon DEF DelegateRuns
<1>4. Delegate[w] \in BuiltTools(team, team.orchestrator) \cap DelegateName
  BY <1>2, TopologyAssumption DEF BuiltTools, Workers
<1>5. v \in Reached(team)
  BY <1>4 DEF Reached
<1>6. QED BY <1>3, <1>5

\* Every agent of every accepted file is wired with the tools and the budgets
\* the file gives it, only the orchestrator can delegate, and it reaches every
\* worker but those whose delegate's name another one has taken (team_runtime.py
\* 36-175).
THEOREM WiringIsFaithful == Spec => []WiredAsDeclared
<1>1. FilesAreKnown => WiredAsDeclared
  <2> SUFFICES ASSUME FilesAreKnown, FileAccepted(toml)
               PROVE  WiredAsDeclared
    BY DEF WiredAsDeclared
  <2>1. Accepted(toml) /\ DOMAIN toml["agents"] \subseteq AgentId
    BY AcceptedFile DEF FilesAreKnown, IdsKnown
  <2>2. ASSUME NEW id \in DOMAIN TopologyOf(toml).agents
        PROVE  LET team == TopologyOf(toml)
                   agent == team.agents[id]
               IN  /\ MissingTools(team, id) = {}
                   /\ BuiltTools(team, id) = agent.tools
                   /\ agent.tools \cap DelegateName =
                        (IF id = team.orchestrator THEN Delegates(toml) ELSE {})
                   /\ ProfileOK(AgentData(team, id)) =>
                        LET profile == AgentProfile(team, id)
                        IN  /\ profile.allowed = agent.tools
                            /\ profile.budgets = agent.budgets
                            /\ profile.script = agent.script
                            /\ profile.tiers = TiersFor(team, id)
                            /\ profile.auto_approve = team.auto_approve
                            /\ profile.model = agent.model_adapter
    <3>1. id \in DOMAIN toml["agents"]
      BY DEF TopologyOf
    <3>2. /\ TopologyOf(toml).agents[id] = AgentOf(toml, id)
          /\ TopologyOf(toml).orchestrator = Orchestrator(toml)
      BY <3>1, TeamOfFile
    <3>3. TopologyOf(toml).agents[id].tools = ToolsOf(toml, id)
      BY <3>2 DEF AgentOf
    <3>4. /\ BuiltTools(TopologyOf(toml), id) = ToolsOf(toml, id)
          /\ ToolsOf(toml, id) \cap DelegateName =
               IF id = Orchestrator(toml) THEN Delegates(toml) ELSE {}
      BY <2>1, <3>1, ToolsAsDeclared
    <3>5. MissingTools(TopologyOf(toml), id) = {}
      BY <3>3, <3>4 DEF MissingTools
    <3>6. QED BY <2>1, <3>1, <3>2, <3>3, <3>4, <3>5, ProfileAsDeclared
  <2>3. \A w \in Workers(toml) \ Reached(TopologyOf(toml)) :
          \E v \in Workers(toml) \cap Reached(TopologyOf(toml)) : Delegate[v] = Delegate[w]
    BY <2>1, UnreachedWorker
  <2>4. QED BY <2>2, <2>3 DEF WiredAsDeclared
<1>2. QED BY <1>1, KnownInitially, StaysKnown, PTL DEF Spec

-----------------------------------------------------------------------------
(* What the wizard writes can be wired: the parser of naqsha.toml and the  *)
(* parser of Run Profiles agree on every file it renders.                  *)

LEMMA ATextIsAText ==
  /\ NoText # Bad
  /\ \A v \in {"model", "API_KEY", "url", "default"} : IsText(v) /\ v # Bad
<1>1. "model" # "" /\ "API_KEY" # "" /\ "url" # "" /\ "default" # ""
  BY Zenon
<1>2. \A v \in {"model", "API_KEY", "url", "default"} : v # NoText
  BY <1>1, Zenon DEF NoText
<1>3. QED BY <1>2, BadAssumption DEF IsText

\* A section the wizard writes has only keys of its adapter, and good values.
LEMMA SectionIsGood ==
  ASSUME NEW f, NEW isOrch, f.adapter \in Remote,
         IsTable(AgentTable(f, isOrch)[f.adapter])
  PROVE  SectionOK(f.adapter, AgentTable(f, isOrch)[f.adapter])
<1> DEFINE adapter == f.adapter
           section == [model |-> "model", timeout_seconds |-> 120]
                      ++ (IF adapter = "ollama" THEN <<>> ELSE [api_key_env |-> "API_KEY"])
                      ++ (IF adapter \in {"ollama", "openai_compat"}
                          THEN [base_url |-> "url"] ELSE <<>>)
<1>1. adapter # "fake" /\ adapter \notin {"role", "model_adapter", "tools", "max_retries", "budgets"}
  BY DEF Remote, Adapters
<1>2. AgentTable(f, isOrch)[adapter] = section
  <2>1. AdapterSection(adapter) = Entry(adapter, section)
    BY <1>1, Zenon DEF AdapterSection
  <2> HIDE DEF section
  <2>2. QED BY <1>1, <2>1 DEF AgentTable, Entry, ++
<1>3. DOMAIN section \subseteq {"base_url", "model", "api_key_env", "timeout_seconds"}
  BY DEF ++
<1>4. \A key \in DOMAIN section :
        /\ key = "timeout_seconds" => section[key] = 120
        /\ key # "timeout_seconds" => section[key] \in {"model", "API_KEY", "url"}
  BY DEF ++
<1> HIDE DEF section
<1>5. \A v \in {"model", "API_KEY", "url"} : IsText(v) /\ v # Bad
  BY ATextIsAText
<1>6. \A key \in DOMAIN section : SectionFieldOK(adapter, key, section[key])
  BY <1>3, <1>4, <1>5 DEF SectionFieldOK, AtLeast
<1>7. QED BY <1>2, <1>3, <1>6 DEF SectionOK, SectionKeys

\* An agent's table, as the wizard writes it.
LEMMA RenderedAgent ==
  ASSUME NEW f, NEW id \in DOMAIN Rendered(f)["agents"]
  PROVE  LET agent == Rendered(f)["agents"][id]
         IN  /\ agent = AgentTable(f, id = TeamIds[1])
             /\ DOMAIN agent = {"role", "model_adapter", "tools", "max_retries", "budgets"}
                               \cup (IF f.adapter = "fake" THEN {} ELSE {f.adapter})
             /\ agent["model_adapter"] = f.adapter
<1>1. Rendered(f)["agents"][id] = AgentTable(f, id = TeamIds[1])
  BY DEF Rendered
<1>2. \A isOrch :
        /\ DOMAIN AgentTable(f, isOrch) =
             {"role", "model_adapter", "tools", "max_retries", "budgets"}
             \cup (IF f.adapter = "fake" THEN {} ELSE {f.adapter})
        /\ AgentTable(f, isOrch)["model_adapter"] = f.adapter
  BY DEF AgentTable, AdapterSection, Entry, ++
<1>3. QED BY <1>1, <1>2

\* The budgets of an agent of an accepted file are budgets of a profile.
LEMMA BudgetsAreGood ==
  ASSUME NEW doc, Accepted(doc), NEW id \in DOMAIN doc["agents"]
  PROVE  BudgetsOK(AgentOf(doc, id).budgets)
<1> DEFINE agent == doc["agents"][id]
           blob == Get(agent, "budgets", Null)
           spare == [max_steps |-> Get(agent, "max_steps", 8),
                     max_model_tokens |-> Get(agent, "max_model_tokens", Null)]
                    ++ DefaultBudgets
           budgets == BudgetsOf(blob, spare)
           Good(key, v) == AtLeast(v, 1) \/ (key = "max_model_tokens" /\ v = Null)
<1>1. /\ AtLeast(Get(agent, "max_steps", 8), 1) /\ BudgetsOK(blob)
      /\ Get(agent, "max_model_tokens", Null) # Null =>
           AtLeast(Get(agent, "max_model_tokens", Null), 1)
  BY DEF Accepted, AgentOK
<1>2. AgentOf(doc, id).budgets = budgets
  BY DEF AgentOf
<1>3. budgets # Bad
  BY <1>2, BudgetsComplete, BadAssumption
<1>4. budgets # Null
  BY <1>2, BudgetsComplete, NullAssumption
<1>5. DOMAIN spare = BudgetKeys /\ \A key \in BudgetKeys : Good(key, spare[key])
  BY <1>1 DEF ++, DefaultBudgets, BudgetKeys, AtLeast
<1>6. blob # Null => DOMAIN blob \subseteq BudgetKeys /\ \A key \in DOMAIN blob : Good(key, blob[key])
  BY <1>1 DEF BudgetsOK
<1> HIDE DEF spare, blob, Good
<1>7. DOMAIN budgets = BudgetKeys /\ \A key \in BudgetKeys : Good(key, budgets[key])
  <2>1. CASE blob = Null
    BY <2>1, <1>5 DEF BudgetsOf
  <2>2. CASE blob # Null
    BY <2>2, <1>5, <1>6 DEF BudgetsOf, ++
  <2>3. QED BY <2>1, <2>2
<1> HIDE DEF budgets
<1>8. QED BY <1>2, <1>3, <1>4, <1>7 DEF BudgetsOK, IsTable, Good

\* What the Run Profile of an agent without a script is parsed from.
PlainKeys == {"name", "model", "memory_adapter", "memory_token_budget", "auto_approve",
              "sanitizer_max_chars", "approval_required_tiers", "budgets"}
LEMMA DataOfAgent ==
  ASSUME NEW team, NEW id, team.agents[id].script = Null,
         team.agents[id].model_adapter \in Adapters
  PROVE  LET data == AgentData(team, id)
             agent == team.agents[id]
             listed == agent.tools \ (DelegateName \cup MemoryTools)
         IN  /\ DOMAIN data = PlainKeys
                  \cup (IF agent.section = Null THEN {} ELSE {agent.model_adapter})
                  \cup (IF listed = {} THEN {} ELSE {"allowed_tools"})
             /\ data["name"] = id /\ data["model"] = agent.model_adapter
             /\ data["memory_adapter"] = "none" /\ data["memory_token_budget"] = 512
             /\ data["auto_approve"] = team.auto_approve
             /\ data["sanitizer_max_chars"] = team.sanitizer_max_chars
             /\ data["approval_required_tiers"] = TiersFor(team, id)
             /\ data["budgets"] = agent.budgets
             /\ agent.section # Null => data[agent.model_adapter] = agent.section
             /\ listed # {} => data["allowed_tools"] = listed
<1> DEFINE agent == team.agents[id]
           listed == agent.tools \ (DelegateName \cup MemoryTools)
           plain == [name |-> id, model |-> agent.model_adapter, memory_adapter |-> "none",
                memory_token_budget |-> 512, auto_approve |-> team.auto_approve,
                sanitizer_max_chars |-> team.sanitizer_max_chars,
                approval_required_tiers |-> TiersFor(team, id), budgets |-> agent.budgets]
           section == IF agent.section = Null THEN <<>> ELSE Entry(agent.model_adapter, agent.section)
           tools == IF listed = {} THEN <<>> ELSE Entry("allowed_tools", listed)
           data == AgentData(team, id)
<1>1. data = plain ++ <<>> ++ section ++ tools
  BY DEF AgentData
<1>2. agent.model_adapter \notin PlainKeys \cup {"allowed_tools"} /\ "allowed_tools" \notin PlainKeys
  BY DEF Adapters, PlainKeys
<1>3. /\ DOMAIN plain = PlainKeys
      /\ plain["name"] = id /\ plain["model"] = agent.model_adapter
      /\ plain["memory_adapter"] = "none" /\ plain["memory_token_budget"] = 512
      /\ plain["auto_approve"] = team.auto_approve
      /\ plain["sanitizer_max_chars"] = team.sanitizer_max_chars
      /\ plain["approval_required_tiers"] = TiersFor(team, id)
      /\ plain["budgets"] = agent.budgets
  BY DEF PlainKeys
<1>4. /\ DOMAIN section = IF agent.section = Null THEN {} ELSE {agent.model_adapter}
      /\ agent.section # Null => section[agent.model_adapter] = agent.section
      /\ DOMAIN tools = IF listed = {} THEN {} ELSE {"allowed_tools"}
      /\ listed # {} => tools["allowed_tools"] = listed
  BY DEF Entry
<1> HIDE DEF plain, section, tools, data
<1>5. DOMAIN data = DOMAIN plain \cup DOMAIN section \cup DOMAIN tools
  BY <1>1 DEF ++
<1>6. /\ \A key \in DOMAIN plain : data[key] = plain[key]
      /\ \A key \in DOMAIN section \ DOMAIN plain : data[key] = section[key]
      /\ \A key \in DOMAIN tools \ (DOMAIN section \cup DOMAIN plain) : data[key] = tools[key]
  BY <1>1 DEF ++
<1>7. \A key \in PlainKeys : data[key] = plain[key]
  BY <1>3, <1>6
<1>8. agent.section # Null => data[agent.model_adapter] = agent.section
  BY <1>2, <1>3, <1>4, <1>6
<1>9. listed # {} => data["allowed_tools"] = listed
  BY <1>2, <1>3, <1>4, <1>6
<1>10. {"name", "model", "memory_adapter", "memory_token_budget", "auto_approve",
        "sanitizer_max_chars", "approval_required_tiers", "budgets"} \subseteq PlainKeys
  BY DEF PlainKeys
<1>11. /\ data["name"] = id /\ data["model"] = agent.model_adapter
       /\ data["memory_adapter"] = "none" /\ data["memory_token_budget"] = 512
       /\ data["auto_approve"] = team.auto_approve
       /\ data["sanitizer_max_chars"] = team.sanitizer_max_chars
       /\ data["approval_required_tiers"] = TiersFor(team, id)
       /\ data["budgets"] = agent.budgets
  BY <1>3, <1>7, <1>10
<1>12. DOMAIN data = PlainKeys \cup (IF agent.section = Null THEN {} ELSE {agent.model_adapter})
                     \cup (IF listed = {} THEN {} ELSE {"allowed_tools"})
  BY <1>3, <1>4, <1>5
<1>13. QED BY <1>8, <1>9, <1>11, <1>12, Zenon DEF data

\* The parser of Run Profiles accepts such data of good values.
LEMMA PlainProfileIsGood ==
  ASSUME NEW data, NEW model \in Adapters, NEW section, NEW listed,
         DOMAIN data = PlainKeys \cup (IF section = Null THEN {} ELSE {model})
                       \cup (IF listed = {} THEN {} ELSE {"allowed_tools"}),
         IsText(data["name"]), data["model"] = model, data["memory_adapter"] = "none",
         data["memory_token_budget"] = 512, IsBool(data["auto_approve"]),
         AtLeast(data["sanitizer_max_chars"], 1), TiersOK(data["approval_required_tiers"]),
         BudgetsOK(data["budgets"]),
         section # Null => model # "fake" /\ data[model] = section /\ SectionOK(model, section),
         listed # {} => data["allowed_tools"] = listed,
         listed \subseteq StarterTools
  PROVE  ProfileOK(data)
<1>1. \A key \in PlainKeys : \A default : Get(data, key, default) = data[key]
  BY DEF Get
<1>2. \A key : \A default : key \notin DOMAIN data => Get(data, key, default) = default
  BY DEF Get
<1>3. {"name", "model", "memory_adapter", "memory_token_budget", "auto_approve",
       "sanitizer_max_chars", "approval_required_tiers", "budgets"} \subseteq PlainKeys
  BY DEF PlainKeys
<1>4. DOMAIN data \subseteq ProfileKeys
  BY DEF PlainKeys, ProfileKeys, Remote, Adapters
<1>5. {"trace_dir", "tool_root", "memory_cross_project", "memory_cross_database", "fake_model",
       "instructions"} \cap DOMAIN data = {}
  BY DEF PlainKeys, Adapters
<1>6. IsText("default") /\ NoText # Bad
  BY ATextIsAText
<1>7. ~Has(data, "fake_model")
  BY <1>2, <1>5 DEF Has
<1>8. \A a \in Remote : Has(data, a) => a = model /\ SectionOK(a, data[a])
  <2> SUFFICES ASSUME NEW a \in Remote, Has(data, a)
               PROVE  a = model /\ SectionOK(a, data[a])
    OBVIOUS
  <2>1. a \in DOMAIN data
    BY <1>2 DEF Has
  <2>2. a \notin PlainKeys \cup {"allowed_tools"}
    BY DEF PlainKeys, Remote, Adapters
  <2>3. section # Null /\ a = model
    BY <2>1, <2>2
  <2>4. QED BY <2>3
<1>9. AllowedToolsOK(Get(data, "allowed_tools", Null))
  <2>1. "allowed_tools" \notin PlainKeys \cup {model}
    BY DEF PlainKeys, Adapters
  <2>2. CASE listed = {}
    <3>1. "allowed_tools" \notin DOMAIN data
      BY <2>1, <2>2
    <3>2. QED BY <1>2, <3>1 DEF AllowedToolsOK
  <2>3. CASE listed # {}
    <3>1. Get(data, "allowed_tools", Null) = listed
      BY <2>3 DEF Get
    <3>2. listed # Bad
      BY BadAssumption
    <3>3. QED BY <2>3, <3>1, <3>2 DEF AllowedToolsOK
  <2>4. QED BY <2>2, <2>3
<1>10. Get(data, "model", "fake") = model
  BY <1>1, <1>3
<1>11. /\ IsText(Get(data, "name", "unnamed"))
       /\ Get(data, "memory_adapter", "none") \in {"none", "inmemory", "simplemem_cross"}
       /\ AtLeast(Get(data, "memory_token_budget", 512), 1)
       /\ IsBool(Flag(data, "auto_approve"))
       /\ TiersOK(Get(data, "approval_required_tiers", Null))
       /\ BudgetsOK(Get(data, "budgets", Null))
       /\ AtLeast(Get(data, "sanitizer_max_chars", 4000), 1)
  <2>1. /\ Get(data, "name", "unnamed") = data["name"]
        /\ Get(data, "memory_adapter", "none") = "none"
        /\ Get(data, "memory_token_budget", 512) = 512
        /\ Get(data, "approval_required_tiers", Null) = data["approval_required_tiers"]
        /\ Get(data, "budgets", Null) = data["budgets"]
        /\ Get(data, "sanitizer_max_chars", 4000) = data["sanitizer_max_chars"]
    BY <1>1, <1>3
  <2>2. Flag(data, "auto_approve") = data["auto_approve"]
    <3>1. "auto_approve" \in DOMAIN data
      BY <1>3
    <3>2. QED BY <3>1, Zenon DEF Flag, Get
  <2>3. AtLeast(512, 1)
    BY DEF AtLeast
  <2>4. IsBool(Flag(data, "auto_approve"))
    BY ONLY <2>2, IsBool(data["auto_approve"]), Zenon
  <2>5. IsText(Get(data, "name", "unnamed"))
    BY ONLY <2>1, IsText(data["name"])
  <2>6. /\ TiersOK(Get(data, "approval_required_tiers", Null))
        /\ BudgetsOK(Get(data, "budgets", Null))
        /\ AtLeast(Get(data, "sanitizer_max_chars", 4000), 1)
    BY <2>1
  <2>7. AtLeast(Get(data, "memory_token_budget", 512), 1)
    BY ONLY <2>1, <2>3
  <2>8. Get(data, "memory_adapter", "none") \in {"none", "inmemory", "simplemem_cross"}
    BY ONLY <2>1
  <2>9. QED BY ONLY <2>4, <2>5, <2>6, <2>7, <2>8
<1>12. /\ \A key \in {"trace_dir", "tool_root", "memory_cross_project", "memory_cross_database"} :
            IsText(Get(data, key, "default"))
       /\ Get(data, "instructions", NoText) # Bad
  BY <1>2, <1>5, <1>6
<1>13. Get(data, "model", "fake") \in Adapters
  BY <1>10
<1>14. \A a \in Remote : Has(data, a) => a = Get(data, "model", "fake") /\ SectionOK(a, data[a])
  BY <1>8, <1>10
<1>15. QED BY ONLY <1>4, <1>7, <1>9, <1>11, <1>12, <1>13, <1>14 DEF ProfileOK

\* Of an accepted file that names no script and no tiers for an agent, and
\* whose section for it a profile can have, the agent can be wired.
LEMMA AgentIsGood ==
  ASSUME NEW doc, Accepted(doc), DOMAIN doc["agents"] \subseteq AgentId,
         NEW id \in DOMAIN doc["agents"], id \notin {Bad, Null},
         DOMAIN doc["agents"][id] \cap
           {"fake", "fake_model", "fake_model_json", "approval_required_tiers"} = {},
         \A a \in Remote : a \in DOMAIN doc["agents"][id] =>
           (IsTable(doc["agents"][id][a]) => SectionOK(a, doc["agents"][id][a]))
  PROVE  AgentBuilds(TopologyOf(doc), id)
<1> DEFINE team == TopologyOf(doc)
           agent == doc["agents"][id]
           data == AgentData(team, id)
           model == AdapterOf(agent)
           section == Get(agent, model, Null)
           listed == ToolsOf(doc, id) \ (DelegateName \cup MemoryTools)
           ws == doc["workspace"]
           budgets == AgentOf(doc, id).budgets
<1>1. team.agents[id] = AgentOf(doc, id)
  BY TeamOfFile
<1>2. /\ AgentOf(doc, id).model_adapter = model /\ AgentOf(doc, id).tools = ToolsOf(doc, id)
      /\ AgentOf(doc, id).section = section /\ AgentOf(doc, id).tiers = Null
      /\ AgentOf(doc, id).script = Null
  BY DEF AgentOf, ScriptOf, Has, Get
<1>3. AgentOK(doc, id) /\ WorkspaceOK(ws) /\ AdapterOK(agent)
  <2>1. AgentOK(doc, id)
    BY DEF Accepted
  <2>2. WorkspaceOK(Get(doc, "workspace", Null))
    BY DEF Accepted
  <2>3. Get(doc, "workspace", Null) # Null
    BY <2>2 DEF WorkspaceOK, IsTable
  <2>4. Get(doc, "workspace", Null) = ws
    BY <2>3 DEF Get
  <2>5. QED BY <2>1, <2>2, <2>4 DEF AgentOK
<1>4. model \in Adapters
  BY <1>3 DEF AdapterOK
<1>5. /\ team.auto_approve = Flag(ws, "auto_approve")
      /\ team.sanitizer_max_chars = Get(ws, "sanitizer_max_chars", 4000)
      /\ TiersFor(team, id) = TiersOf(Get(ws, "approval_required_tiers", Null))
  <2>1. /\ team.auto_approve = Flag(ws, "auto_approve")
        /\ team.sanitizer_max_chars = Get(ws, "sanitizer_max_chars", 4000)
        /\ team.tiers = TiersOf(Get(ws, "approval_required_tiers", Null))
    BY DEF TopologyOf
  <2>2. TiersFor(team, id) = team.tiers
    BY <1>1, <1>2 DEF TiersFor
  <2>3. QED BY <2>1, <2>2
<1>6. TiersOK(TiersFor(team, id))
  <2>1. TiersOK(Get(ws, "approval_required_tiers", Null))
    BY <1>3 DEF WorkspaceOK
  <2>2. TiersOK({"write", "high"})
    BY BadAssumption DEF TiersOK, Tiers
  <2>3. TiersFor(team, id) \in {{"write", "high"}, Get(ws, "approval_required_tiers", Null)}
    BY <1>5 DEF TiersOf
  <2>4. QED BY <2>1, <2>2, <2>3
<1>7. listed \subseteq StarterTools
  <2>1. ToolsOf(doc, id) \subseteq StarterTools \cup MemoryTools \cup Delegates(doc)
    BY <1>3 DEF AgentOK, ToolsOK
  <2>2. Delegates(doc) \subseteq DelegateName
    BY TopologyAssumption DEF Delegates, Workers
  <2>3. QED BY <2>1, <2>2
<1>8. section # Null => model # "fake" /\ SectionOK(model, section)
  <2> SUFFICES ASSUME section # Null
               PROVE  model # "fake" /\ SectionOK(model, section)
    OBVIOUS
  <2>1. model \in DOMAIN agent /\ section = agent[model]
    BY DEF Get
  <2>2. model # "fake"
    BY <2>1
  <2>3. model \in Remote
    BY <1>4, <2>2 DEF Remote
  <2>4. Has(agent, model)
    BY DEF Has
  <2>5. IsTable(agent[model])
    BY <1>3, <2>3, <2>4 DEF AdapterOK
  <2>6. QED BY <2>1, <2>2, <2>3, <2>5
<1>9. BudgetsOK(budgets)
  BY BudgetsAreGood
<1>10. IsText(id)
  BY <1>3 DEF AgentOK, IsText
<1>11. IsBool(team.auto_approve) /\ AtLeast(team.sanitizer_max_chars, 1)
  <2>1. IsBool(Flag(ws, "auto_approve")) /\ AtLeast(Get(ws, "sanitizer_max_chars", 4000), 1)
    BY <1>3 DEF WorkspaceOK
  <2>2. IsBool(team.auto_approve)
    BY ONLY <1>5, <2>1
  <2>3. AtLeast(team.sanitizer_max_chars, 1)
    BY ONLY <1>5, <2>1
  <2>4. QED BY <2>2, <2>3
<1>12. ProfileOK(data)
  <2> HIDE DEF team, model, section, listed, budgets, data
  <2>1. /\ DOMAIN data = PlainKeys \cup (IF section = Null THEN {} ELSE {model})
                         \cup (IF listed = {} THEN {} ELSE {"allowed_tools"})
        /\ data["name"] = id /\ data["model"] = model
        /\ data["memory_adapter"] = "none" /\ data["memory_token_budget"] = 512
        /\ data["auto_approve"] = team.auto_approve
        /\ data["sanitizer_max_chars"] = team.sanitizer_max_chars
        /\ data["approval_required_tiers"] = TiersFor(team, id)
        /\ data["budgets"] = budgets
        /\ section # Null => data[model] = section
        /\ listed # {} => data["allowed_tools"] = listed
    <3>1. /\ team.agents[id].script = Null /\ team.agents[id].model_adapter = model
          /\ team.agents[id].section = section /\ team.agents[id].budgets = budgets
          /\ team.agents[id].tools = ToolsOf(doc, id)
      BY <1>1, <1>2 DEF budgets
    <3>2. team.agents[id].model_adapter \in Adapters
      BY <1>4, <3>1
    <3> HIDE <1>1, <1>2, <1>3, <1>4, <1>5, <1>6, <1>7, <1>8, <1>9, <1>10, <1>11
    <3>3. QED BY <3>1, <3>2, DataOfAgent DEF data, listed
  <2>2. QED BY <1>4, <1>6, <1>7, <1>8, <1>9, <1>10, <1>11, <2>1, PlainProfileIsGood
<1>13. MissingTools(team, id) = {}
  BY <1>1, <1>2, ToolsAsDeclared DEF MissingTools
<1>14. QED BY <1>12, <1>13 DEF AgentBuilds

\* Every agent of a file the wizard wrote can be wired, and its memory opens
\* unless it asks for embeddings.
LEMMA RenderedBuilds ==
  ASSUME NEW f, Accepted(Rendered(f)), f.agents \in 2..8,
         DOMAIN Rendered(f)["agents"] \subseteq AgentId
  PROVE  LET team == TopologyOf(Rendered(f))
         IN  /\ \A id \in DOMAIN team.agents : AgentBuilds(team, id)
             /\ team.memory.type = "sqlite"
<1> DEFINE doc == Rendered(f)
           team == TopologyOf(doc)
<1>1. ASSUME NEW id \in DOMAIN doc["agents"]
      PROVE  AgentBuilds(team, id)
  <2> DEFINE agent == doc["agents"][id]
             isOrch == (id = TeamIds[1])
  <2>1. id \in Range(TeamIds)
    <3>1. DOMAIN doc["agents"] = {TeamIds[i] : i \in 1..f.agents}
      BY DEF Rendered
    <3>2. \A i \in 1..8 : TeamIds[i] \in Range(TeamIds)
      BY DEF TeamIds, Range
    <3>3. QED BY <3>1, <3>2
  <2>2. id \notin {Bad, Null}
    BY <2>1, WorkspaceAssumption
  <2>3. /\ agent = AgentTable(f, isOrch)
        /\ DOMAIN agent = {"role", "model_adapter", "tools", "max_retries", "budgets"}
                          \cup (IF f.adapter = "fake" THEN {} ELSE {f.adapter})
        /\ agent["model_adapter"] = f.adapter
    BY RenderedAgent, Zenon
  <2>4. AgentOK(doc, id)
    BY DEF Accepted
  <2>5. f.adapter \in Adapters
    <3>1. AdapterOf(agent) = f.adapter
      BY <2>3 DEF AdapterOf, Get
    <3>2. AdapterOK(agent)
      BY <2>4 DEF AgentOK
    <3>3. QED BY <3>1, <3>2 DEF AdapterOK
  <2>6. DOMAIN agent \cap
          {"fake", "fake_model", "fake_model_json", "approval_required_tiers"} = {}
    BY <2>3, <2>5 DEF Adapters
  <2>7. ASSUME NEW a \in Remote, a \in DOMAIN agent, IsTable(agent[a])
        PROVE  SectionOK(a, agent[a])
    <3>1. a = f.adapter
      BY <2>3, <2>7 DEF Remote, Adapters
    <3>2. QED BY <2>3, <2>7, <3>1, SectionIsGood
  <2> HIDE DEF doc
  <2>8. QED BY <2>2, <2>6, <2>7, AgentIsGood DEF doc
<1>2. DOMAIN team.agents = DOMAIN doc["agents"]
  BY DEF TopologyOf
<1>3. team.memory.type = "sqlite"
  <2>1. doc["memory"] = [type |-> "sqlite", db_path |-> "memory.db", embeddings |-> f.embeddings]
    BY DEF Rendered
  <2>2. team.memory.type = Get(Section(doc, "memory"), "type", "sqlite")
    BY DEF TopologyOf
  <2>3. Section(doc, "memory") \in {doc["memory"], <<>>}
    BY DEF Section
  <2>4. QED BY <2>1, <2>2, <2>3 DEF Get
<1>4. QED BY <1>1, <1>2, <1>3

\* What the editor saved opens a Command Center, and what the wizard wrote runs,
\* by the orchestrator and by every worker it may delegate to (wizard/init.py
\* 991-1038, command_center.py 715-737).
THEOREM WrittenFilesAreUsable == Spec => []WritersLeaveItUsable
<1> DEFINE Usable(content) ==
             LET team == TopologyOf(content)
             IN  /\ \A id \in DOMAIN team.agents : AgentBuilds(team, id)
                 /\ team.memory.type = "sqlite"
<1>1. Init => WritersLeaveItUsable
  BY DEF Init, WritersLeaveItUsable
<1>2. WritersLeaveItUsable /\ FilesAreKnown /\ [Next]_vars => WritersLeaveItUsable'
  <2> SUFFICES ASSUME WritersLeaveItUsable, FilesAreKnown, [Next]_vars
               PROVE  /\ writer' \in {"editor", "unread", "wizard"} => FileAccepted(toml')
                      /\ writer' = "wizard" => Usable(toml')
    BY DEF WritersLeaveItUsable, FileAccepted, FileVerdict
  <2>1. /\ writer \in {"editor", "unread", "wizard"} => FileAccepted(toml)
        /\ writer = "wizard" => Usable(toml)
    BY DEF WritersLeaveItUsable
  <2> HIDE DEF Usable
  <2>2. CASE UNCHANGED <<toml, writer>>
    BY <2>1, <2>2
  <2>3. CASE HandEditsToml
    BY <2>3 DEF HandEditsToml
  <2>4. CASE EditorSave \/ EditorReadsBack
    BY <2>1, <2>4 DEF EditorSave, EditorAccepts, EditorReadsBack
  <2>5. CASE WizardSave
    <3>1. PICK f : f = Gathered(form)
      OBVIOUS
    <3>2. CASE WizardAccepts(f) /\ WizardWrites(f)
      <4>1. toml' = Rendered(f) /\ writer' = "wizard"
        BY <3>2 DEF WizardWrites
      <4>2. FileAccepted(Rendered(f)) /\ f.agents \in 2..8
        BY <3>2 DEF WizardAccepts, Renders
      <4>3. Accepted(Rendered(f))
        BY <4>2, AcceptedFile
      <4>4. DOMAIN Rendered(f)["agents"] \subseteq AgentId
        BY <3>2, <4>2, RenderedIsKnown DEF IdsKnown
      <4>5. Usable(Rendered(f))
        BY <4>2, <4>3, <4>4, RenderedBuilds DEF Usable
      <4>6. QED BY <4>1, <4>2, <4>5
    <3>3. CASE WizardBreaksOff
      BY <2>2, <3>3 DEF WizardBreaksOff
    <3>4. QED BY <2>2, <2>5, <3>1, <3>2, <3>3 DEF WizardSave
  <2>6. CASE Next /\ ~(HandEditsToml \/ EditorSave \/ EditorReadsBack \/ WizardSave)
    <3>1. UNCHANGED <<toml, writer>>
      BY <2>6 DEF Next, HandEditsProfile, InitWithoutWizard, OpenWizard, WizardNext, WizardBack,
           WizardTemplate, WizardField, WizardQuit, OpenCenter, OpenEditor, EditorCancel, Health,
           Query, ReplayLatest, Duplicate, CenterQuit, ProfileCommand, Restart, files
    <3>2. QED BY <2>2, <3>1
  <2>7. CASE UNCHANGED vars
    BY <2>2, <2>7 DEF vars
  <2>8. QED BY <2>3, <2>4, <2>5, <2>6, <2>7
<1>3. QED BY <1>1, <1>2, KnownInitially, StaysKnown, PTL DEF Spec

-----------------------------------------------------------------------------
(* What the program dies of.                                               *)
WritersAreKnown ==
  /\ writer \in {"nobody", "hand", "wizard", "editor", "unread", "torn"}
  /\ writer = "nobody" => toml = Absent

LEMMA WritersStayKnown == WritersAreKnown /\ [Next]_vars => WritersAreKnown'
<1> SUFFICES ASSUME WritersAreKnown, [Next]_vars PROVE WritersAreKnown'
  OBVIOUS
<1> USE DEF WritersAreKnown
<1>1. CASE UNCHANGED <<toml, writer>>
  BY <1>1
<1>2. CASE HandEditsToml
  BY <1>2 DEF HandEditsToml
<1>3. CASE WizardSave
  BY <1>3 DEF WizardSave, WizardWrites, WizardBreaksOff
<1>4. CASE EditorSave \/ EditorReadsBack
  BY <1>4 DEF EditorSave, EditorReadsBack
<1>5. CASE Next /\ ~(HandEditsToml \/ EditorSave \/ EditorReadsBack \/ WizardSave)
  <2>1. UNCHANGED <<toml, writer>>
    BY <1>5 DEF Next, HandEditsProfile, InitWithoutWizard, OpenWizard, WizardNext, WizardBack,
         WizardTemplate, WizardField, WizardQuit, OpenCenter, OpenEditor, EditorCancel, Health,
         Query, ReplayLatest, Duplicate, CenterQuit, ProfileCommand, Restart, files
  <2>2. QED BY <1>1, <2>1
<1>6. CASE UNCHANGED vars
  BY <1>1, <1>6 DEF vars
<1>7. QED BY <1>2, <1>3, <1>4, <1>5, <1>6

\* The team the wizard wrote is only not built for want of the extension.
LEMMA WizardsTeamBuilds ==
  ASSUME WritersLeaveItUsable, writer = "wizard",
         ~(FileAccepted(toml) /\ TeamBuilds(TopologyOf(toml)))
  PROVE  TopologyOf(toml).memory.embeddings /\ ~EmbeddingsInstalled
<1> DEFINE team == TopologyOf(toml)
<1>1. /\ FileAccepted(toml) /\ team.memory.type = "sqlite"
      /\ \A id \in DOMAIN team.agents : AgentBuilds(team, id)
  BY DEF WritersLeaveItUsable
<1>2. team.orchestrator \in DOMAIN team.agents
  BY <1>1, AcceptedFile DEF TopologyOf, Accepted
<1>3. ~MemoryOpens(team.memory)
  BY <1>1, <1>2 DEF TeamBuilds
<1>4. QED BY <1>1, <1>3 DEF MemoryOpens

\* The program opens and diagnoses every naqsha.toml it wrote to its end, and runs
\* the wizard's unless an extension is missing: it dies of what a hand or a
\* write that broke off has left (command_center.py 441, 46-110, 614-619, 739).
THEOREM OwnFilesSurvived == Spec => OwnFilesAreSurvived
<1> DEFINE Survived ==
      crashed = "no" =>
        /\ crashed' \in {"open", "health"} => writer \in {"hand", "torn"}
        /\ crashed' = "query" /\ writer = "wizard" =>
             TopologyOf(toml).memory.embeddings /\ ~EmbeddingsInstalled
<1>1. ASSUME WritersLeaveItUsable, WritersAreKnown, [Next]_vars
      PROVE  [Survived]_vars
  <2>1. toml # Absent /\ ~FileAccepted(toml) => writer \in {"hand", "torn"}
    BY <1>1 DEF WritersLeaveItUsable, WritersAreKnown
  <2>2. CASE OpenCenter
    BY <2>1, <2>2 DEF OpenCenter, Crash
  <2>3. CASE Health
    <3>1. FileVerdict(toml) \in {"raises", "not toml"} => toml # Absent /\ ~FileAccepted(toml)
      <4>1. toml = Absent => FileVerdict(toml) = "absent"
        BY WorkspaceAssumption DEF FileVerdict
      <4>2. FileAccepted(toml) => FileVerdict(toml) = "accepted"
        BY DEF FileAccepted
      <4>3. QED BY <4>1, <4>2
    <3>2. QED BY <2>1, <2>3, <3>1 DEF Health, Crash
  <2>4. CASE Query
    BY <1>1, <2>4, WizardsTeamBuilds DEF Query, Crash
  <2>5. CASE \/ InitWithoutWizard \/ WizardSave \/ ReplayLatest \/ Duplicate \/ ProfileCommand
             \/ Restart
    BY <2>5 DEF InitWithoutWizard, WizardSave, ReplayLatest, Duplicate, ProfileCommand, Restart,
         Crash
  <2>6. CASE Next /\ ~(\/ OpenCenter \/ Health \/ Query \/ InitWithoutWizard \/ WizardSave
                        \/ ReplayLatest \/ Duplicate \/ ProfileCommand \/ Restart)
    <3>1. UNCHANGED crashed
      BY <2>6 DEF Next, HandEditsToml, HandEditsProfile, OpenWizard, WizardNext, WizardBack,
           WizardTemplate, WizardField, WizardQuit, OpenEditor, EditorCancel, EditorSave,
           EditorReadsBack, CenterQuit
    <3>2. QED BY <3>1
  <2>7. QED BY <1>1, <2>2, <2>3, <2>4, <2>5, <2>6
<1>2. Init => WritersAreKnown
  BY DEF Init, WritersAreKnown
<1>3. QED BY <1>1, <1>2, WritersStayKnown, WrittenFilesAreUsable, PTL DEF Spec, OwnFilesAreSurvived
==============================================================================

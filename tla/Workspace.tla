------------------------------ MODULE Workspace ------------------------------
(***************************************************************************)
(* The files of a Team Workspace and the programs that write and read      *)
(* them: `naqsha init` with and without the wizard, the Command Center's   *)
(* editor, health check, queries, replay and profile manager, and the      *)
(* commands that load a Run Profile.  A hand may edit every file at any    *)
(* time: nothing locks the workspace.  A write may break off with an       *)
(* OSError: write_text has emptied the file by then, or a beginning of the *)
(* text is in it.                                                          *)
(*                                                                         *)
(* A query is one step here: what its run does is module TeamSession.      *)
(***************************************************************************)
EXTENDS TeamRuntime, Wizard, Functions

CONSTANTS
  Absent,        \* there is no such file
  NotToml,       \* a naqsha.toml tomllib cannot read
  HandEdits,     \* what a hand may leave in naqsha.toml
  CutOffs,       \* and what a write that breaks off: nothing, or a beginning of a text
  ProfileNames,  \* stems of .naqsha/profiles/*.json, in sorted order
  HandProfiles,  \* what a hand may leave in a profile file
  BundledFake,   \* the profile init_agent_project copies
  FormChanges,   \* the fields of the wizard an operator may set: <<field, value>>
  EnvVars,       \* the environment variables that are set
  MaxEdits       \* bound: hand edits, forms changed and failing writes and reads of a behaviour

\* parse_team_topology_file on what the file holds.
FileVerdict(content) ==
  CASE content = Absent -> "absent"
    [] content = NotToml -> "not toml"
    [] OTHER -> Verdict(content)
FileAccepted(content) == FileVerdict(content) = "accepted"

ASSUME WorkspaceAssumption ==
  /\ ProfileNames # <<>> /\ NotToml # Absent
  /\ Range(TeamIds) \subseteq AgentId \ {Bad, Null} /\ MaxEdits \in Nat
  /\ \A content \in HandEdits \cup CutOffs :
       FileAccepted(content) => DOMAIN content["agents"] \subseteq AgentId

VARIABLES
  toml,           \* naqsha.toml
  writer,         \* history: who wrote it last; "torn" for a write that broke off,
                  \* "unread" for an editor that could not read back what it wrote
  profiles,       \* .naqsha/profiles, on the names that exist
  shadow,         \* profiles/<first name>.json, which is looked for first
  screen,         \* the program that runs: "none", "wizard", "center", "editor" on it, or
                  \* "reading" after a save of the editor
  step, form,     \* the wizard's page and its fields, fresh while it is not open
  cached,         \* CommandCenterApp._topology, Null while there is no such app
  draft,          \* the text the editor screen was opened with
  traced,         \* a run has left a trace
  said,           \* what the operator was last told
  crashed,        \* "no", or what took the program down with a traceback
  edits

files == <<toml, writer, profiles, shadow>>
vars == <<toml, writer, profiles, shadow, screen, step, form, cached, draft, traced,
          said, crashed, edits>>

\* Mutant: the bundled profile is written over an existing one.
WithProfileAnew(name) == Entry(name, BundledFake) ++ profiles
\* init_agent_project: the layout, and a profile unless there is one.
WithProfile(name) == profiles ++ Entry(name, BundledFake)
\* It breaks off before a new profile is written, while it is, or after.
LayoutBreaksOff(name) ==
  profiles' \in {profiles, profiles ++ Entry(name, Bad), WithProfile(name)}

Init ==
  /\ toml = Absent /\ writer = "nobody"
  /\ profiles = <<>> /\ shadow = Absent
  /\ screen = "none" /\ step = 0 /\ form = FreshForm
  /\ cached = Null /\ draft = Absent /\ traced = FALSE
  /\ said = "nothing" /\ crashed = "no" /\ edits = 0

\* The program ends with a traceback, and what it had in memory is gone.
Crash(what) == crashed' = what /\ screen' = "none" /\ cached' = Null /\ said' = "nothing"
Edited == edits < MaxEdits /\ edits' = edits + 1

-----------------------------------------------------------------------------
\* A hand with a text editor, or another program.
HandEditsToml ==
  /\ Edited
  /\ \E content \in HandEdits : content # toml /\ toml' = content
  /\ writer' = "hand" /\ said' = "nothing"
  /\ UNCHANGED <<profiles, shadow, screen, step, form, cached, draft, traced, crashed>>

HandEditsProfile ==
  /\ Edited /\ said' = "nothing"
  /\ \E content \in HandProfiles :
       \/ shadow' = content /\ UNCHANGED profiles
       \/ /\ \E name \in Range(ProfileNames) : profiles' = Entry(name, content) ++ profiles
          /\ UNCHANGED shadow
  /\ UNCHANGED <<toml, writer, screen, step, form, cached, draft, traced, crashed>>

-----------------------------------------------------------------------------
\* `naqsha init` without the TUI writes no naqsha.toml.
InitWithoutWizard ==
  /\ screen = "none" /\ crashed = "no"
  /\ \E name \in Range(ProfileNames) :
       \/ profiles' = WithProfile(name) /\ said' = "initialized"
          /\ UNCHANGED <<screen, cached, crashed, edits>>
       \/ LayoutBreaksOff(name) /\ Edited /\ Crash("init")
  /\ UNCHANGED <<toml, writer, shadow, step, form, draft, traced>>

OpenWizard ==
  /\ screen = "none" /\ crashed = "no" /\ screen' = "wizard" /\ said' = "nothing"
  /\ UNCHANGED <<files, step, form, cached, draft, traced, crashed, edits>>
CloseWizard == screen' = "none" /\ step' = 0 /\ form' = FreshForm

WizardNext ==
  /\ screen = "wizard" /\ step' = (IF step = 3 THEN 3 ELSE step + 1)
  /\ UNCHANGED <<files, screen, form, cached, draft, traced, said, crashed, edits>>
WizardBack ==
  /\ screen = "wizard" /\ step' = (IF step = 0 THEN 0 ELSE step - 1)
  /\ UNCHANGED <<files, screen, form, cached, draft, traced, said, crashed, edits>>

\* Only the fields of the shown page can be reached.
PageOf(field) ==
  CASE field \in {"adapter", "sanitizer"} -> 1
    [] field \in {"orch", "worker", "power", "full_tools", "retries"} -> 3
    [] OTHER -> 2
WizardTemplate ==
  /\ screen = "wizard" /\ step = 0 /\ Edited
  /\ \E t \in Templates : form' = ApplyTemplate(form, t)
  /\ UNCHANGED <<files, screen, step, cached, draft, traced, said, crashed>>
WizardField ==
  /\ screen = "wizard" /\ Edited
  /\ \E change \in FormChanges :
       /\ PageOf(change[1]) = step
       /\ form' = [form EXCEPT ![change[1]] = change[2]]
  /\ UNCHANGED <<files, screen, step, cached, draft, traced, said, crashed>>

\* _gather_save and _write_toml, from any page (Ctrl+S): nothing is written
\* unless the rendered text parses; then the layout first, then the file.
WizardAcceptsUnchecked(f) == Renders(f)  \* mutant: neither the fields nor the text are checked
WizardAccepts(f) == FieldsOK(f) /\ Renders(f) /\ FileAccepted(Rendered(f))
WizardWrites(f) ==
  /\ \E name \in Range(ProfileNames) : profiles' = WithProfile(name)
  /\ toml' = Rendered(f) /\ writer' = "wizard"
\* The layout or the file breaks off.
WizardBreaksOff ==
  \E name \in Range(ProfileNames) :
    \/ LayoutBreaksOff(name) /\ UNCHANGED <<toml, writer>>
    \/ profiles' = WithProfile(name) /\ toml' \in CutOffs /\ writer' = "torn"
\* A write that breaks off takes the app down, but its run() returns, and the
\* command line reports a workspace all the same.
WizardSave ==
  /\ screen = "wizard"
  /\ LET f == Gathered(form)
     IN  \/ /\ WizardAccepts(f) /\ CloseWizard /\ said' = "initialized"
            /\ \/ WizardWrites(f) /\ UNCHANGED <<crashed, edits>>
               \/ WizardBreaksOff /\ Edited /\ crashed' = "wizard"
         \/ /\ ~WizardAccepts(f) /\ said' = "refused"
            /\ form' = [form EXCEPT !.orch = f.orch, !.worker = f.worker]
            /\ UNCHANGED <<toml, writer, profiles, screen, step, crashed, edits>>
  /\ UNCHANGED <<shadow, cached, draft, traced>>

\* Escape: the command line reports a workspace all the same.
WizardQuit ==
  /\ screen = "wizard" /\ CloseWizard /\ said' = "initialized"
  /\ UNCHANGED <<files, cached, draft, traced, crashed, edits>>

-----------------------------------------------------------------------------
\* `naqsha`: the Command Center parses the file before it shows anything.
OpenCenter ==
  /\ screen = "none" /\ crashed = "no" /\ toml # Absent
  /\ \/ /\ FileAccepted(toml)
        /\ screen' = "center" /\ cached' = TopologyOf(toml) /\ said' = "nothing"
        /\ UNCHANGED crashed
     \/ ~FileAccepted(toml) /\ Crash("open")
  /\ UNCHANGED <<files, step, form, draft, traced, edits>>

OpenEditor ==
  /\ screen = "center" /\ screen' = "editor" /\ draft' = toml /\ said' = "nothing"
  /\ UNCHANGED <<files, step, form, cached, traced, crashed, edits>>
EditorCancel ==
  /\ screen = "editor" /\ screen' = "center" /\ draft' = Absent
  /\ UNCHANGED <<files, step, form, cached, traced, said, crashed, edits>>

\* action_edit_toml_modal after Ctrl+S: whatever the screen's text is now.  It
\* is parsed, written over the file as it stands, and read back.  What goes
\* wrong is told as an error, and nothing that was written is taken back.
EditorAcceptsAnyToml(text) == text # NotToml  \* mutant: the text is not parsed as a team
EditorAccepts(text) == FileAccepted(text)
EditorSave ==
  /\ screen = "editor" /\ draft' = Absent
  /\ \E text \in (HandEdits \cup {draft}) \ {Absent} :
       \/ /\ EditorAccepts(text) /\ toml' = text /\ writer' = "editor"
          /\ screen' = "reading" /\ UNCHANGED <<said, edits>>
       \/ /\ EditorAccepts(text) /\ Edited /\ screen' = "center" /\ said' = "not saved"
          /\ UNCHANGED <<toml, writer>> \/ (toml' \in CutOffs /\ writer' = "torn")
       \/ /\ ~EditorAccepts(text) /\ screen' = "center" /\ said' = "refused"
          /\ UNCHANGED <<toml, writer, edits>>
  /\ UNCHANGED <<profiles, shadow, step, form, cached, traced, crashed>>

\* The file may be another one by now, or not to be read.
KeepsTopology == UNCHANGED cached  \* mutant: the app keeps the topology it had
TakesTopology == cached' = TopologyOf(toml)
EditorReadsBack ==
  /\ screen = "reading" /\ screen' = "center"
  /\ \/ FileAccepted(toml) /\ TakesTopology /\ said' = "saved" /\ UNCHANGED <<writer, edits>>
     \/ /\ said' = "not saved" /\ UNCHANGED cached
        /\ Edited \/ (~FileAccepted(toml) /\ UNCHANGED edits)
        /\ writer' = (IF writer = "editor" THEN "unread" ELSE writer)
  /\ UNCHANGED <<toml, profiles, shadow, step, form, draft, traced, crashed>>

\* _health_messages: the file as it is now.  A key is only missed when the
\* section that names it is there and names one.
KeyName(agent) ==
  Get(agent.section, "api_key_env", IF agent.model_adapter = "ollama" THEN Null ELSE "API_KEY")
Healthy(team) ==
  /\ team.memory.type = "sqlite"
  /\ \A id \in DOMAIN team.agents :
       LET agent == team.agents[id]
       IN  agent.section \in {Null, <<>>} \/ KeyName(agent) \in EnvVars \cup {Null, NoText}
Health ==
  /\ screen = "center"
  /\ LET verdict == FileVerdict(toml)
     IN  \/ /\ verdict = "accepted"
            /\ said' = (IF Healthy(TopologyOf(toml)) THEN "usable" ELSE "unhealthy")
            /\ UNCHANGED <<screen, cached, crashed>>
         \/ verdict \in {"rejected", "absent"} /\ said' = "unhealthy"
            /\ UNCHANGED <<screen, cached, crashed>>
         \/ verdict \in {"raises", "not toml"} /\ Crash("health")
  /\ UNCHANGED <<files, step, form, draft, traced, edits>>

\* run_orchestrator_query: the team is read and wired outside the try.
Query ==
  /\ screen = "center"
  /\ LET wired == FileAccepted(toml) /\ TeamBuilds(TopologyOf(toml))
     IN  \/ wired /\ traced' = TRUE /\ said' = "nothing" /\ UNCHANGED <<screen, cached, crashed>>
         \/ ~wired /\ Crash("query") /\ UNCHANGED traced
  /\ UNCHANGED <<files, step, form, draft, edits>>

\* action_replay_traced: the orchestrator's profile of the cached topology,
\* wired by build_trace_replay_runtime with the starter tools alone.
ReplayProfile == AgentProfile(cached, cached.orchestrator)
ReplayLatest ==
  /\ screen = "center"
  /\ \/ ~traced /\ said' = "no traces" /\ UNCHANGED <<screen, cached, crashed>>
     \/ /\ traced /\ ProfileOK(AgentData(cached, cached.orchestrator))
        /\ PolicyOK(ReplayProfile)
        /\ said' = "compared" /\ UNCHANGED <<screen, cached, crashed>>
     \/ /\ traced
        /\ ~(ProfileOK(AgentData(cached, cached.orchestrator)) /\ PolicyOK(ReplayProfile))
        /\ Crash("replay")
  /\ UNCHANGED <<files, step, form, draft, traced, edits>>

\* _ProfileScreen: the first profile is copied over the named one; copying it
\* over itself raises SameFileError, and a copy may break off.
Existing == SelectSeq(ProfileNames, LAMBDA name : name \in DOMAIN profiles)
Copied(name, content) == profiles' = Entry(name, content) ++ profiles
Duplicate ==
  /\ screen = "center" /\ Existing # <<>>
  /\ \E name \in Range(ProfileNames) :
       \/ /\ name # Existing[1] /\ Copied(name, profiles[Existing[1]])
          /\ said' = "duplicated" /\ UNCHANGED <<screen, cached, crashed, edits>>
       \/ /\ name # Existing[1] /\ Edited /\ Crash("duplicate")
          /\ UNCHANGED profiles \/ Copied(name, Bad) \/ Copied(name, profiles[Existing[1]])
       \/ name = Existing[1] /\ Crash("duplicate") /\ UNCHANGED <<profiles, edits>>
  /\ UNCHANGED <<toml, writer, shadow, step, form, draft, traced>>

CenterQuit ==
  /\ screen = "center" /\ screen' = "none" /\ cached' = Null /\ said' = "nothing"
  /\ UNCHANGED <<files, step, form, draft, traced, crashed, edits>>

-----------------------------------------------------------------------------
\* A command that loads the first profile by name and wires it: main answers
\* a ProfileValidationError with exit code 2 and lets everything else through.
\* Of a profile that loads, `naqsha profile show` tells which tools would be denied.
ProfileFiles ==
  (IF shadow = Absent THEN <<>> ELSE Entry("profiles/json", shadow)) ++
  (IF ProfileNames[1] \in DOMAIN profiles
   THEN Entry(".naqsha/json", profiles[ProfileNames[1]]) ELSE <<>>)
ProfileCommand ==
  /\ screen = "none" /\ crashed = "no"
  /\ LET verdict == LoadVerdict(ProfileFiles)
     IN  \/ verdict = "loaded" /\ UNCHANGED <<screen, cached, crashed>>
            /\ said' = (IF "denied_without_approval" \in
                            Range(PolicyPayload(ProfileOf(Found(ProfileFiles))))
                        THEN "some denied" ELSE "all allowed")
         \/ verdict \in {"not found", "rejected"} /\ said' = "profile error"
            /\ UNCHANGED <<screen, cached, crashed>>
         \/ verdict = "unreadable" /\ Crash("profile")
  /\ UNCHANGED <<files, step, form, draft, traced, edits>>

\* After a traceback the operator starts the program again.
Restart ==
  /\ crashed # "no" /\ crashed' = "no" /\ said' = "nothing"
  /\ UNCHANGED <<files, screen, step, form, cached, draft, traced, edits>>

Next ==
  \/ HandEditsToml \/ HandEditsProfile
  \/ InitWithoutWizard \/ OpenWizard \/ WizardNext \/ WizardBack \/ WizardTemplate
  \/ WizardField \/ WizardSave \/ WizardQuit
  \/ OpenCenter \/ OpenEditor \/ EditorCancel \/ EditorSave \/ EditorReadsBack \/ Health \/ Query
  \/ ReplayLatest \/ Duplicate \/ CenterQuit
  \/ ProfileCommand \/ Restart

Spec == Init /\ [][Next]_vars

-----------------------------------------------------------------------------
\* A naqsha.toml the editor wrote opens a Command Center and can be queried as
\* far as the parser can tell; one the wizard wrote can be run, by the
\* orchestrator and by every worker it may delegate to, unless it asks for an
\* extension that is not installed (wizard/init.py 991-1038, command_center.py
\* 715-737).
WritersLeaveItUsable ==
  /\ writer \in {"editor", "unread", "wizard"} => FileAccepted(toml)
  /\ writer = "wizard" =>
       LET team == TopologyOf(toml)
       IN  /\ \A id \in DOMAIN team.agents : AgentBuilds(team, id)
           /\ team.memory.type = "sqlite"

\* The Command Center goes on with the topology of the file it saved itself,
\* unless it could not read it back: health strip, trace directory, replay and
\* SQL console look at the team the next query will run (command_center.py
\* 722-727).
CenterFollowsEditor ==
  screen \in {"center", "editor"} /\ writer = "editor" => cached = TopologyOf(toml)

\* What takes the program down is never a naqsha.toml it wrote to its end: the
\* Command Center does not open, or dies of a health check, only of a file a
\* hand or a write that broke off has left, and of the wizard's no query dies
\* unless it asks for an extension that is not installed (command_center.py 441,
\* 46-110, 614-619 and 739, where none of the parser's errors is caught).
OwnFilesAreSurvived ==
  [][crashed = "no" =>
       /\ crashed' \in {"open", "health"} => writer \in {"hand", "torn"}
       /\ crashed' = "query" /\ writer = "wizard" =>
            TopologyOf(toml).memory.embeddings /\ ~EmbeddingsInstalled]_vars

\* Every agent of an accepted file is wired with exactly the tools and the
\* budgets the file gives it, whatever way round they take through the Run
\* Profile; nobody but the orchestrator can delegate, and its delegates run
\* every worker, except one whose id gives the same delegate name as another's:
\* of these they run one, where docs/teams.md 195 has a delegate "for each worker
\* in the topology" (team_runtime.py 36-175).
WiredAsDeclared ==
  FileAccepted(toml) =>
    LET team == TopologyOf(toml)
    IN  /\ \A id \in DOMAIN team.agents :
             LET agent == team.agents[id]
             IN  /\ MissingTools(team, id) = {}
                 /\ BuiltTools(team, id) = agent.tools
                 /\ agent.tools \cap DelegateName =
                      (IF id = team.orchestrator THEN Delegates(toml) ELSE {})
                 /\ ProfileOK(AgentData(team, id)) =>
                      LET profile == AgentProfile(team, id)
                      IN  /\ profile.allowed = agent.tools
                          /\ profile.budgets = agent.budgets /\ profile.script = agent.script
                          /\ profile.tiers = TiersFor(team, id)
                          /\ profile.auto_approve = team.auto_approve
                          /\ profile.model = agent.model_adapter
        /\ \A w \in Workers(toml) \ Reached(team) :
             \E v \in Workers(toml) \cap Reached(team) : Delegate[v] = Delegate[w]

\* Initialising a workspace again keeps the profiles that are there, also when
\* it breaks off (project.py 54-64).
InitKeepsProfiles ==
  [][said' = "initialized" \/ (crashed = "no" /\ crashed' = "init") =>
       \A name \in DOMAIN profiles : profiles'[name] = profiles[name]]_vars

\* What the Command Center's Replay is for: "Replay the most recent trace for
\* comparison" (command_center.py 376-381).
ReplayLatestSurvives == crashed # "replay"
==============================================================================

# A TLA+ model of the NAQSHA runtime

This directory specifies NAQSHA (`src/src/naqsha/`) in TLA+, checks
it with TLC on small instances, and proves its central safety properties with
TLAPS for every value of the constants. Paths below are relative to
`src/src/naqsha/` unless they start with `docs/` or name a file at the root of
the repository.

## 1. The system: inventory

NAQSHA runs tool-using agents. A **run** is a loop on one thread: ask a model
for a message, persist it, execute the tool calls it names under a policy and
budgets, persist what they return, until the model answers or something stops
the run. Around the loop stand adapters (model, tools, memory, trace store,
approval gate), an event bus that tells a TUI what happens, a reflection loop
that proposes changes to the workspace, and a rollback manager that undoes them.

| Component | State it keeps | Operations | Talks to |
|---|---|---|---|
| Core Runtime (`core/runtime.py`) | current run id and span, pause and interrupt `threading.Event`s, events so far | `run`, `_execute_action`, `request_pause/resume/interrupt` | everything below, by call |
| Budget meter (`core/budgets.py`) | steps, tool calls, start time | `consume_step`, `consume_tool_call`, `check_wall_clock` | raises into the run |
| Circuit breaker (`core/circuit_breaker.py`) | per tool: last failure signature and streak | `record`, `should_trip` | the run |
| Tool Policy, Approval Gate (`core/policy.py`, `core/approvals.py`) | none | `decide`, `enforce`, `approve` | the run; the gate asks a person |
| Tool Scheduler (`core/scheduler.py`) | a thread pool per batch | `execute`, `can_parallelize` | worker threads run tools |
| Event bus (`core/event_bus.py`) | subscribers, an asyncio queue | `emit`, `subscribe`, `events` | called by runs, calls panels |
| Trace store, QAOA events (`tracing/`) | one JSONL file per run | `append`, `load` | runs, replay, reflection, eval |
| Replay, eval fixtures (`tracing/replay.py`, `models/trace_replay.py`, `wiring.py`, `eval_fixtures.py`) | a queue of scripted messages, observations by call id | `next_message`, `compare_replay`, `save`, `check` | scheduler, runtime |
| Reflection Loop (`reflection/loop.py`) | patch workspaces | `propose_patch`, `approve_patch`, `reject_patch` | gate, rollback manager |
| Automated Rollback Manager (`reflection/rollback.py`) | `boot_status`, `last_merge_meta.json`, `backups/` | `merge_patch`, `verify_boot_if_pending` | team workspace files |
| Delegation, team runtime (`orchestration/`) | a slot holding the parent runtime | `delegate_to_*` tools, `build_team_orchestrator_runtime` | a nested Core Runtime |
| Team topology (`orchestration/topology.py`) | none | `parse_team_topology` | wizard, editor, team runtime |
| Command Center, panels (`tui/`) | cached topology, runtime holder, panel state | query, interrupt, pause, edit, health, replay, approve | bus, runtime, workspace files, reflection |
| Init wizard (`tui/wizard/`) | the form | templates, fields, save | `naqsha.toml`, `.naqsha/profiles` |
| Memory port (`memory/simplemem_cross.py`, `memory/inmemory.py`) | active run, pending observations, SQLite rows | `start_run`, `retrieve`, `record_observation`, `finish_run` | the run; other processes, by the file |
| Dynamic Memory Engine (`memory/engine.py`, `memory/scope.py`) | one SQLite connection, scopes by prefix | `execute`, `query`, `begin/commit/rollback` | tools |
| NAP and model adapters (`models/`) | none | `next_message`, `parse_nap_message`, transcripts | HTTP |
| Profiles, project files, CLI (`profiles.py`, `project.py`, `cli.py`) | files under `.naqsha/` | `load_run_profile`, `init_agent_project` | wiring |
| Tools (`tools/`) | none that lasts | | operating system, network |

What is hard here, and what each component owes the others:

- **Interleaving.** An operator's thread sets flags while the run goes on; the
  pool's workers run tools while the loop collects results, times out on them or
  is out of wall-clock time. Owed: an interrupt is prompt, the run ends, a
  writing tool is never beside another call, nothing runs on after its batch.
  Runs of several queries and of their workers share a trace file, a bus and the
  panels. Owed: the trace still tells the runs apart, the panels tell the truth,
  nobody waits for an app that has left.
- **Partial failure.** Model, memory, gate and trace store may raise at every
  call, budgets and the breaker stop the run in the middle of a batch. Owed:
  hard caps, trace before effect, a trace readers can rely on, a bus that tells
  no more than the trace holds.
- **Crash and retry.** Merges and rollbacks are a series of file writes that
  may break off anywhere and are resumed by the next boot. Owed: a pending boot
  can always be rolled back, and a rollback leaves exactly what was there. A run
  goes into durable memory in one transaction, beside other processes. Owed: a
  run is remembered as a whole or not at all.
- **Files with many writers.** Wizard, editor, hands and merges write
  `naqsha.toml`, and every reader parses it again. Owed: what the program wrote
  it can use and does not go down of, whatever write broke off before; an agent
  is wired as declared; initialising again loses no profile.
- **Sequences nobody tested.** Two merges before a boot; approval after a failed
  gate; a stale `merge/` directory; a replay with a recording missing; a call id
  used twice.

`PROJECT.json` lists each of these hazards at its line with the properties that
cover it.

## 2. The modules

| Module | Models | Role |
|---|---|---|
| `CoreRuntime` | `CoreRuntime.run`, `_execute_action`, policy, budgets, breaker, control requests | the core |
| `RunTrace` | what readers of one run's trace rely on | abstract; `CoreRuntime` implements it |
| `ToolScheduler` | `ToolScheduler.execute` and its thread pool | the core's concurrent part |
| `BatchExecution` | what `execute` promises the run loop | abstract; `ToolScheduler` implements it |
| `Replay` | `build_trace_replay_runtime`, the scripted model, recordings, `compare_replay`, verdicts | `CoreRuntime` driven by a trace of `RunTrace` |
| `PatchMerge` | `propose_patch`, `approve_patch`, `merge_patch`, `verify_boot_if_pending` | crash recovery |
| `Transcript` | `trace_to_transcript` and the message lists of the adapters | extends `CoreRuntime` |
| `TeamSession` | query threads, delegation, the runtime holder, event hand-over, span tree, flame and jobs panel | composition; its runs are held to `RunTrace` |
| `Tables`, `Topology`, `RunProfile`, `TeamRuntime` | the parsers of `naqsha.toml` and of profiles, and what an agent is wired with | pure operators |
| `Wizard` | the init wizard's form and the file it renders | pure operators |
| `Workspace` | the files of a workspace and all that writes and reads them | composes the five above |
| `DurableMemory` | `SimpleMemCrossMemoryPort` and `InMemoryMemoryPort` from the inside | crash recovery |
| `Selection` | the part of a sequence that is in a set, as a recursive function; used by `CoreRuntime` and `DurableMemory` | pure operator |
| `SelectionProofs` | induction up to a number, and what `Selected` returns for sequences of any length | proofs |
| `CoreRuntimeProofs` | theorems about `CoreRuntime`: its caps and promises, its breaker, its trace and what its bus tells of it | proofs |
| `TraceReaderProofs` | the two readers of the trace, `Transcript` and `Replay`; extends the one before | proofs |
| `ToolSchedulerProofs`, `PatchMergeProofs`, `TeamSessionProofs`, `DurableMemoryProofs`, `WorkspaceProofs` | theorems about the modules of these names | proofs |
| `MC...` | small instances | model checking |

### CoreRuntime

`pc` is the place of the thread in `run()`; there is one action for each call
into an adapter and for each block between two such calls. In the order of the
code: `Begin` (flags cleared, RunStarted, SpanOpened), `PersistQuery`,
`StartMemory`; then the loop `Checkpoint` (the cooperative checkpoint and
`consume_step`), `Retrieve`, `NextMessage`, and either `PersistAnswer` or the
whole of `_execute_action`: `EnforcePolicy`, `PersistAction`, `Announce` (one
turn of the loop that announces allowed calls and answers denied ones),
`Charge`, `Dispatch`/`Execute` (the scheduler entered and left) and
`RecordObservation` (one turn of the loop over observations: memory, trace, bus,
breaker). `PersistFailure` is the three except clauses, which differ in the code
they write only, and `Finally` the finally block. Every action that calls an
adapter has a disjunct in which the call raises; where the exception is none of
the three stop exceptions it goes to `Finally` with `outcome = "raised"`, as the
code does, and before the `try` it leaves `run` at once.

Beside the thread stand the operator's `RequestPause`, `RequestResume` and
`RequestInterrupt`, each possible between any two steps, and `WallClockRunsOut`.

Abstracted: a call is a model value with a tool name and validity; an outcome is
`Ok` or one of a few failure signatures (a timeout observation is one of them);
`BudgetProgress` and `StreamChunkReceived` events, which are emitted between the
steps and read by nobody in the run, are left out; the run has a bus and a
memory port (a run without them does less). Bus handlers run inside `emit`, and
what they raise is swallowed there, so a handler cannot end a run.
`approved`, `executed`, `modelCalls`, `executions`, `lastRequest` and
`sinceInterrupt` are history variables: nothing in the code reads them.

### ToolScheduler

The collecting thread (`Submit`, `CheckWallClock`, `FutureEnds`,
`WaitTimesOut`, `Shutdown`) and the pool's workers (`Begin`, `End`) interleave.
`Shutdown` is the exit of the `with` block, on return and on an exception. With
recordings, `invoke` is a lookup that may raise `ReplayObservationMissing`. The
pool itself is Python's and is modelled as the code uses it: a first-in
first-out queue, at most `max_workers` at once, and an exit that waits.

In `CoreRuntime` the whole batch is two steps, `Dispatch` and `Execute`; that
this is enough is what `ImplementsBatchExecution` shows: no call outlives the
batch, and the results come back in order or not at all.

### Replay

`Replay` extends `CoreRuntime` and drives it. `Store` lets a reference trace
grow by any step of `RunTrace` and stop anywhere, which covers every trace that
`CoreRuntime` writes (`ImplementsRunTrace`), those of failed and killed runs
included. `Load` is `build_trace_replay_runtime`: it refuses a trace without
messages or with two observations of one call id, and else fills the `script` of
the model and the `recorded` observations of the scheduler. The replaying run
then is the run of `CoreRuntime` with `replaying = TRUE`: `ScriptedMessage` is
its `NextMessage` taking the head of the script (or raising
`TraceReplayExhausted`), `ServeRecorded` its `Execute` answered from the
recordings (or raising `ReplayObservationMissing`), and `OwnStep` any other
step, failing adapters and the end of the wall clock included. Policy and gate
are today's: what they decide is independent of the decisions in the reference.
A call that was denied then and is let through now is served its recorded
denial, which the run takes for an ordinary failing observation
(`DenialServed`).

`ReplayExitsClean` and `EvalPasses` are the two verdicts the code draws. Neither
compares policy decisions or observations: a replay in which today's policy
denies every call still passes, since the script does not depend on them. And
`eval check` passes a reference without an answer whose replay fails as well,
which `replay --re-execute` does not; `VerdictsAgree` is therefore stated of
references that answered. Its part `ExitTellsOfAnswer` says how little the comparison of
answer and tool path can find ("Replay catches behavior regressions (answer +
tool path)", `docs/handoff/0001-v1-development-workflow.md:306`): the scripted
model repeats both, so the two differ only in a replay that did not answer, which
the exit status reports anyway. Texts of answers and observations are left out,
and so is the sanitizer, which a replay applies a second time; these verdicts hold
as far as it leaves its own output alone.

### PatchMerge

The files of the team workspace, each as the set of patches that wrote its
content, the backups, `last_merge_meta.json` and `boot_status` are on disk; a
merge and a verification are processes whose every write is a step.
`MergeBreaksOff` and `VerificationBreaksOff` end them before any step: the
process died, or a write raised. `write_text` truncates first, so a break inside
one may leave a torn `last_merge_meta.json` or an empty `boot_status`, and a
break after `mkdir` an empty backup directory. A copied file is taken as whole
or not copied.

The model assumes that one process at a time works on a workspace. The code
takes no lock; with a merge beside a verification, `PendingCanRollBack`,
`StableWasProbed` and `RollbackUndoesMerge` all fail. `reject_patch` is left
out: it writes a marker that nothing reads, so a rejected patch may still be
approved and merged, as every patch in the model may. The probe's outcome is
free: `_boot_health` builds its runtime from the Run Profile and reads neither
`naqsha.toml` nor `tools/` of the workspace.

### Transcript

Before each question the adapter turns the trace so far into a conversation.
`Turns` is `trace_to_transcript`; `UserMessages` is what the Anthropic and Gemini
adapters make of it, `ToolMessages` what the OpenAI-compatible ones do. A message
is its role and the ids of the calls it asks for or answers. The operators are
applied to `trace` of `CoreRuntime` whenever `pc = "ask"`, so they see every
conversation a run can lead to and no other.

### TeamSession

One thread per query and the UI thread. A *span* is `<<query, n>>`, with `n = 0`
for the orchestrator and `n > 0` for its workers in the order they are started.
Each span steps through `run()` of `CoreRuntime` cut down to what others can see
of it: the lines it writes (`Persist`), the events it emits (`Emit`), its
checkpoints, and its end, which may come for any reason. `Delegate` starts a
worker inside the orchestrator's tool call; `PoolIdle` is the exit of the pool,
which the orchestrator cannot pass while a worker runs, and `Leave` of a worker
hands its result to the orchestrator. `Submit` and `Hold` are
`run_orchestrator_query`: the runtime is put into the holder by the query's own
thread, some time after the query was submitted, and displaces the one of the
query before. `Request...` reach the runtime in the holder, never a worker, and
`BeginRun` forgets those that came too early. `Emit` hands an event to the UI
thread, and the thread waits (`Free`) until `Consume` has fed it to the panels,
as `call_from_thread` does; after `Quit` the call raises inside the bus and the
thread goes on.

The two refine each other's edges: `EverySpanIsARun` says that the lines of every
span, taken out of the shared file, are a behaviour of `RunTrace`, which is what
`CoreRuntime` is shown to implement. The flame panel clears itself on every `RunStarted`, so an
orchestrator that has delegated is not timed at all. `FlameTimesTheLast` says what
is true all the same, for any overlap: the run whose `BeginRun` came last of all (`latest`, a history
variable) is timed once it is over, for its `RunStarted` is the last to reach the
panel.
Memory shared by the runs, tool names and the budget and chat panels are left
out.

### Tables, Topology, RunProfile, TeamRuntime, Wizard, Workspace

A parsed TOML or JSON table is a function from keys. A value of the wrong type is
`Bad` and `null` is `Null`; which of several errors comes first is left out, for
all of them are the same `ProfileValidationError`. The one that is not, the
`JSONDecodeError` of a `fake_model_json` that is no JSON, is the verdict
`"raises"`. `Accepted` and `TopologyOf` are `parse_team_topology`; `ProfileOK`
and `ProfileOf` are `parse_run_profile`; `AgentData` and `AgentProfile` take an
agent from the first to the second as `run_profile_for_topology_agent` does.
`AgentBuilds` and `TeamBuilds` say when the wiring raises.

`Workspace` is the state machine: `naqsha.toml`, the profile files, the wizard's
form, the Command Center's cached topology, the editor's text, and what the
operator was last told. One action per command or key: `InitWithoutWizard`,
`OpenWizard` ... `WizardSave`, `OpenCenter`, `EditorSave`, `EditorReadsBack`,
`Health`, `Query`, `ReplayLatest`, `Duplicate`, `ProfileCommand`, and the hand
that edits any file between two of them. A command whose exception nobody catches is a `Crash`.

Every write may break off. `write_text` empties a file before it writes, so an
`OSError` leaves one of `CutOffs`: nothing, or a beginning of the text, which may
be no TOML or a team of its own. The editor catches the error and reports it like
a refusal, with the file torn (`EditorSave`, the second disjunct of three; the
third, a refusal, writes nothing). The read-back is a step of its own, for another
program may write before it: when it fails, the file is saved, the operator is
told of an error, and the app keeps the topology it had. `naqsha init`, the
wizard's save and the copy of a profile catch nothing and go down
(`LayoutBreaksOff`, `WizardBreaksOff`, `Duplicate`); but the `run()` of the wizard's
app returns after its traceback, and the command line reports an initialised
workspace all the same. `writer` remembers whether the file is the program's own,
torn, or one that could not be read back.

A query is one step here; what its run does is `TeamSession`. Texts, prompts,
paths and the TOML syntax itself are left out: `Rendered` is the table that
tomllib reads back from the rendered text.

Met while modelling, and in the model: `Health` catches `ProfileValidationError`
only and goes down with a file that is not TOML; duplicating the first profile
under its own name raises `SameFileError`; a profile that is not JSON ends a
command with a traceback; the profile parser lets the keys `allowed_tool_names`
and `fake_model_messages` through and reads neither; `naqsha init` reports an
initialised workspace after the wizard was left with Escape; choosing
`local_llm` and then another template keeps the Ollama backend; of two workers
whose ids differ in `-` and `_` only, the delegate of one is lost (`Reached`; tables
have no order here, so which one is left open).

One corner is left out: a section that is a falsy value but no table
(`memory = false`, `reflection = 0`) is `Bad` like any other and rejected, where
the code takes it for an absent one.

### DurableMemory

`Port` is a set of processes, each with a port of either kind and a project.
`StartRun`, `Retrieve`, `Record` are the port's methods; `finish_run` is
`BeginFinish`, one `InsertNext` per row, which takes the file's write lock, and
`Commit`, with `FinishRaises` (ROLLBACK) and `Die` possible before each. A row is
named by its rowid, its place in `db`. `Ranked` is the loop of `retrieve`: it
takes the `Best` of the `Candidates` that are left, once for each of them, and
`Take` says what becomes of a row; `NewestWithin` is the loop of the in-memory
port. Both are recursive functions of the number of turns. A content is a note
with a length and a number of hits; `created_ts` is the time of `finish_run`,
because the nanoseconds the code adds per row vanish in a double of that size:
half of its last place is 119 of them, so this holds for runs of fewer than about
119 observations, and of longer ones the rows would be told apart in groups. Notes
end in no blanks: a trimmed body that did would lose them, and leave a little of
the budget that the model spends.

## 3. What the runs check

| Run | Instance and bounds | Properties |
|---|---|---|
| `core_runtime` | four actions over an allowed call, one that needs approval, one of a tool not allowed, one unknown, one with invalid arguments; 3 steps, 3 tool calls, breaker limit 2; live and replaying | `TypeOK`, `CapsHold`, `AuditedExecution`, `BreakerStopsHopelessRuns`, `BusFollowsTrace`, `CompletedRunLeavesNoCallOpen`, `MemoryKeepsUpWithTrace`, `ConversationIsWellFormed`, `ImplementsRunTrace` |
| `run_control` | two actions, 2 steps; any number of pauses, resumes, interrupts, anywhere | `InterruptIsPrompt`, `RunEnds` |
| `tool_scheduler` | seven batches of up to three calls over two read-only tools and a writer; every assignment of recordings; metered or not | `TypeOK`, `WritersRunAlone`, `SerialInOrder`, `ReplayIsExact`, `ImplementsBatchExecution`, `ExecuteEnds` |
| `replay` | every reference trace of at most two actions (one call; two calls), each call denied or let through, succeeding or failing; three tools of which two ask the gate today; 3 steps, 2 tool calls | `ReplayFollowsReference`, `AnsweredReferenceSuffices`, `ReplayStaysInBudget`, `VerdictsAgree` |
| `patch_merge` | two patches, a toml, a tool file and a file no backup covers; 2 merges, 1 backup kept, 1 break | `PendingCanRollBack`, `OnlyGatedOrApproved`, `StableWasProbed`, `RollbackUndoesMerge`, `PendingIsResolved` |
| `workspace` | ten contents a hand may leave in `naqsha.toml` (good, twin ids, a single agent, each kind of bad), three that a broken write leaves (nothing, no TOML, a beginning that is a team), two profile names, eleven changes to the form, 2 edits | `WritersLeaveItUsable`, `CenterFollowsEditor`, `WiredAsDeclared`, `OwnFilesAreSurvived`, `InitKeepsProfiles` |
| `team_session` | two queries that may overlap, the first with room for one delegation in an action of two calls; 1 step each, 1 control request | `TraceNests`, `TreeHangsWorkers`, `FlameTimesTheLast`, `IdlePanelIsIdle`, `EverySpanIsARun`, `RunsEnd` |
| `durable_memory` | two processes with either port, two projects; 2 runs, 3 observations, window 3, three budgets, a query with tokens and one without | `RunsAreWhole`, `RecallIsEarned`, `RecallIsRanked` |

Four further runs state what a document says and find it violated; the findings
in `PROJECT.json` quote the documents.

| Run | Property | What happens |
|---|---|---|
| `completed_trace_replays` | `CompletedTraceReplays` | two actions use one call id; the answered run's trace is refused |
| `no_bypass` | `NoBypass` | a patch that failed the gate is approved and merged |
| `last_known_good` | `LastKnownGood` | two merges before a boot; the rollback restores what the first one left |
| `replay_latest` | `ReplayLatestSurvives` | the replay of a team's trace is wired with the starter tools only and raises; the Command Center goes down |

Four further disagreements are visible in the models without a run of their own.
An adapter that raises ends the run with neither RunCompleted nor RunFailed
(`core/runtime.py:251`, `NextMessage` and `Finally`), although
`docs/concepts.md:141` has every run announce its end. And
`docs/user-guide/02-architecture-and-concepts.md:95` says `per_tool_seconds`
caps each invocation, but the exit of the pool waits for a tool that does not
return (`core/scheduler.py:100`, `Shutdown`).
The flame panel forgets an orchestrator that delegates (`tui/panels/flame.py:42`,
`Flame` of a RunStarted), although `docs/cli.md:175` has it show "Per-agent wall
time and token totals" and `docs/teams.md:242` has it reconstruct the hierarchy.
And of two workers with one delegate name (`w-1`, `w_1`) the orchestrator is left
with one delegate (`orchestration/team_runtime.py:174`, `Reached`), although
`docs/teams.md:195` has one created "for each worker in the topology";
`WiredAsDeclared` excepts exactly these and holds of the instance that has them.

Why the bounds are enough. Three steps and three tool calls let both caps be met
exactly, passed by one, and passed in the middle of an action of two calls; a
breaker limit of two lets a streak be built, broken and completed across
actions. An action of two calls has a first, a last and a denied one, in either
order; a batch of three has a middle one. Of patches and merges, two are what a
stale payload, a superseded backup and a prune with one place take, and one
break at any point of either merge or of a rollback is what recovery has to
survive. `tool_scheduler` starts from every combination of recordings, so a
missing one occurs in every position. Of the control requests, no number is
bounded: the flags are finite. `MaxSteps`, `MaxToolCalls` and `MaxRetries` are
the program's own limits; the bounds the models add are `MaxMerges`, `MaxBreaks`,
`MaxActions`, `MaxEdits`, `MaxWorkers`, `MaxRequests`, `MaxRuns` and
`MaxObservations`. Two actions are what an ambiguous call id, a script whose order
matters and a replay that fails in its second action take; with three calls in
all and room for two, a replay of a run that kept within its budget may exceed it
when more is approved, and only then.

Of workspaces, one edit puts a file in any state and a second one changes it
behind an open editor, wizard or Command Center; all writers of the program are
unbounded. A write that breaks off and a read-back that fails count as edits: the
other one is left for the hand that meets the torn file, or tears it again.

Two queries are what displaces a runtime from the holder, and one worker beside a call that fails in the same action is what nests a trace and
makes a wait time out; one control request meets either query at any point of
its life. Two runs are one that writes and one that reads or writes beside it;
three observations fill, with an answer, the window of three rows (512 in the
code) and push a row out of it, and let a row be trimmed, skipped as a
repetition and left over. The budgets hold one trimmed row, a row and a bit, and
everything.

Every property of a passing run has a mutant in `PROJECT.json`: a change to one
definition, of a kind a plausible bug would make, under which TLC finds the
property violated.

### Fairness

- `CoreRuntime!FairSpec`: weak fairness of the run's own thread. The operating
  system schedules it, and every adapter call is assumed to return or raise (the
  HTTP adapters have timeouts; that tools return is assumed here and below).
  Nothing is assumed of the operator: a run that was paused and is not resumed
  waits for ever, and `RunEnds` says so.
- `ToolScheduler!Spec`: weak fairness of the collector and of the workers, and
  of answers from recordings, which are dictionary lookups. `SpecToolsReturn`
  adds that every tool returns; `ExecuteEnds` needs it, since the exit of the
  pool waits for them.
- `PatchMerge!FairSpec`: a merge or verification that was begun goes on, and
  somebody runs the agent again. Nobody has to propose or approve anything.

- `TeamSession!Spec`: weak fairness of every run's thread, of the thread that
  builds a query's runtime, and of the event loop, which gets round to what was
  posted to it while the app is there. Nobody has to submit, resume or quit.

`Workspace` and `DurableMemory` claim no liveness and have none to claim: every
step is a person's or a single call.

`PatchMerge` is checked without deadlock detection: with every patch merged and
nothing pending there is nothing left to do. So are `TeamSession`, once the app
has left and the runs are over, and `DurableMemory`, once its runs are used up.

## 4. What is proved

Everything below is proved for every value of the constants, with TLC having
checked each inductive invariant first. Nothing is assumed but the `ASSUME`s of
the modules, which TLC evaluates in the runs.

### The run

`CoreRuntimeProofs` proves nine theorems for all calls, tools, actions, limits
and requests that satisfy `RuntimeAssumption`: an action is a non-empty sequence
of distinct calls (`parse_nap_message` rejects others), every registered tool
has a name some call carries, success is not a failure, and limits are numbers.

- `TypeCorrect`: `Spec => []TypeOK`. `TypeOK` is inductive as it stands because
  it says where the cursors are: in the announcing loop `next` is a position of
  the action, in the recording loop it is one of a call let through and
  `results` has an observation for each of these; the meter passes a limit only
  on the way to failing. It is proved conjunct by conjunct.
- `CapsAreHard`: `Spec => []CapsHold`. The meter is not what the property is
  about: it counts what was charged, the property counts what was called. The
  invariant `Charged` ties the two together: the model was asked no more often
  than steps were charged, strictly less often between the charge and the
  question, and tools were called no more often than charged for, with room for
  the calls let through between charge and dispatch.
- `ExecutionIsAudited`: `Spec => []AuditedExecution`. The invariant `Audited`
  adds what holds before anything has run: from the decision to the dispatch
  every call let through was enforced, and once the action is persisted the
  latest action in the trace lists exactly these. Two lemmas carry it over the
  steps that only append observations: the latest action stays the latest.

- `InterruptsArePrompt`: `Spec => []InterruptIsPrompt`. `Prompt` adds that the
  count of model calls under an interrupt is zero between a checkpoint and the
  question it let pass, so the one call that was under way is the only one.
- `MemoryIsTold`: `Spec => []MemoryKeepsUpWithTrace`. `Told` says more exactly
  that the count is that of the observations in the trace, and one above it only
  in a run that raised, which ends there. `PersistedGrows` carries the count over
  each line that is appended.
- `BreakerIsRight`: `Spec => []BreakerStopsHopelessRuns`. The breaker keeps a
  signature and a number per tool, the property speaks of the observations on
  disk. `Streaks` ties them together: what the breaker remembers of a tool is
  the last streak of equal failures among the tool's observations in the trace,
  neither longer nor shorter (`Streak`), below the limit as long as the run goes
  on. `StreakGrows` is the breaker's own step, `StreakTells` that a streak as
  long as the limit is a hopeless end and the other way round.

`TraceIsARunTrace` is `Spec => ImplementsRunTrace`. The refinement maps the trace to the trace; what has to be
shown is that each line `CoreRuntime` appends is one `RunTrace` allows then. The
invariant `TraceReady` says what the place of the thread tells of the trace: at
the places where a decision may be written every call is answered, and inside an
action the latest one in the trace is this action, answered for exactly the
calls in `Settled`: the denied ones up to the cursor of the announcing loop, then
all denied ones, then the allowed ones up to the cursor of the recording loop.
That call ids differ within an action is what makes a turn of a loop answer its
own call and no other (`OwnTurn`, `Passed`).

The last two theorems are the promises of the bus. `BusTellsTheTrace` rests on
`Telling`: of every call, as many closing events as observations, and the end of
a run announced only with its line as the last of the trace. `NoCallStaysOpen`
rests on `Closed`: until the run fails or ends, a call that was announced and is
not closed is `Pending`, of this action and not yet past the cursor. Both use
the lemmas about appended lines and about the calls a cursor has passed, and
neither needs `TraceReady`.

### The readers of the trace

`TraceReaderProofs` proves seven theorems, for the same values. `ProvidersAccept`,
`Spec => []ConversationIsWellFormed`, is about two
loops. The first goes over the trace as it grows: `Readable` says of an open
trace that the turns read so far alternate, that every request but the last is
answered, and how the last turns stand to the latest action: just asked, with no
observation after it (`JustAsked`), or answered by exactly the calls observed
since, each once (`Answering`). When the model is asked nothing waits
(`TraceReady`), so the last request is answered too (`AllIsAnswered`). The second
goes over the turns: `SpokenSoFar` says that every request told so far but the
one told last is followed by its answers and then by something else. A request
is not empty and names no call twice, and without the former an action would
leave two assistant messages side by side.

The other six are about `Replay`, for every reference `RunTrace` allows, of any
length, and besides `RuntimeAssumption` use nothing of the constants.

- `ReplayIsARun`: `ReplaySpec => Spec`. Every step of a replay is one of a run or
  a stutter, so that every theorem about runs holds of replays, and `trace` and
  `reference` are both traces of `RunTrace`. What the proofs use of such a log is
  said of whole logs in `IsTrace` (each observation serves one action, each action
  is served before the next one) and `SaysItsCalls` (its messages are the calls of
  its actions, and its answer if it ends with one), which both logs keep
  (`ReplayLogs`).
- `ReferenceSuffices`: `ReplaySpec => []AnsweredReferenceSuffices`. `Follows` says
  at each place of the thread that the messages said so far are the first of the
  reference, and the script the rest. A reference that answered has an answer as
  its last message, so a run that has not answered has one before it
  (`NotExhausted`); and each of its calls was observed (`AllObservedIn`), so
  nothing is missing from the recordings, also of calls denied then.
- `ReplayBudget`: `ReplaySpec => []ReplayStaysInBudget`. `MeterTells` says that the
  meter is what the trace says: a step for each message, and one more within a
  turn of the loop; a tool call for each call let through, but for those of an
  action not yet charged. A run not yet at its answer has said less than the
  reference, and what it was granted is a subset (`ChargesNoMore`).
- `SameVerdict`: `ReplaySpec => []VerdictsAgree`, from `ExitTells` and
  `EndsAsItSays`: an answer is in the trace if and only if the run ended with it
  or raised after it.
- `ExitTells`: `ReplaySpec => []ExitTellsOfAnswer`. An answer can only be the last
  message of a log, so a replay that answered said all that the reference says
  (`SaidAll`), its answer and its calls in their order.
- `ReplayFollows`: `ReplaySpec => []ReplayFollowsReference`. The last conjunct
  compares two whole logs. With the same messages and decisions they have the same
  actions (`ActsAgain`). In an unambiguous log that ends with an answer no call
  belongs to two actions, or it would be observed twice (`CallsOnce`), so no line
  is there twice (`LinesOnce`) and each line of one log is in the other
  (`AllLinesIn`); of an executed call because the replay was served what the
  reference holds (`AsRecorded`, `SameObservation`).

### The scheduler

`ToolSchedulerProofs` proves five theorems for all batches, tools, recordings
and numbers of workers that satisfy `SchedulerAssumption`: a batch is a sequence
of distinct calls, and what tools return is none of the three values that stand
for a timeout, a missing recording and no result. One invariant, `IInv`, serves
all five. `InOrder` says that what was started and what is queued are, in this
order, the batch; `Invoked` that a call runs or has a result if and only if it
was started, and none runs once `execute` is left; `Collected` that an
observation is its call's result or a timeout, and that there is one for each
call unless an exception is on its way; `OneByOne` that without parallel workers
all but the latest started call have ended; `AnsweredFromRecordings` that a
replay's results are recordings.

- `SchedulerTypes`, `WritersAreAlone`, `SerialBatchesInOrder`, `ReplaysAreExact`:
  the invariants and action property of the run, each from `IInv`.
- `PromiseIsKept`: `Spec => ImplementsBatchExecution`. The steps of the workers
  map to the invocation and the end of a call, `Shutdown` to the return or the
  exception, the others to stutters; `Invoked` and `Collected` are what the
  abstract guards ask for.

### Merges and rollbacks

`PatchMergeProofs` proves four theorems for any patches, files, number of
backups kept (at least one) and number of merges and breaks, under
`PatchAssumption`: the kinds of files are apart, the sets finite, and `Absent` is
no directory.

- `StableBootsWereProbed`: `Spec => []StableWasProbed`, inductive with the order
  of things (`Ordered`): a verification is under way only while the boot is
  pending or rolled back, and a merge only without one.
- `OnlyVouchedPatches`: `Spec => []OnlyGatedOrApproved`. `Gated` extends it to
  where content comes from: backups hold what the files held, a payload adds its
  own patch only, and a payload is merged only when its patch is vouched for.
- `PendingBootsHaveABackup`: `Spec => []PendingCanRollBack`, from three
  invariants. `BackedUp` follows a merge: what its backup holds so far is what
  the files were when it began, none of them is changed before the backup is
  whole, and the backup that is named is the newest one. `Recoverable` is about
  what is on disk between merges: a backup that is named is whole if it exists,
  and a pending boot has one. Pruning keeps the newest (`PruningKeepsTheNewest`),
  and everything else leaves whole backups alone (`CompleteStays`).
- `RollbacksUndo`: `Spec => RollbackUndoesMerge`. `Restored` says how far a
  rollback has come: naqsha.toml is back after its step, no tool file is there
  between removal and restoration, and the backup it reads stays whole. A pending
  boot whose meta file is torn has at most one backup to choose, which must be
  the whole one (`ChosenIsComplete`).

### The team session

`TeamSessionProofs` proves five theorems for any number of overlapping queries,
workers, steps and control requests. All of them rest on `ControlHolds`: a run
has an outcome if and only if it has ended (`RunHolds`), workers are started in
their order, the latest alone may run, and only inside an action of its
orchestrator that has a call left (`WorkerInTurn`).

- `SpansAreRuns`: `Spec => EverySpanIsARun`, a refinement of `RunTrace` for each
  span. `SpansHold` says what the place of a run tells of its lines in the file it
  shares (`LinesOf`, a selection): a line of another span leaves them alone, and a
  line of its own is the next one.
- `TracesNest`: `Spec => []TraceNests`. `NestHolds` counts: the successes an
  orchestrator has recorded are among those its pool came back with, and these,
  with the one that a worker which has answered is about to bring, are no more
  than the workers' answers since its latest action (`TeamActs`).
- `TreeIsRight`, `FlameTimes`, `PanelIsIdle`: what the panels show, from
  `ScreenHolds`. An event is either in the inbox of the UI thread or has been fed
  to the panels, and there is at most one of each query (`InboxHolds`), since the
  thread that emitted it waits; so the orchestrator of a run that goes on is in
  the tree or about to be (`Hangs`), the run that began last is known to the
  panel as far as it has gone, or its news is on the way (`FlameHolds`), and of the
  starts on their way its own is the last (`LatestHolds`), and a panel that shows a running job has a run or news of
  its end (`JobsHold`).

### Durable memory

`DurableMemoryProofs` proves three theorems for all ports, projects, notes,
budgets, windows and numbers of runs and observations, under `MemoryAssumption`:
a note has a length, a tool's delimiters have one that is not zero, and no note
stands for a missing answer.

- `RunsWhole`: `Spec => []RunsAreWhole`. The invariant `Written` says whose run a
  port is in (`Owned`), that a transaction holds the rows of the pending
  observations it has been through (`Writing`), and that every row in the file is
  of a run that ended well and saw it.
- `RecallEarned` follows from the same invariant: what retrieve returns are rows.
- `RecallRanked`: `Spec => []RecallIsRanked`. The loop of retrieve is followed turn
  by turn (`Loop`): it has gone through the rows in the order of their rank, what
  it has taken is sorted, quotes rows it has gone through and, with what is left,
  adds up to the budget; and a matching row it went past without taking its
  source did not fit even when trimmed, or comes behind everything taken. That a
  best row exists among finitely many, since `Outranks` is a strict total order,
  is `BestOfAll`.

### The workspace

`WorkspaceProofs` proves five theorems for all files, profiles, forms, agent ids
and tools that satisfy `NullAssumption` (what stands for an absent key is none of
the tables), `BadAssumption` (a value of the wrong type is none of the right
one), `TopologyAssumption` (delegate names, memory tools and starter tools
are distinct names) and `WorkspaceAssumption` (the ids in files that are accepted
are ones the delegate names are given for, and the ids of the templates are
ids).

- `WiringIsFaithful`: `Spec => []WiredAsDeclared`. An agent of an accepted file
  makes a round trip: out of the topology into a profile table (`AgentData`),
  through the profile parser (`ProfileOf`), and patched up (`AgentProfile`). The
  lemmas follow one part each: `ToolsAsDeclared` (which tools can be built, and
  that only the orchestrator has delegates), `BudgetsComplete` and
  `ScriptAsDeclared` (defaults applied twice change nothing),
  `ProfileAsDeclared`, and `UnreachedWorker` (a worker no delegate runs shares its
  delegate name with one that is run). The invariant they need is `FilesAreKnown`: the file, and
  the text in the editor, only name ids that have a delegate name, whoever wrote
  them.
- `WrittenFilesAreUsable`: `Spec => []WritersLeaveItUsable`. The wizard asks one
  parser whether its file is good, the run asks another one; the lemmas show that
  they agree on every file the wizard can render. `SectionIsGood` and
  `RenderedAgent` follow an agent from the form to the topology, `DataOfAgent`,
  `BudgetsAreGood` and `PlainProfileIsGood` from there to a profile that the
  second parser takes, and `AgentIsGood` to one that can be wired, unless it asks
  for an extension that is not installed.
- `CenterKeepsUpWithEditor`: `Spec => []CenterFollowsEditor`, inductive as it is.
- `OwnFilesSurvived`: `Spec => OwnFilesAreSurvived`, an action property. It rests on
  `WritersLeaveItUsable` and on `WritersAreKnown` (a file that is there has a
  writer): what is not accepted is a hand's or torn, and the wizard's team builds
  unless its memory asks for what is not installed (`WizardsTeamBuilds`).
- `InitKeepsEveryProfile` is an action property, one case per action; it rests on
  `++` preferring the table on its left, and on `BrokenLayoutKeeps`.

### Induction

A loop over a trace or a table is a recursive function `f[n]` of the number of
turns, and a statement about it is proved by induction on `n`. The library's
induction rules take an operator and cannot be used; `SelectionProofs!UpTo` says
the same of sets: one that has 0, and of each number below `n` the next, has all
up to `n`. It rests on the library's theorem that the strict subset order of a
finite set is well-founded (`Least`). `KeepsExists`, `LoopsExist`, `SpeaksExists`
are the existence of such functions, which the prover does not take from their
definition.

### Only model-checked

The liveness properties (`RunEnds`, `ExecuteEnds`, `PendingIsResolved`,
`RunsEnd`): temporal reasoning under fairness is beyond the prover. Every
invariant, action property and refinement that a passing run checks is proved.
The four violated properties are refuted by TLC and have no theorem.

## 5. What is not modelled, and why

- The HTTP exchange of the model adapters, and what their parsers accept of a
  provider's answer: input and output.
- The starter tools: single calls into the operating system or the network. A
  tool is an outcome that ends or does not.
- The Dynamic Memory Engine: it rewrites table names in SQL texts by regular
  expression and ranks rows by embeddings. What state there is is SQLite's, and
  no code in the repository opens a transaction on a scope.
- A trace store that tears a line, and the sanitizer's truncation.
- The SQL console, the chat, budget and memory panels, and all layout.
- The commands that only read and print traces.
- The import shims of version 1.

`max_model_tokens` is read nowhere in the runtime. `PatchMerged` and its like,
emitted on the UI thread itself, never reach the panels: `call_from_thread`
refuses that thread and the bus swallows it; nothing in the model depends on it.

## 6. Plan

1. A merge beside a verification, once the code has a lock to be held to.
2. A trace store that crashes in an append, with the readers that load it.
3. The memory the runs of a team share, with two scopes on one connection.

## 7. Running it

    tlc -config MCCoreRuntime.cfg MCCoreRuntime.tla
    tlapm CoreRuntimeProofs.tla

and `tlapm` in the same way on each of the eight modules of proofs.

Each run of `PROJECT.json` names its module and its configuration. The longest
takes about two minutes with two workers.

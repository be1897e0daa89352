---------------------------- MODULE TeamSession ------------------------------
(***************************************************************************)
(* A Command Center at work: a thread per query runs the orchestrator, a   *)
(* delegate tool runs a worker inside the orchestrator's tool call, both   *)
(* write one trace file and emit on one bus, and the UI thread feeds what  *)
(* they emit to the panels (tui/command_center.py, orchestration/          *)
(* delegation.py, tui/panels).  A new query displaces the old one from the *)
(* runtime holder but does not stop its thread.                            *)
(*                                                                         *)
(* A span is <<query, n>>: n = 0 is the orchestrator, n > 0 its n-th       *)
(* worker.  What a run does by itself is module CoreRuntime; here it is    *)
(* cut down to its trace lines, its span and its end, which may come for   *)
(* any reason at any checkpoint.  BudgetProgress, ToolInvoked and stream   *)
(* chunks, which only the budget and the chat panel show, are left out.    *)
(***************************************************************************)
EXTENDS SequencesExt, Integers, Selection

CONSTANTS
  MaxWorkers,    \* bound: the delegations of each query, a sequence over the queries
  OrchActions,   \* the actions an orchestrator may decide on: delegate calls
  WorkerActions, \* those of a worker: calls of its plain tools
  OrchSteps,     \* max_steps of the orchestrator, which may change between queries
  WorkerSteps,   \* max_steps of a worker
  MaxRequests    \* bound: pauses, resumes and interrupts of a session

ASSUME SessionAssumption ==
  /\ MaxWorkers \in Seq(Nat) /\ OrchSteps \in [DOMAIN MaxWorkers -> Nat]
  /\ WorkerSteps \in Nat /\ MaxRequests \in Nat
  \* parse_nap_message: an action has calls, and no two of the same id
  /\ \A a \in OrchActions \cup WorkerActions : a \in Seq(ToSet(a)) \ {<<>>} /\ IsInjective(a)

Queries == DOMAIN MaxWorkers
Span == UNION {{q} \X (0..MaxWorkers[q]) : q \in Queries}
Orch(q) == <<q, 0>>
IsWorker(s) == s[2] > 0
Parent(s) == IF IsWorker(s) THEN Orch(s[1]) ELSE <<>>
StepsOf(s) == IF IsWorker(s) THEN WorkerSteps ELSE OrchSteps[s[1]]

Call == UNION {ToSet(a) : a \in OrchActions \cup WorkerActions}
Outcome == {"ok", "failed"}

VARIABLES
  pc,        \* where the run of a span is, "off" while it has not begun
  steps,     \* its model calls
  action,    \* the action it executes
  results,   \* what its pool has come back with, call by call
  observed,  \* how many of them are recorded
  outcome,   \* how it ended
  trace,     \* the trace file of a query: lines [span, entry]
  held,      \* the query whose runtime is in the holder, 0 for none
  paused, stop,  \* that query's two flags; a worker's are never raised
  inbox,     \* events handed to the UI thread and not consumed yet
  app,       \* the Command Center is running
  nodes,     \* SpanTreePanel._by_span: open spans and the node they hang under
  flame,     \* FlamePanel: the open spans, and those that have been timed
  jobs,      \* the jobs panel
  requests,
  latest     \* history, which no action reads: the span that began last, <<>> before one has

run == <<pc, steps, action, results, observed, outcome>>
panels == <<nodes, flame, jobs>>
vars == <<run, trace, held, paused, stop, inbox, app, panels, requests, latest>>

Dark == [opened |-> {}, timed |-> {}]
Quiet == [state |-> "idle", query |-> 0]

Init ==
  /\ pc = [s \in Span |-> "off"]
  /\ steps = [s \in Span |-> 0] /\ observed = [s \in Span |-> 0]
  /\ action = [s \in Span |-> <<>>] /\ results = [s \in Span |-> <<>>]
  /\ outcome = [s \in Span |-> "none"]
  /\ trace = [q \in Queries |-> <<>>]
  /\ held = 0 /\ paused = {} /\ stop = {} /\ requests = 0
  /\ inbox = <<>> /\ app = TRUE
  /\ nodes = <<>> /\ flame = Dark /\ jobs = Quiet /\ latest = <<>>

-----------------------------------------------------------------------------
\* The lines of one span, as RunTrace has the trace of one run.
LinesOf(s) ==
  LET own == Selected(trace[s[1]], {line \in ToSet(trace[s[1]]) : line.span = s})
  IN  [i \in DOMAIN own |-> own[i].entry]
LogOf(s) == INSTANCE RunTrace WITH log <- LinesOf(s), Denied <- "denied",
                                   Actions <- OrchActions \cup WorkerActions

Running(s) == pc[s] \notin {"off", "over"}
Goto(s, place) == pc' = [pc EXCEPT ![s] = place]

\* A thread that has emitted waits in call_from_thread until the UI thread has
\* consumed its event; once the app is gone the call raises, the bus swallows
\* that, and the thread goes on.
Free(q) == \A i \in DOMAIN inbox : inbox[i].span[1] # q
\* Mutant: the thread waits for an app that is gone.
EmitRegardless(s, kind) == inbox' = Append(inbox, [span |-> s, kind |-> kind])
Emit(s, kind) ==
  inbox' = IF app THEN Append(inbox, [span |-> s, kind |-> kind]) ELSE inbox

\* Mutant: a worker's events carry the span of its orchestrator.
LineSpanOfParent(s) == Orch(s[1])
LineSpan(s) == s
Persist(s, entry) ==
  trace' = [trace EXCEPT ![s[1]] = Append(@, [span |-> LineSpan(s), entry |-> entry])]

\* Leaving the pool of an action waits for the worker it has started.
\* Mutant: it does not.
PoolIdleAtOnce(q) == TRUE
PoolIdle(q) == \A s \in Span : s[1] = q /\ IsWorker(s) => ~Running(s)

At(s, place) == pc[s] = place /\ Free(s[1]) /\ (IsWorker(s) \/ PoolIdle(s[1]))

\* The requests made of the query's runtime are cleared; a worker's own flags
\* are never raised.
Forgotten(s, flags) == IF IsWorker(s) THEN flags ELSE flags \ {s[1]}
Forget(s) == paused' = Forgotten(s, paused) /\ stop' = Forgotten(s, stop)

-----------------------------------------------------------------------------
\* CoreRuntime.run, cut down.  What a run announces when it starts, in order.
OpeningSwapped == <<"SpanOpened", "RunStarted">>  \* mutant
Opening == <<"RunStarted", "SpanOpened">>
BeginRun(s) ==
  /\ At(s, "starting") /\ Goto(s, "opening") /\ Forget(s) /\ Emit(s, Opening[1])
  /\ UNCHANGED <<steps, action, results, observed, outcome, trace, held, app, panels, requests>>
OpenSpan(s) ==
  /\ At(s, "opening") /\ Goto(s, "ready")
  /\ Emit(s, Opening[2]) /\ Persist(s, LogOf(s)!Query)
  /\ UNCHANGED <<steps, action, results, observed, outcome, held, paused, stop, app,
                 panels, requests>>

\* Mutant: a run that fails tells no one.
EndEventOfAnswers(how) == IF how = "answered" THEN "RunCompleted" ELSE "BudgetProgress"
EndEvent(how) == IF how = "answered" THEN "RunCompleted" ELSE "RunFailed"
Finish(s, how) ==
  /\ Goto(s, "closing") /\ outcome' = [outcome EXCEPT ![s] = how]
  /\ Persist(s, IF how = "answered" THEN LogOf(s)!Answer ELSE LogOf(s)!Failure)
  /\ Emit(s, EndEvent(how))
\* The checkpoint waits while the run is paused; an interrupt, or a budget
\* that is used up, ends the run.
Checkpoint(s) ==
  /\ At(s, "ready") /\ (IsWorker(s) \/ s[1] \notin paused)
  /\ LET stopped == ~IsWorker(s) /\ s[1] \in stop
     IN  \/ Finish(s, "failed") /\ UNCHANGED steps
         \/ /\ ~stopped /\ steps[s] < StepsOf(s)
            /\ Goto(s, "thinking") /\ steps' = [steps EXCEPT ![s] = @ + 1]
            /\ UNCHANGED <<outcome, trace, inbox>>
  /\ UNCHANGED <<action, results, observed, held, paused, stop, app, panels, requests>>
BreakerTrips(s) ==
  /\ At(s, "tripped") /\ Finish(s, "failed")
  /\ UNCHANGED <<steps, action, results, observed, held, paused, stop, app, panels, requests>>

Used(q) == Cardinality({s \in Span : s[1] = q /\ IsWorker(s) /\ pc[s] # "off"})
MayDecide(s) ==
  CASE IsWorker(s) -> WorkerActions
    [] ~IsWorker(s) /\ Used(s[1]) < MaxWorkers[s[1]] -> OrchActions
    [] OTHER -> {}
\* The model answers, acts, or its adapter raises: then the run ends untold.
Think(s) ==
  /\ At(s, "thinking")
  /\ \/ Finish(s, "answered") /\ UNCHANGED <<action, results, observed>>
     \/ /\ \E a \in MayDecide(s) : action' = [action EXCEPT ![s] = a]
                                 /\ Persist(s, LogOf(s)!Action(a, ToSet(a)))
        /\ results' = [results EXCEPT ![s] = <<>>] /\ observed' = [observed EXCEPT ![s] = 0]
        /\ Goto(s, "acting") /\ UNCHANGED <<outcome, inbox>>
     \/ /\ Goto(s, "closing") /\ outcome' = [outcome EXCEPT ![s] = "raised"]
        /\ UNCHANGED <<action, results, observed, trace, inbox>>
  /\ UNCHANGED <<steps, held, paused, stop, app, panels, requests>>

-----------------------------------------------------------------------------
\* The pool runs the calls of an action one after another: a worker's plain
\* tools end at once, a delegate tool starts a worker or fails to build one.
Waiting(s) == At(s, "acting") /\ Len(results[s]) < Len(action[s])
ComesBack(s, got) == results' = [results EXCEPT ![s] = Append(@, got)]
RunTool(s) ==
  /\ Waiting(s)
  /\ \E got \in (IF IsWorker(s) THEN Outcome ELSE {"failed"}) : ComesBack(s, got)
  /\ UNCHANGED <<pc, steps, action, observed, outcome, trace, held, paused, stop, inbox, app,
                 panels, requests>>
Delegate(s) ==
  /\ Waiting(s) /\ ~IsWorker(s) /\ Used(s[1]) < MaxWorkers[s[1]]
  /\ Goto(<<s[1], Used(s[1]) + 1>>, "starting")
  /\ UNCHANGED <<steps, action, results, observed, outcome, trace, held, paused, stop, inbox,
                 app, panels, requests>>

\* Observations are recorded when all calls are through: each is what the pool
\* came back with, or a failure if the wait for it was too long.  A failure
\* may trip the breaker.
Observe(s) ==
  /\ At(s, "acting") /\ Len(results[s]) = Len(action[s]) /\ observed[s] < Len(action[s])
  /\ LET i == observed[s] + 1
     IN  \E got \in {results[s][i], "failed"} :
           /\ Persist(s, LogOf(s)!Observation(action[s][i], got))
           /\ Emit(s, IF got = "ok" THEN "ToolCompleted" ELSE "ToolErrored")
           /\ observed' = [observed EXCEPT ![s] = i]
           /\ \/ Goto(s, IF i = Len(action[s]) THEN "ready" ELSE "acting")
              \/ got # "ok" /\ Goto(s, "tripped")
  /\ UNCHANGED <<steps, action, results, outcome, held, paused, stop, app, panels, requests>>
\* The wall clock ran out while the calls ran: their results are dropped.
DropResults(s) ==
  /\ At(s, "acting") /\ Len(results[s]) = Len(action[s]) /\ observed[s] = 0
  /\ Finish(s, "failed")
  /\ UNCHANGED <<steps, action, results, observed, held, paused, stop, app, panels, requests>>

CloseSpan(s) ==
  /\ At(s, "closing") /\ Goto(s, "leaving") /\ Emit(s, "SpanClosed")
  /\ UNCHANGED <<steps, action, results, observed, outcome, trace, held, paused, stop, app,
                 panels, requests>>
\* run() returns, and its variables are gone; what _run_delegation makes of a
\* worker's result.
Returned(how) == IF how = "answered" THEN "ok" ELSE "failed"
Leave(s) ==
  /\ At(s, "leaving") /\ Goto(s, "over") /\ Forget(s)
  /\ action' = [action EXCEPT ![s] = <<>>] /\ observed' = [observed EXCEPT ![s] = 0]
  /\ steps' = [steps EXCEPT ![s] = 0]
  /\ LET cleared == [results EXCEPT ![s] = <<>>]
     IN  results' = IF IsWorker(s)
                    THEN [cleared EXCEPT ![Orch(s[1])] = Append(@, Returned(outcome[s]))]
                    ELSE cleared
  /\ UNCHANGED <<outcome, trace, held, inbox, app, panels, requests>>

-----------------------------------------------------------------------------
\* The UI thread.  A query's thread builds its runtime, then puts it into the
\* holder; only the one in the holder can be paused, resumed or interrupted.
Submit(q) ==
  /\ app /\ pc[Orch(q)] = "off" /\ \A p \in Queries : p < q => pc[Orch(p)] # "off"
  /\ Goto(Orch(q), "building")
  /\ UNCHANGED <<steps, action, results, observed, outcome, trace, held, paused, stop, inbox,
                 app, panels, requests>>
Hold(q) ==
  /\ At(Orch(q), "building") /\ Goto(Orch(q), "starting") /\ held' = q
  /\ UNCHANGED <<steps, action, results, observed, outcome, trace, paused, stop, inbox,
                 app, panels, requests>>

Request(change) ==
  /\ app /\ held # 0 /\ requests < MaxRequests /\ requests' = requests + 1 /\ change
  /\ UNCHANGED <<run, trace, held, inbox, app, panels>>
RequestPause == Request(paused' = paused \cup {held} /\ UNCHANGED stop)
RequestResume == Request(paused' = paused \ {held} /\ UNCHANGED stop)
RequestInterrupt == Request(stop' = stop \cup {held} /\ paused' = paused \ {held})

\* _consume_bus: every panel's consume_event, then the jobs panel.
HangNode(s) ==
  [t \in DOMAIN nodes \cup {s} |->
     IF t # s THEN nodes[t] ELSE IF Parent(s) \in DOMAIN nodes THEN Parent(s) ELSE <<>>]
SpanTree(ev) ==
  CASE ev.kind = "SpanOpened" -> HangNode(ev.span)
    [] ev.kind = "SpanClosed" -> [s \in DOMAIN nodes \ {ev.span} |-> nodes[s]]
    [] OTHER -> nodes
Flame(ev) ==
  CASE ev.kind = "RunStarted" -> Dark
    [] ev.kind = "SpanOpened" -> [flame EXCEPT !.opened = @ \cup {ev.span}]
    [] ev.kind = "SpanClosed" -> [opened |-> flame.opened \ {ev.span},
                                  timed |-> flame.timed \cup (flame.opened \cap {ev.span})]
    [] OTHER -> flame
Jobs(ev) ==
  CASE ev.kind = "RunStarted" -> [state |-> "running", query |-> ev.span[1]]
    [] ev.kind = "RunCompleted" -> [state |-> "completed", query |-> ev.span[1]]
    [] ev.kind = "RunFailed" -> [state |-> "failed", query |-> ev.span[1]]
    [] OTHER -> jobs
Consume ==
  /\ app /\ inbox # <<>> /\ inbox' = Tail(inbox)
  /\ nodes' = SpanTree(Head(inbox)) /\ flame' = Flame(Head(inbox)) /\ jobs' = Jobs(Head(inbox))
  /\ UNCHANGED <<run, trace, held, paused, stop, app, requests>>

\* The app leaves without a word to the runs: what they have emitted fails, and the
\* panels and the holder are gone.
Quit ==
  /\ app /\ app' = FALSE /\ inbox' = <<>> /\ held' = 0
  /\ nodes' = <<>> /\ flame' = Dark /\ jobs' = Quiet
  /\ UNCHANGED <<run, trace, paused, stop, requests>>

RunStep(s) ==
  \/ BeginRun(s) /\ latest' = s
  \/ /\ \/ OpenSpan(s) \/ Checkpoint(s) \/ Think(s) \/ RunTool(s) \/ Delegate(s)
        \/ Observe(s) \/ DropResults(s) \/ BreakerTrips(s) \/ CloseSpan(s) \/ Leave(s)
     /\ UNCHANGED latest
ScreenStep ==
  \/ \E q \in Queries : Submit(q) \/ Hold(q)
  \/ RequestPause \/ RequestResume \/ RequestInterrupt \/ Consume \/ Quit
Next == (\E s \in Span : RunStep(s)) \/ (ScreenStep /\ UNCHANGED latest)

\* The threads are scheduled, models, tools and adapters return, and the
\* event loop gets round to what was posted to it.
Fairness ==
  /\ \A s \in Span : WF_vars(RunStep(s))
  /\ \A q \in Queries : WF_vars(Hold(q) /\ UNCHANGED latest)
  /\ WF_vars(Consume /\ UNCHANGED latest)

Spec == Init /\ [][Next]_vars /\ Fairness

-----------------------------------------------------------------------------
\* The lines of one span in a team's trace file are the trace of one run,
\* whatever the other runs write between them: docs/teams.md's "reconstruct
\* the hierarchy from these fields" holds of the file (delegation.py 79-94).
EverySpanIsARun ==
  /\ \A s \in Span : LogOf(s)!Init
  /\ [][\A s \in Span : trace'[s[1]] # trace[s[1]] =>
                           UNCHANGED LinesOf(s) \/ LogOf(s)!Next]_trace

\* A worker writes only while the orchestrator's latest line is the action
\* that called it, and the orchestrator is told "ok" at most as often as
\* workers have answered since that action, however the waits time out
\* (delegation.py 94-123, scheduler.py 100-102).
OwnLines(q, n) == {i \in 1..n : trace[q][i].span = Orch(q)}
Latest(lines) == CHOOSE i \in lines : \A j \in lines : j <= i
SinceAction(q, n) ==
  (Latest({i \in OwnLines(q, n) : trace[q][i].entry.kind = "action"})) .. n
TraceNests ==
  \A q \in Queries : \A n \in DOMAIN trace[q] :
    LET line == trace[q][n]
    IN  /\ IsWorker(line.span) =>
             /\ OwnLines(q, n) # {}
             /\ trace[q][Latest(OwnLines(q, n))].entry.kind = "action"
        /\ line.span = Orch(q) /\ line.entry.kind = "observation" =>
             Cardinality({i \in SinceAction(q, n) :
                            /\ trace[q][i].span = Orch(q)
                            /\ trace[q][i].entry.kind = "observation"
                            /\ trace[q][i].entry.got = "ok"})
               <= Cardinality({i \in SinceAction(q, n) :
                                 /\ IsWorker(trace[q][i].span)
                                 /\ trace[q][i].entry.kind = "answer"})

\* The span tree hangs a worker under the orchestrator of its own query, also
\* when the runs of two queries overlap (span_tree.py 47-68).
TreeHangsWorkers == \A s \in DOMAIN nodes : nodes[s] = Parent(s)

\* The run whose start came last is timed once it is over: nothing it or the
\* runs before it have announced, in whatever order their threads and the UI
\* thread take turns, makes the panel lose it (flame.py 40-58).  Of a run that is
\* overtaken, an orchestrator that delegates among them, nothing is promised here;
\* docs/cli.md 175 promises every agent's time.
FlameTimesTheLast == app /\ latest # <<>> /\ pc[latest] = "over" => latest \in flame.timed

\* When nothing runs and nothing is left to show, the jobs panel says so, unless
\* a run ended by an exception, of which no one is told (command_center.py
\* 549-570).
IdlePanelIsIdle ==
  app /\ inbox = <<>> /\ (\A s \in Span : ~Running(s)) /\ jobs.state = "running" =>
    \E s \in Span : s[1] = jobs.query /\ outcome[s] = "raised"

\* Every query ends, with the app or without it, unless its run stays paused:
\* nobody waits for a panel, for a pool or for another query (event_bus.py
\* 48-53, command_center.py 506-507 and 611-631).
RunsEnd ==
  \A q \in Queries :
    <>[](q \in paused) \/ (pc[Orch(q)] = "building" ~> pc[Orch(q)] = "over")
==============================================================================

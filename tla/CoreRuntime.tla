----------------------------- MODULE CoreRuntime -----------------------------
(***************************************************************************)
(* CoreRuntime.run and _execute_action (core/runtime.py) with what they    *)
(* call: the Tool Policy and the Approval Gate, the budget meter, the      *)
(* circuit breaker, the trace store, the event bus and the memory port.    *)
(* Another thread may pause, resume or interrupt the run between any two   *)
(* steps, the wall-clock budget may run out between any two steps, and     *)
(* every call into an adapter (model, memory, trace store) may raise.      *)
(*                                                                         *)
(* ToolScheduler.execute is one Dispatch step and one step for its return, *)
(* as BatchExecution promises and module ToolScheduler is shown to keep.   *)
(***************************************************************************)
EXTENDS SequencesExt, Selection

CONSTANTS
  Call,            \* tool calls of NAP actions
  ToolOf,          \* the tool name a call carries
  Registered,      \* names of the tools of this runtime
  AllowedTools,    \* ToolPolicy.allowed_tools
  ApprovalTools,   \* the tools of a tier that requires approval
  ValidCalls,      \* the calls whose arguments fit the tool's schema
  Actions,         \* the NAP actions the model may send
  Ok, FailureKind, \* what a tool comes back with: Ok or a failure signature
  Denied,          \* the observation made for a denied call
  MaxSteps, MaxToolCalls, MaxRetries,
  Requests         \* the control requests the operator may make

Outcome == FailureKind \cup {Ok}

ASSUME RuntimeAssumption ==
  /\ Actions \subseteq Seq(Call) \ {<<>>}
  /\ \A a \in Actions : IsInjective(a)
  /\ DOMAIN ToolOf = Call
  /\ Registered \subseteq Range(ToolOf)
  /\ Ok \notin FailureKind /\ Denied \notin Outcome
  /\ MaxSteps \in Nat /\ MaxToolCalls \in Nat /\ MaxRetries \in Int
  /\ Requests \subseteq {"pause", "resume", "interrupt"}

VARIABLES
  pc,              \* where the thread in run() is
  replaying,       \* the scheduler answers from recorded observations
  outcome,         \* "none", then "answered", "failed" or "raised"
  action, allowed, \* the action being executed and the calls policy let through
  next,            \* position in the loops over the calls of the action
  results,         \* the scheduler's observations of the calls let through
  steps, toolCalls,\* the budget meter
  breaker,         \* per tool, the last failure signature and its streak
  trace,           \* the events appended to the trace store
  bus,             \* the events emitted on the bus
  memory,          \* "idle", "open" between start_run and finish_run, "closed"
  remembered,      \* number of record_observation calls
  paused, interrupted,     \* the two threading.Events
  late,            \* the wall-clock budget is used up
  approved, executed,      \* history, per action: what the gate granted, what ran
  modelCalls, executions,  \* history: how often the model and the tools were called
  lastRequest, sinceInterrupt  \* history: the operator's requests, and the model
                               \* calls made since an interrupt was asked for

control == <<paused, interrupted, lastRequest>>
meter == <<steps, toolCalls>>
work == <<action, allowed, next, results>>
audit == <<approved, executed>>
counts == <<modelCalls, executions, sinceInterrupt>>
memo == <<memory, remembered>>
vars == <<pc, replaying, outcome, work, meter, breaker, trace, bus, memo, control,
          late, audit, counts>>

Tool == Range(ToolOf)
InRun == pc \notin {"idle", "done"}
FailureCode == {"budget_exceeded", "circuit_breaker_tripped", "interrupted"}

T == INSTANCE RunTrace WITH log <- trace

Event(kind) == [kind |-> kind]
ToolEvent(kind, c) == [kind |-> kind, call |-> c]

Persist(e) == trace' = Append(trace, e)
Emit(e) == bus' = Append(bus, e)

----------------------------------------------------------------------------
(* Policy and breaker *)

Allowable(c) == /\ ToolOf[c] \in Registered
                /\ ToolOf[c] \in AllowedTools
                /\ c \in ValidCalls

EnforceIgnoringGate(c, yes) == Allowable(c)

(* ToolPolicy.enforce, given the answer of the Approval Gate if asked. *)
Enforce(c, yes) == /\ Allowable(c)
                   /\ ToolOf[c] \in ApprovalTools => yes

BreakerLimit == IF MaxRetries <= 0 THEN 1 ELSE MaxRetries

NoStreak == [sig |-> Ok, count |-> 0]

RecordNeverResets(b, t, got) ==
  IF got = Ok THEN b
  ELSE [b EXCEPT ![t] = [sig |-> got, count |-> IF @.sig = got THEN @.count + 1 ELSE 1]]

(* CircuitBreaker.record *)
Record(b, t, got) ==
  IF got = Ok THEN [b EXCEPT ![t] = NoStreak]
  ELSE [b EXCEPT ![t] = [sig |-> got, count |-> IF @.sig = got THEN @.count + 1 ELSE 1]]

ShouldTrip(b, t) == b[t].count >= BreakerLimit

ApprovalsOfWholeAction == Len(action)
Approvals == Cardinality(allowed)

(* The loop over the observations goes from the call at i to the one at j, *)
(* the next that was let through.                                          *)
ApprovedAfter(i) == {j \in DOMAIN action : j > i /\ action[j] \in allowed}
NextApproved(i, j) == j \in ApprovedAfter(i) /\ \A k \in ApprovedAfter(i) : j <= k

----------------------------------------------------------------------------
(* Ways to leave the loop *)

FailWith(code) == pc' = "failing" /\ outcome' = code
Raise == pc' = "finally" /\ outcome' = "raised"
Continue(to) == pc' = to /\ outcome' = outcome

Idle == action' = <<>> /\ allowed' = {} /\ next' = 1 /\ results' = <<>>

Init ==
  /\ pc = "idle" /\ outcome = "none"
  /\ replaying \in BOOLEAN
  /\ action = <<>> /\ allowed = {} /\ next = 1 /\ results = <<>>
  /\ steps = 0 /\ toolCalls = 0
  /\ breaker = [t \in Tool |-> NoStreak]
  /\ trace = <<>> /\ bus = <<>>
  /\ memory = "idle" /\ remembered = 0
  /\ paused = FALSE /\ interrupted = FALSE /\ lastRequest = "none"
  /\ late = FALSE
  /\ approved = {} /\ executed = {}
  /\ modelCalls = 0 /\ executions = 0 /\ sinceInterrupt = 0

(* The prologue, before the try block: an exception here leaves run() at    *)
(* once.  Requests made before the run began are forgotten.                 *)

Begin ==
  /\ pc = "idle"
  /\ paused' = FALSE /\ interrupted' = FALSE /\ lastRequest' = "none"
  /\ sinceInterrupt' = 0
  /\ bus' = bus \o <<Event("RunStarted"), Event("SpanOpened")>>
  /\ pc' = "query"
  /\ UNCHANGED <<replaying, outcome, work, meter, breaker, trace, memo, late, audit,
                 modelCalls, executions>>

PersistQuery ==
  /\ pc = "query"
  /\ \/ Persist(T!Query) /\ Continue("start_memory")
     \/ trace' = trace /\ pc' = "done" /\ outcome' = "raised"
  /\ UNCHANGED <<replaying, work, meter, breaker, bus, memo, control, late, audit, counts>>

StartMemory ==
  /\ pc = "start_memory"
  /\ \/ memory' = "open" /\ Continue("loop")
     \/ memory' = memory /\ pc' = "done" /\ outcome' = "raised"
  /\ UNCHANGED <<replaying, work, meter, breaker, trace, bus, remembered, control, late,
                 audit, counts>>

----------------------------------------------------------------------------
(* The loop *)

(* BudgetMeter: a counter is raised first and compared with its limit then *)
StepBudgetOffByOne(n) == n > MaxSteps + 1
StepBudgetExceeded(n) == n > MaxSteps

ToolBudgetOffByOne(n) == n > MaxToolCalls + 1
ToolBudgetExceeded(n) == n > MaxToolCalls

StopIgnored == FALSE
StopRequested == interrupted

(* _cooperative_checkpoint, then BudgetMeter.consume_step *)
Checkpoint ==
  /\ pc = "loop" /\ ~paused
  /\ IF StopRequested \/ late
     THEN FailWith(IF StopRequested THEN "interrupted" ELSE "budget_exceeded") /\ UNCHANGED steps
     ELSE /\ steps' = steps + 1
          /\ IF StepBudgetExceeded(steps') THEN FailWith("budget_exceeded")
                                           ELSE Continue("retrieve")
  /\ UNCHANGED <<replaying, work, toolCalls, breaker, trace, bus, memo, control, late,
                 audit, counts>>

Retrieve ==
  /\ pc = "retrieve"
  /\ Continue("ask") \/ Raise
  /\ UNCHANGED <<replaying, work, meter, breaker, trace, bus, memo, control, late, audit,
                 counts>>

NextMessage ==
  /\ pc = "ask"
  /\ modelCalls' = modelCalls + 1
  /\ sinceInterrupt' = IF interrupted THEN sinceInterrupt + 1 ELSE 0
  /\ \/ Raise /\ action' = action
     \/ Continue("answer") /\ action' = action
     \/ Continue("enforce") /\ action' \in Actions
  /\ UNCHANGED <<replaying, allowed, next, results, meter, breaker, trace, bus, memo,
                 control, late, audit, executions>>

PersistAnswer ==
  /\ pc = "answer"
  /\ \/ /\ Persist(T!Answer) /\ Emit(Event("RunCompleted"))
        /\ pc' = "finally" /\ outcome' = "answered"
     \/ Raise /\ UNCHANGED <<trace, bus>>
  /\ UNCHANGED <<replaying, work, meter, breaker, memo, control, late, audit, counts>>

(* The decisions of all calls are made before anything is persisted; the   *)
(* Approval Gate, asked only about calls that need it, may raise.          *)
EnforcePolicy ==
  /\ pc = "enforce"
  /\ LET asked == {c \in ToSet(action) : Allowable(c) /\ ToolOf[c] \in ApprovalTools}
     IN \/ /\ \E yes \in SUBSET asked :
                 /\ approved' = yes
                 /\ allowed' = {c \in ToSet(action) : Enforce(c, c \in yes)}
           /\ executed' = {}
           /\ Continue("act")
        \/ /\ asked # {}
           /\ Raise /\ UNCHANGED <<audit, allowed>>
  /\ UNCHANGED <<replaying, action, next, results, meter, breaker, trace, bus, memo,
                 control, late, counts>>

PersistAction ==
  /\ pc = "act"
  /\ \/ Persist(T!Action(action, allowed)) /\ Continue("announce")
     \/ Raise /\ trace' = trace
  /\ UNCHANGED <<replaying, work, meter, breaker, bus, memo, control, late, audit, counts>>

AfterAnnouncing == IF next < Len(action)
                   THEN Continue("announce") /\ next' = next + 1 /\ UNCHANGED <<action, allowed>>
                   ELSE /\ next' = 1
                        /\ IF allowed = {}
                           THEN Continue("loop") /\ action' = <<>> /\ allowed' = allowed
                           ELSE Continue("charge") /\ UNCHANGED <<action, allowed>>

(* One turn of the loop that announces allowed calls and answers denied ones. *)
Announce ==
  /\ pc = "announce"
  /\ LET c == action[next]
     IN \/ /\ c \in allowed
           /\ trace' = trace /\ Emit(ToolEvent("ToolInvoked", c))
           /\ AfterAnnouncing
        \/ /\ c \notin allowed
           /\ Persist(T!Observation(c, Denied)) /\ Emit(ToolEvent("ToolErrored", c))
           /\ AfterAnnouncing
        \/ /\ c \notin allowed
           /\ Raise /\ UNCHANGED <<trace, bus, action, allowed, next>>
  /\ UNCHANGED <<replaying, results, meter, breaker, memo, control, late, audit, counts>>

(* BudgetMeter.consume_tool_call for every allowed call, before any of them runs *)
Charge ==
  /\ pc = "charge"
  /\ IF late THEN FailWith("budget_exceeded") /\ UNCHANGED toolCalls
     ELSE IF ToolBudgetExceeded(toolCalls + Approvals)
     THEN FailWith("budget_exceeded") /\ toolCalls' = MaxToolCalls + 1
     ELSE Continue("dispatch") /\ toolCalls' = toolCalls + Approvals
  /\ UNCHANGED <<replaying, work, steps, breaker, trace, bus, memo, control, late, audit,
                 counts>>

DispatchedWholeAction == ToSet(action)
Dispatched == IF replaying THEN {} ELSE allowed

(* ToolScheduler.execute is entered; a replaying scheduler runs no tool. *)
Dispatch ==
  /\ pc = "dispatch"
  /\ executed' = Dispatched
  /\ executions' = IF replaying THEN executions ELSE executions + Approvals
  /\ Continue("executing")
  /\ UNCHANGED <<replaying, work, meter, breaker, trace, bus, memo, control, late,
                 approved, modelCalls, sinceInterrupt>>

(* ... and left: with one observation per call, or because the wall clock  *)
(* ran out between two waits, or because a recording is missing.           *)
Execute ==
  /\ pc = "executing"
  /\ \/ /\ results' \in [allowed -> Outcome]
        /\ \E j \in DOMAIN action : NextApproved(0, j) /\ next' = j
        /\ Continue("record")
     \/ late /\ FailWith("budget_exceeded") /\ UNCHANGED <<next, results>>
     \/ replaying /\ Raise /\ UNCHANGED <<next, results>>
  /\ UNCHANGED <<replaying, action, allowed, meter, breaker, trace, bus, memo,
                 control, late, audit, counts>>

MemoryToldOfSuccesses(got) == IF got = Ok THEN remembered + 1 ELSE remembered
MemoryTold(got) == remembered + 1

LastAtFailure(got) == ApprovedAfter(next) = {} \/ got # Ok
LastObservation(got) == ApprovedAfter(next) = {}

(* One turn of the loop over the scheduler's observations: memory, trace,  *)
(* bus, breaker, in this order; memory and trace store may raise.          *)
RecordObservation ==
  /\ pc = "record"
  /\ LET c == action[next]
         got == results[c]
         told == ToolEvent(IF got = Ok THEN "ToolCompleted" ELSE "ToolErrored", c)
         b == IF replaying THEN breaker ELSE Record(breaker, ToolOf[c], got)
         trips == ~replaying /\ ShouldTrip(b, ToolOf[c])
     IN \/ /\ remembered' = MemoryTold(got)
           /\ Persist(T!Observation(c, got))
           /\ breaker' = b
           /\ bus' = bus \o IF trips THEN <<told, ToolEvent("CircuitBreakerTripped", c)>>
                                     ELSE <<told>>
           /\ IF trips THEN FailWith("circuit_breaker_tripped") /\ UNCHANGED work
              ELSE IF LastObservation(got)
              THEN Continue("loop") /\ Idle
              ELSE /\ Continue("record") /\ UNCHANGED <<action, allowed, results>>
                   /\ \E j \in DOMAIN action : NextApproved(next, j) /\ next' = j
        \/ /\ Raise
           /\ remembered' \in {remembered, remembered + 1}
           /\ UNCHANGED <<trace, bus, breaker, work>>
  /\ UNCHANGED <<replaying, meter, memory, control, late, audit, counts>>

----------------------------------------------------------------------------
(* The except clauses and the finally block *)

PersistFailureAfterTelling ==
  /\ pc = "failing"
  /\ Emit(Event("RunFailed"))
  /\ \/ Persist(T!Failure) /\ pc' = "finally" /\ outcome' = outcome
     \/ Raise /\ trace' = trace
  /\ UNCHANGED <<replaying, work, meter, breaker, memo, control, late, audit, counts>>

PersistFailure ==
  /\ pc = "failing"
  /\ \/ /\ Persist(T!Failure) /\ Emit(Event("RunFailed"))
        /\ pc' = "finally" /\ outcome' = outcome
     \/ Raise /\ UNCHANGED <<trace, bus>>
  /\ UNCHANGED <<replaying, work, meter, breaker, memo, control, late, audit, counts>>

Finally ==
  /\ pc = "finally"
  /\ pc' = "done"
  /\ \/ /\ memory' = "closed" /\ outcome' = outcome
        /\ Emit(Event("SpanClosed"))
        /\ interrupted' = FALSE /\ paused' = FALSE /\ lastRequest' = "none"
     \/ /\ outcome' = "raised"                     \* finish_run raises
        /\ UNCHANGED <<memory, bus, control>>
  /\ UNCHANGED <<replaying, work, meter, breaker, trace, remembered, late, audit, counts>>

----------------------------------------------------------------------------
(* The operator's thread, and time *)

Request(what) ==
  /\ what \in Requests
  /\ pc # "done"
  /\ lastRequest' = what
  /\ UNCHANGED <<pc, replaying, outcome, work, meter, breaker, trace, bus, memo, late,
                 audit, counts>>

RequestPause == Request("pause") /\ paused' = TRUE /\ UNCHANGED interrupted
RequestResume == Request("resume") /\ paused' = FALSE /\ UNCHANGED interrupted
InterruptLeavesPaused == Request("interrupt") /\ interrupted' = TRUE /\ UNCHANGED paused
RequestInterrupt == Request("interrupt") /\ interrupted' = TRUE /\ paused' = FALSE

WallClockRunsOut ==
  /\ InRun /\ ~late
  /\ late' = TRUE
  /\ UNCHANGED <<pc, replaying, outcome, work, meter, breaker, trace, bus, memo, control,
                 audit, counts>>

Returned == pc = "done" /\ UNCHANGED vars

Run == \/ Begin \/ PersistQuery \/ StartMemory
       \/ Checkpoint \/ Retrieve \/ NextMessage \/ PersistAnswer
       \/ EnforcePolicy \/ PersistAction \/ Announce
       \/ Charge \/ Dispatch \/ Execute \/ RecordObservation
       \/ PersistFailure \/ Finally

Operator == RequestPause \/ RequestResume \/ RequestInterrupt

Next == Run \/ Operator \/ WallClockRunsOut \/ Returned

Spec == Init /\ [][Next]_vars

(* The thread in run() is scheduled, and the adapters and tools it calls   *)
(* return or raise.  Nothing obliges the operator to do anything.          *)
FairSpec == Spec /\ WF_vars(Run)

----------------------------------------------------------------------------
ControlType ==
  /\ pc \in {"idle", "query", "start_memory", "loop", "retrieve", "ask", "answer", "enforce",
             "act", "announce", "charge", "dispatch", "executing", "record", "failing",
             "finally", "done"}
  /\ outcome \in FailureCode \cup {"none", "answered", "raised"}
  /\ memory \in {"idle", "open", "closed"}
  /\ lastRequest \in {"none", "pause", "resume", "interrupt"}
  /\ {replaying, paused, interrupted, late} \subseteq BOOLEAN

WorkType ==
  /\ action \in Actions \cup {<<>>}
  /\ allowed \subseteq ToSet(action)
  /\ next \in Nat \ {0}
  /\ results \in [allowed -> Outcome] \cup {<<>>}
  /\ pc \in {"idle", "query", "start_memory", "loop", "retrieve", "ask", "enforce"}
       => allowed = {} /\ results = <<>>

(* The loops over the calls of an action stay within it. *)
CursorType ==
  /\ pc \in {"idle", "query", "start_memory", "loop", "retrieve", "ask", "enforce", "act"}
       => next = 1
  /\ pc \in {"enforce", "act", "announce", "charge", "dispatch", "executing", "record"}
       => action \in Actions
  /\ pc = "announce" => next \in DOMAIN action
  /\ pc = "record" => next \in ApprovedAfter(0) /\ results \in [allowed -> Outcome]

MeterType ==
  /\ steps \in 0..MaxSteps + 1
  /\ toolCalls \in 0..MaxToolCalls + 1
  /\ pc \notin {"failing", "finally", "done"} => steps <= MaxSteps /\ toolCalls <= MaxToolCalls
  /\ modelCalls \in Nat /\ executions \in Nat
  /\ sinceInterrupt \in Nat /\ remembered \in Nat

RecordType ==
  /\ trace \in Seq(T!Entry)
  /\ breaker \in [Tool -> [sig : Outcome, count : Nat]]
  /\ approved \subseteq Call /\ executed \subseteq Call

(* Every state of a run is well formed: the observations of a batch are    *)
(* those of the calls let through, and the meter never counts further than *)
(* one above a limit.                                                      *)
TypeOK == ControlType /\ WorkType /\ CursorType /\ MeterType /\ RecordType

(* The trace this run writes is one that RunTrace allows. *)
ImplementsRunTrace == T!Spec

(* Step and tool-call budgets are hard caps on what is really called, not  *)
(* only on the meter, whatever mix of actions the model sends.             *)
CapsHold == modelCalls <= MaxSteps /\ executions <= MaxToolCalls

(* A tool that runs was let through by every rule of the policy, by the    *)
(* Approval Gate where its tier asks for it, and the trace already held    *)
(* that decision: an action is on disk before any of its effects.          *)
AuditedExecution ==
  executed # {} =>
    \E k \in DOMAIN trace :
      /\ trace[k].kind = "action" /\ executed \subseteq trace[k].allowed
      /\ \A j \in k + 1 .. Len(trace) : trace[j].kind # "action"
      /\ \A c \in executed : /\ Allowable(c)
                             /\ ToolOf[c] \in ApprovalTools => c \in approved

(* The observations of tool t that the breaker sees *)
OutcomesOf(t) == Selected(trace, {e \in ToSet(trace) : /\ e.kind = "observation" /\ e.got # Denied
                                                       /\ ToolOf[e.call] = t})

(* Read off the trace alone: once a tool has failed BreakerLimit times in  *)
(* a row in the same way, the run takes no further step; and a run is      *)
(* failed by the breaker for no other reason.                              *)
Hopeless(t) == LET s == OutcomesOf(t)
               IN /\ Len(s) >= BreakerLimit
                  /\ Last(s).got # Ok
                  /\ \A i \in Len(s) - BreakerLimit + 1 .. Len(s) : s[i].got = Last(s).got
BreakerStopsHopelessRuns ==
  ~replaying =>
    /\ (\E t \in Tool : Hopeless(t)) => pc \in {"failing", "finally", "done"}
    /\ outcome = "circuit_breaker_tripped" => \E t \in Tool : Hopeless(t)

Emitted(kind) == \E i \in DOMAIN bus : bus[i].kind = kind
CountOf(s, Test(_)) == Cardinality({i \in DOMAIN s : Test(s[i])})

(* Subscribers learn nothing that the trace does not already hold: every   *)
(* completed or failed call they see has its observation on disk, a        *)
(* completed run its answer, with every call answered, a failed run its    *)
(* failure; and no observation on disk stays unannounced.                  *)
BusFollowsTrace ==
  /\ Emitted("RunCompleted") => Last(trace) = T!Answer
  /\ Emitted("RunFailed") => Last(trace) = T!Failure
  /\ \A c \in Call :
       CountOf(bus, LAMBDA e : e.kind \in {"ToolCompleted", "ToolErrored"} /\ e.call = c)
         = CountOf(trace, LAMBDA e : T!Observes(e, c))

(* In a run that completes, every call announced as invoked was also       *)
(* announced as completed or failed.                                       *)
CompletedRunLeavesNoCallOpen ==
  Emitted("RunCompleted") =>
    \A c \in Call : \A i \in DOMAIN bus :
      bus[i] = ToolEvent("ToolInvoked", c) =>
        \E j \in i + 1 .. Len(bus) :
           bus[j].kind \in {"ToolCompleted", "ToolErrored"} /\ bus[j].call = c

(* The memory port has been told of every executed observation the trace   *)
(* holds, and of at most one more, whose persisting raised.                *)
MemoryKeepsUpWithTrace ==
  LET persisted == CountOf(trace, LAMBDA e : e.kind = "observation" /\ e.got # Denied)
  IN remembered = persisted \/ (outcome = "raised" /\ remembered = persisted + 1)

(* "Stop the current run cleanly after the next checkpoint"                *)
(* (core/runtime.py:127): after an interrupt at most the model call that   *)
(* is under way is made.                                                   *)
InterruptIsPrompt == interrupted => sinceInterrupt <= 1

(* The run ends unless the operator's last word was to pause it.  (A pause *)
(* that came after an interrupt is a last word too.)                       *)
RunEnds == <>[](lastRequest # "pause") => <>(pc = "done")

=============================================================================

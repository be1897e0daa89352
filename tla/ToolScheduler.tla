---------------------------- MODULE ToolScheduler ----------------------------
(***************************************************************************)
(* One call of ToolScheduler.execute (core/scheduler.py): the thread that  *)
(* runs the agent submits the approved calls of an action to a thread      *)
(* pool, then collects their futures in order, checking the wall clock     *)
(* before each one and giving each wait a per-tool timeout.  Leaving the   *)
(* `with ThreadPoolExecutor` block, on return and on an exception alike,   *)
(* waits for every submitted future.                                       *)
(*                                                                         *)
(* The pool's workers interleave with the collecting thread; a timeout and *)
(* the end of the run's wall-clock budget may come at any moment.          *)
(***************************************************************************)
EXTENDS SequencesExt

CONSTANTS Call,        \* tool calls, each with an id of its own
          ToolOf,      \* the tool a call names
          ReadOnly,    \* the tools whose spec says read_only
          Outcome,     \* the observations a tool invocation can come back with
          TimedOut, Missing, NoResult,
          Batches      \* the approved calls of the actions considered

Sentinels == {TimedOut, Missing, NoResult}

ASSUME SchedulerAssumption ==
  /\ Batches \subseteq Seq(Call)
  /\ \A b \in Batches : IsInjective(b)    \* parse_nap_message: ids are unique in an action
  /\ Outcome \cap Sentinels = {}
  /\ TimedOut # Missing /\ Missing # NoResult /\ NoResult # TimedOut

VARIABLES batch,       \* the approved calls
          metered,     \* a BudgetMeter was passed (CoreRuntime always does)
          recorded,    \* recorded_observations; Live when there are none
          pc,          \* the collecting thread
          queue,       \* the pool's work queue
          running,     \* the calls a worker is invoking
          result,      \* the state of the futures
          started,     \* the invocations so far, in the order they began
          touched,     \* the calls whose tool really ran
          obs,         \* the observations collected so far
          error,       \* the exception that is leaving the `with` block
          late         \* the wall-clock budget is used up

vars == <<batch, metered, recorded, pc, queue, running, result, started,
          touched, obs, error, late>>
inputs == <<batch, metered, recorded>>

Live == [c \in {} |-> NoResult]
Replaying == recorded # Live

----------------------------------------------------------------------------
(* The pool *)

CanParallelizeDuplicates(calls) ==
  /\ Len(calls) > 1
  /\ \A i \in DOMAIN calls : ToolOf[calls[i]] \in ReadOnly

CanParallelizeAny(calls) == Len(calls) > 1

CanParallelize(calls) ==
  /\ Len(calls) > 1
  /\ \A i, j \in DOMAIN calls : i # j => ToolOf[calls[i]] # ToolOf[calls[j]]
  /\ \A i \in DOMAIN calls : ToolOf[calls[i]] \in ReadOnly

MaxWorkersOffByOne(calls) == Len(calls) - 1

MaxWorkers(calls) == IF CanParallelize(calls) THEN Len(calls) ELSE 1

(* What one invocation may come back with: `invoke` answers from the       *)
(* recordings when there are any, and turns every exception of a live tool *)
(* into a failed observation.                                              *)
Invoke(c) == IF Replaying THEN {recorded[c]} ELSE Outcome

TouchedWhenMissing(c) == IF Replaying /\ recorded[c] # Missing THEN touched
                                                              ELSE touched \cup {c}

(* The tools an invocation really runs. *)
Touched(c) == IF Replaying THEN touched ELSE touched \cup {c}

----------------------------------------------------------------------------
Init ==
  /\ batch \in Batches
  /\ metered \in BOOLEAN
  /\ recorded \in {Live} \cup [Call -> Outcome \cup {Missing}]
  /\ pc = IF batch = <<>> THEN "returned" ELSE "submit"
  /\ queue = <<>> /\ running = {} /\ started = <<>> /\ touched = {} /\ obs = <<>>
  /\ result = [c \in Call |-> NoResult]
  /\ error = "none"
  /\ late = FALSE

(* The collecting thread *)

Submit ==
  /\ pc = "submit"
  /\ LET n == Len(started) + Len(queue) + 1
     IN /\ queue' = Append(queue, batch[n])
        /\ pc' = IF n = Len(batch) THEN "check" ELSE "submit"
  /\ UNCHANGED <<inputs, running, result, started, touched, obs, error, late>>

CheckWallClock ==
  /\ pc = "check"
  /\ IF metered /\ late
     THEN pc' = "shutdown" /\ error' = "budget"
     ELSE pc' = "await" /\ error' = error
  /\ UNCHANGED <<inputs, queue, running, result, started, touched, obs, late>>

Awaited == batch[Len(obs) + 1]

CollectObservation(o) ==
  /\ obs' = Append(obs, o)
  /\ pc' = IF Len(obs') = Len(batch) THEN "shutdown" ELSE "check"
  /\ error' = error

FutureEndsSwallowing ==
  /\ pc = "await"
  /\ result[Awaited] # NoResult
  /\ CollectObservation(result[Awaited])
  /\ UNCHANGED <<inputs, queue, running, result, started, touched, late>>

FutureEnds ==
  /\ pc = "await"
  /\ result[Awaited] # NoResult
  /\ IF result[Awaited] = Missing
     THEN pc' = "shutdown" /\ error' = "replay_missing" /\ obs' = obs
     ELSE CollectObservation(result[Awaited])
  /\ UNCHANGED <<inputs, queue, running, result, started, touched, late>>

WaitTimesOut ==
  /\ pc = "await"
  /\ metered
  /\ result[Awaited] = NoResult
  /\ CollectObservation(TimedOut)
  /\ UNCHANGED <<inputs, queue, running, result, started, touched, late>>

ShutdownAbandonsPool ==
  /\ pc = "shutdown"
  /\ pc' = IF error = "none" THEN "returned" ELSE "raised"
  /\ UNCHANGED <<inputs, queue, running, result, started, touched, obs, error, late>>

(* ThreadPoolExecutor.__exit__ is shutdown(wait=True). *)
Shutdown ==
  /\ pc = "shutdown"
  /\ queue = <<>> /\ running = {}
  /\ pc' = IF error = "none" THEN "returned" ELSE "raised"
  /\ UNCHANGED <<inputs, queue, running, result, started, touched, obs, error, late>>

(* The workers *)

BeginLastIn ==
  /\ queue # <<>>
  /\ Cardinality(running) < MaxWorkers(batch)
  /\ LET c == Last(queue)
     IN /\ queue' = Front(queue)
        /\ running' = running \cup {c}
        /\ started' = Append(started, c)
        /\ touched' = Touched(c)
  /\ UNCHANGED <<inputs, pc, result, obs, error, late>>

Begin ==
  /\ queue # <<>>
  /\ Cardinality(running) < MaxWorkers(batch)
  /\ LET c == Head(queue)
     IN /\ queue' = Tail(queue)
        /\ running' = running \cup {c}
        /\ started' = Append(started, c)
        /\ touched' = Touched(c)
  /\ UNCHANGED <<inputs, pc, result, obs, error, late>>

End(c) ==
  /\ c \in running
  /\ running' = running \ {c}
  /\ \E r \in Invoke(c) : result' = [result EXCEPT ![c] = r]
  /\ UNCHANGED <<inputs, pc, queue, started, touched, obs, error, late>>

(* The environment *)

WallClockRunsOut ==
  /\ ~late
  /\ pc \notin {"returned", "raised"}
  /\ late' = TRUE
  /\ UNCHANGED <<inputs, pc, queue, running, result, started, touched, obs, error>>

Left ==
  /\ pc \in {"returned", "raised"}
  /\ UNCHANGED vars

Collector == Submit \/ CheckWallClock \/ FutureEnds \/ WaitTimesOut \/ Shutdown

Next ==
  \/ Submit \/ CheckWallClock \/ FutureEnds \/ WaitTimesOut \/ Shutdown
  \/ Begin
  \/ \E c \in Call : End(c)
  \/ WallClockRunsOut
  \/ Left

(* The operating system runs the collecting thread and starts queued work  *)
(* when a worker is free; a recorded answer is a dictionary lookup.  A     *)
(* live tool is somebody else's code: nothing makes it return.             *)
SchedulerFairness == /\ WF_vars(Collector)
                     /\ WF_vars(Begin)
                     /\ \A c \in Call : WF_vars(Replaying /\ End(c))

ToolsReturn == \A c \in Call : WF_vars(End(c))

Spec == Init /\ [][Next]_vars /\ SchedulerFairness
SpecToolsReturn == Spec /\ ToolsReturn

----------------------------------------------------------------------------
TypeOK ==
  /\ batch \in Batches
  /\ metered \in BOOLEAN
  /\ recorded \in {Live} \cup [Call -> Outcome \cup {Missing}]
  /\ pc \in {"submit", "check", "await", "shutdown", "returned", "raised"}
  /\ queue \in Seq(Call) /\ started \in Seq(Call)
  /\ running \subseteq Call /\ touched \subseteq Call
  /\ result \in [Call -> Outcome \cup {Missing, NoResult}]
  /\ obs \in Seq(Outcome \cup {TimedOut})
  /\ error \in {"none", "budget", "replay_missing"}
  /\ late \in BOOLEAN

(* Two invocations overlap only when both tools are read-only and they are *)
(* different tools: a tool that writes never runs beside another call of   *)
(* its batch, however the workers are scheduled and whatever times out.    *)
WritersRunAlone ==
  \A c, d \in running : c # d => /\ {ToolOf[c], ToolOf[d]} \subseteq ReadOnly
                                 /\ ToolOf[c] # ToolOf[d]

(* A batch that is not parallel has the effects of its calls in the order  *)
(* of the action, each call starting only when the one before has ended -- *)
(* also after a timeout has been reported for the earlier call.            *)
SerialInOrder ==
  ~CanParallelize(batch) =>
    /\ IsPrefix(started, batch)
    /\ \A i \in DOMAIN started : i < Len(started) => result[started[i]] # NoResult

(* A replayed batch runs no tool and observes exactly what was recorded,   *)
(* or a timeout; if some recording is missing it does not return, unless   *)
(* it gave up waiting for that answer.                                     *)
ReplayIsExact ==
  Replaying =>
    /\ touched = {}
    /\ \A i \in DOMAIN obs : obs[i] \in {recorded[batch[i]], TimedOut} \ {Missing}

(* What the run loop relies on: no call outlives the batch, and there is   *)
(* one observation for each call, in order, or an exception.               *)
Promise == INSTANCE BatchExecution
             WITH reply <- IF pc \in {"returned", "raised"} THEN pc ELSE "open",
                  obs <- IF pc = "returned" THEN obs ELSE <<>>
ImplementsBatchExecution == Promise!Spec

(* If every tool returns, so does execute: the collector and the workers   *)
(* never wait for each other in a circle.                                  *)
ExecuteEnds == <>(pc \in {"returned", "raised"})

=============================================================================

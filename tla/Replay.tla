-------------------------------- MODULE Replay --------------------------------
(***************************************************************************)
(* `naqsha replay --re-execute`, AgentWorkbench.replay_re_execute and      *)
(* check_eval_fixture: a stored trace scripts the model and the scheduler  *)
(* of a fresh Core Runtime, and the two traces are compared.               *)
(*                                                                         *)
(* The reference may be the trace of any run, finished, failed or cut off: *)
(* whatever RunTrace allows, which is what CoreRuntime is checked to       *)
(* write.  The replaying run is CoreRuntime itself, step by step, with its *)
(* model and its observations fixed by the reference; profile and approval *)
(* gate are those of today and may decide otherwise than the reference's.  *)
(* Texts are left out: an answer is an answer.                             *)
(***************************************************************************)
EXTENDS CoreRuntime

CONSTANTS
  DenialServed,  \* what a recorded denial looks like when served as an observation
  MaxActions     \* bound on the actions of a reference

ASSUME ReplayAssumption == DenialServed \in FailureKind /\ MaxActions \in Nat

VARIABLES
  reference,     \* the stored trace
  phase,         \* "storing", then "replaying", or "refused" by TraceReplayError
  script,        \* TraceReplayModelClient._messages
  recorded,      \* ToolScheduler.recorded_observations
  replayError    \* "none", "exhausted" or "missing"

replayVars == <<reference, phase, script, recorded, replayError>>

R == INSTANCE RunTrace WITH log <- reference

(* The NAP messages of a trace: the calls of each action, and for an answer *)
(* no calls, which no action has.                                          *)
Messages(events) ==
  LET said == Selected(events, {e \in ToSet(events) : e.kind \in {"action", "answer"}})
  IN [i \in DOMAIN said |-> IF said[i].kind = "action" THEN said[i].calls ELSE <<>>]

ObservedCalls(events) == {c \in Call : \E e \in ToSet(events) : R!Observes(e, c)}

ObservedTwice(events) ==
  \E c \in Call : CountOf(events, LAMBDA e : R!Observes(e, c)) > 1

AsServed(got) == IF got = Denied THEN DenialServed ELSE got

RecordingsOfExecuted(events) ==
  [c \in {d \in Call : \E e \in ToSet(events) : R!Observes(e, d) /\ e.got # Denied} |->
     (CHOOSE e \in ToSet(events) : R!Observes(e, c)).got]

(* observations_by_call_id: denials are recorded like any observation *)
Recordings(events) ==
  [c \in ObservedCalls(events) |->
     AsServed((CHOOSE e \in ToSet(events) : R!Observes(e, c)).got)]

----------------------------------------------------------------------------
(* compare_replay and the verdicts drawn from it *)

Answered(events) == \E e \in ToSet(events) : e.kind = "answer"
AnswerMatches == Answered(reference) = Answered(trace)

Chronology(events) == FlattenSeq(Messages(events))
ToolCallsMatch == Chronology(reference) = Chronology(trace)

RunReturned == pc = "done" /\ outcome \in FailureCode \cup {"answered"}

(* Exit status 0 of `naqsha replay --re-execute` *)
ReplayExitsClean ==
  RunReturned /\ outcome = "answered" /\ AnswerMatches /\ ToolCallsMatch

EvalPassesOnToolPath == RunReturned /\ ToolCallsMatch

(* "passed" of check_eval_fixture, for a fixture saved from the reference *)
EvalPasses == RunReturned /\ AnswerMatches /\ ToolCallsMatch

----------------------------------------------------------------------------
ReplayInit ==
  /\ Init /\ replaying = TRUE
  /\ reference = <<>> /\ phase = "storing"
  /\ script = <<>> /\ recorded = <<>>
  /\ replayError = "none"

(* The reference run writes; it may stop at any point. *)
Store ==
  /\ phase = "storing"
  /\ R!Next
  /\ CountOf(reference', LAMBDA e : e.kind = "action") <= MaxActions
  /\ UNCHANGED <<vars, phase, script, recorded, replayError>>

(* build_trace_replay_runtime; an empty trace is turned away before it.    *)
(* Every other trace begins with its query.                                *)
Load ==
  /\ phase = "storing" /\ reference # <<>>
  /\ IF Messages(reference) = <<>> \/ ObservedTwice(reference)
     THEN phase' = "refused" /\ UNCHANGED <<script, recorded>>
     ELSE /\ phase' = "replaying"
          /\ script' = Messages(reference)
          /\ recorded' = Recordings(reference)
  /\ UNCHANGED <<vars, reference, replayError>>

(* TraceReplayModelClient.next_message *)
PopRight ==
  /\ script # <<>>
  /\ IF Last(script) = <<>> THEN pc' = "answer" ELSE action' = Last(script)
  /\ script' = Front(script)
  /\ UNCHANGED replayError

PopLeft ==
  /\ script # <<>>
  /\ IF Head(script) = <<>> THEN pc' = "answer" ELSE action' = Head(script)
  /\ script' = Tail(script)
  /\ UNCHANGED replayError

Exhausted ==
  /\ script = <<>>
  /\ pc' = "finally"
  /\ replayError' = "exhausted"
  /\ UNCHANGED script

ScriptedMessage ==
  /\ NextMessage
  /\ PopLeft \/ Exhausted
  /\ UNCHANGED <<reference, phase, recorded>>

(* The scheduler answers from the recordings, or ReplayObservationMissing  *)
(* comes out of it; the wall clock may run out first in either case.       *)
ServeRecorded ==
  /\ Execute
  /\ \/ pc' = "record" /\ allowed \subseteq DOMAIN recorded
        /\ results' = [c \in allowed |-> recorded[c]]
        /\ UNCHANGED replayError
     \/ pc' = "failing" /\ UNCHANGED replayError
     \/ pc' = "finally" /\ ~(allowed \subseteq DOMAIN recorded)
        /\ replayError' = "missing"
  /\ UNCHANGED <<reference, phase, script, recorded>>

(* All other steps are those of any run. *)
OwnStep ==
  /\ pc \notin {"ask", "executing"}
  /\ Run \/ WallClockRunsOut
  /\ UNCHANGED replayVars

Over == phase = "refused" \/ pc = "done"

ReplayNext ==
  \/ Store \/ Load
  \/ phase = "replaying" /\ (ScriptedMessage \/ ServeRecorded \/ OwnStep)
  \/ Over /\ UNCHANGED <<vars, replayVars>>

ReplaySpec == ReplayInit /\ [][ReplayNext]_<<vars, replayVars>>

----------------------------------------------------------------------------
Decisions(events) ==
  LET acts == Selected(events, {e \in ToSet(events) : e.kind = "action"})
  IN [i \in DOMAIN acts |-> acts[i].allowed]

(* The replay of an unambiguous reference says what the reference said, in *)
(* the same order, whatever policy and gate decide this time; it observes  *)
(* of an executed call what was recorded of it; and when the decisions are *)
(* the same and it answers, its trace holds the same events.               *)
ReplayFollowsReference ==
  /\ IsPrefix(Messages(trace), Messages(reference))
  /\ \A e \in ToSet(trace) : e.kind = "observation" /\ e.got # Denied =>
       \E f \in ToSet(reference) : R!Observes(f, e.call) /\ e.got = AsServed(f.got)
  /\ outcome = "answered" /\ Decisions(trace) = Decisions(reference) =>
       ToSet(trace) = ToSet(reference) /\ Len(trace) = Len(reference)

(* The trace of a run that answered is complete: its replay asks neither   *)
(* for a message nor for an observation that is not there, not even when   *)
(* today's policy lets through what the reference's policy denied.         *)
AnsweredReferenceSuffices == Answered(reference) => replayError = "none"

GrantsNoMore(events, than) ==
  \A i \in DOMAIN Decisions(events) : Decisions(events)[i] \subseteq Decisions(than)[i]

ApprovedCalls(events) ==
  Cardinality(UNION {{i} \X Decisions(events)[i] : i \in DOMAIN Decisions(events)})

(* A run that answered within the limits stays within them when it is      *)
(* replayed, if nothing more is approved this time: replaying charges the  *)
(* meter for what a live run would be charged for.                         *)
ReplayStaysInBudget ==
  /\ Answered(reference) /\ Len(Messages(reference)) <= MaxSteps
  /\ ApprovedCalls(reference) <= MaxToolCalls
  /\ GrantsNoMore(trace, reference)
  => outcome # "budget_exceeded" \/ late

(* The comparison of the two traces finds no difference unless the replay  *)
(* itself fails, be its policy decisions and observations what they may:   *)
(* the exit status tells whether the replay answered, and no more.         *)
ExitTellsOfAnswer == ReplayExitsClean <=> pc = "done" /\ outcome = "answered"

(* `naqsha replay --re-execute` and `naqsha eval check` come to the same   *)
(* verdict on a reference that answered, and the first never approves one  *)
(* that did not, but every replay that answers.                            *)
VerdictsAgree ==
  /\ Answered(reference) => (EvalPasses <=> ReplayExitsClean)
  /\ ReplayExitsClean => Answered(reference)
  /\ ExitTellsOfAnswer

(* "Inspect or re-execute a completed trace." (docs/cli.md:62): the trace   *)
(* of a run that answered is not refused.                                  *)
CompletedTraceReplays == Answered(reference) => phase # "refused"
===============================================================================

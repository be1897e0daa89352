-------------------------- MODULE CoreRuntimeProofs --------------------------
(* Theorems about CoreRuntime for every set of tools, every policy, every   *)
(* budget and every set of actions the model may send.                      *)
EXTENDS CoreRuntime, SelectionProofs

LEMMA EntryTypes ==
  /\ T!Query \in T!Entry /\ T!Answer \in T!Entry /\ T!Failure \in T!Entry
  /\ \A a \in Actions, cs \in SUBSET Call : T!Action(a, cs) \in T!Entry
  /\ \A c \in Call, got \in Outcome \cup {Denied} : T!Observation(c, got) \in T!Entry
  BY DEF T!Entry

LEMMA ActionCalls ==
  ASSUME TypeOK
  PROVE  /\ action \in Seq(Call)
         /\ ToSet(action) \subseteq Call
         /\ DOMAIN action \subseteq Nat \ {0}
         /\ \A i \in DOMAIN action : action[i] \in ToSet(action)
         /\ IsFiniteSet(ToSet(action))
         /\ IsFiniteSet(allowed)
         /\ Approvals \in Nat
<1>1. action \in Seq(Call)
  <2>1. CASE action = <<>>
    BY <2>1
  <2>2. CASE action \in Actions
    BY <2>2, RuntimeAssumption
  <2> QED
    BY <2>1, <2>2 DEF TypeOK, WorkType
<1>2. ToSet(action) = {action[i] : i \in DOMAIN action}
  BY DEF ToSet
<1>3. DOMAIN action = 1..Len(action) /\ Len(action) \in Nat
  BY <1>1
<1>4. IsFiniteSet(DOMAIN action)
  BY <1>3, FS_Interval
<1>5. IsFiniteSet(ToSet(action))
  <2> DEFINE f == [i \in DOMAIN action |-> action[i]]
  <2>1. f \in Surjection(DOMAIN action, ToSet(action))
    BY <1>2 DEF Surjection
  <2> QED
    BY <1>4, <2>1, FS_Surjection
<1>6. allowed \subseteq ToSet(action)
  BY DEF TypeOK, WorkType
<1>7. IsFiniteSet(allowed)
  BY <1>5, <1>6, FS_Subset
<1> QED
  BY <1>1, <1>2, <1>3, <1>5, <1>7, FS_CardinalityType DEF Approvals

LEMMA BreakerType ==
  ASSUME NEW b \in [Tool -> [sig : Outcome, count : Nat]], NEW t \in Tool, NEW got \in Outcome
  PROVE  Record(b, t, got) \in [Tool -> [sig : Outcome, count : Nat]]
  BY DEF Record, NoStreak, Outcome

LEMMA InitTypeOK == Init => TypeOK
<1> SUFFICES ASSUME Init PROVE TypeOK
  OBVIOUS
<1>1. ControlType
  BY DEF Init, ControlType
<1>2. WorkType
  BY DEF Init, WorkType
<1>2a. CursorType
  BY DEF Init, CursorType
<1>3. MeterType
  BY RuntimeAssumption DEF Init, MeterType
<1>4. RecordType
  BY DEF Init, RecordType, NoStreak, Outcome
<1> QED
  BY <1>1, <1>2, <1>2a, <1>3, <1>4 DEF TypeOK

(* The four parts of TypeOK that each step of the run keeps *)

LEMMA NextControlType ==
  ASSUME TypeOK, Next PROVE ControlType'
<1> USE DEF TypeOK, ControlType, FailureCode, Continue, FailWith, Raise
<1>1. CASE Begin \/ PersistQuery \/ StartMemory
  BY <1>1 DEF Begin, PersistQuery, StartMemory, control, memo
<1>2. CASE Checkpoint \/ Retrieve \/ NextMessage \/ PersistAnswer
  BY <1>2 DEF Checkpoint, Retrieve, NextMessage, PersistAnswer, control, memo
<1>3. CASE EnforcePolicy \/ PersistAction \/ Announce
  BY <1>3 DEF EnforcePolicy, PersistAction, Announce, AfterAnnouncing, control, memo
<1>4. CASE Charge \/ Dispatch \/ Execute
  BY <1>4 DEF Charge, Dispatch, Execute, control, memo
<1>5. CASE RecordObservation \/ PersistFailure \/ Finally
  BY <1>5 DEF RecordObservation, PersistFailure, Finally, control, memo
<1>6. CASE Operator
  BY <1>6, RuntimeAssumption DEF Operator, RequestPause, RequestResume, RequestInterrupt, Request, memo
<1>7. CASE WallClockRunsOut \/ Returned
  BY <1>7 DEF WallClockRunsOut, Returned, vars, control, memo
<1> QED
  BY <1>1, <1>2, <1>3, <1>4, <1>5, <1>6, <1>7 DEF Next, Run

LEMMA NextWorkType ==
  ASSUME TypeOK, Next PROVE WorkType'
<1> USE DEF TypeOK, WorkType, work, Continue, Raise, FailWith
<1>1. CASE Begin \/ PersistQuery \/ StartMemory
  BY <1>1 DEF Begin, PersistQuery, StartMemory
<1>2. CASE Checkpoint \/ Retrieve \/ PersistAnswer
  BY <1>2 DEF Checkpoint, Retrieve, PersistAnswer
<1>3. CASE NextMessage
  BY <1>3 DEF NextMessage
<1>4. CASE EnforcePolicy
  BY <1>4 DEF EnforcePolicy
<1>5. CASE Announce
  <2>1. CASE allowed = {}
    <3>1. results = <<>>
      BY <2>1
    <3> QED
      BY <1>5, <2>1, <3>1, ActionCalls DEF Announce, AfterAnnouncing
  <2>2. CASE allowed # {}
    BY <1>5, <2>2, ActionCalls DEF Announce, AfterAnnouncing
  <2> QED
    BY <2>1, <2>2
<1>6. CASE PersistAction \/ Charge \/ Dispatch
  BY <1>6 DEF PersistAction, Charge, Dispatch
<1>7. CASE Execute
  BY <1>7, ActionCalls DEF Execute, NextApproved
<1>8. CASE RecordObservation
  BY <1>8, ActionCalls DEF RecordObservation, Idle, NextApproved
<1>9. CASE PersistFailure \/ Finally \/ Operator \/ WallClockRunsOut \/ Returned
  BY <1>9 DEF PersistFailure, Finally, Operator, RequestPause, RequestResume,
              RequestInterrupt, Request, WallClockRunsOut, Returned, vars
<1> QED
  BY <1>1, <1>2, <1>3, <1>4, <1>5, <1>6, <1>7, <1>8, <1>9 DEF Next, Run

LEMMA FirstCall ==
  ASSUME NEW a \in Actions
  PROVE  /\ DOMAIN a = 1..Len(a) /\ Len(a) \in Nat
         /\ 1 \in DOMAIN a
<1>1. a \in Seq(Call) /\ a # <<>>
  BY RuntimeAssumption
<1> QED
  BY <1>1

LEMMA NextCursorType ==
  ASSUME TypeOK, Next PROVE CursorType'
<1> USE DEF TypeOK, CursorType, work, Continue, Raise, FailWith
<1>1. CASE Begin \/ PersistQuery \/ StartMemory
  BY <1>1 DEF Begin, PersistQuery, StartMemory
<1>2. CASE Checkpoint \/ Retrieve \/ NextMessage \/ PersistAnswer
  BY <1>2 DEF Checkpoint, Retrieve, NextMessage, PersistAnswer
<1>3. CASE EnforcePolicy
  BY <1>3 DEF EnforcePolicy
<1>4. CASE PersistAction
  BY <1>4, FirstCall DEF PersistAction
<1>5. CASE Announce
  <2>1. action \in Actions /\ next \in DOMAIN action
    BY <1>5 DEF Announce
  <2>2. AfterAnnouncing \/ Raise
    BY <1>5 DEF Announce
  <2>3. CASE AfterAnnouncing
    BY <1>5, <2>1, <2>3, FirstCall DEF AfterAnnouncing
  <2> QED
    BY <2>2, <2>3
<1>6. CASE Charge \/ Dispatch
  BY <1>6 DEF Charge, Dispatch
<1>7. CASE Execute
  <2>1. ApprovedAfter(0)' = ApprovedAfter(0)
    BY <1>7 DEF Execute, ApprovedAfter
  <2> QED
    BY <1>7, <2>1 DEF Execute, NextApproved
<1>8. CASE RecordObservation
  <2>1. CASE UNCHANGED <<action, allowed, results>> /\ pc' = "record"
    <3>1. PICK j \in DOMAIN action : NextApproved(next, j) /\ next' = j
      BY <1>8, <2>1 DEF RecordObservation, Idle
    <3>2. j \in ApprovedAfter(0)
      BY <3>1, ActionCalls DEF NextApproved, ApprovedAfter
    <3> QED
      BY <1>8, <2>1, <3>1, <3>2 DEF RecordObservation, ApprovedAfter
  <2>2. CASE Idle /\ pc' = "loop"
    BY <2>2 DEF Idle
  <2>3. CASE pc' \in {"failing", "finally"}
    BY <2>3
  <2> QED
    BY <1>8, <2>1, <2>2, <2>3 DEF RecordObservation
<1>9. CASE PersistFailure \/ Finally
  BY <1>9 DEF PersistFailure, Finally
<1>10. CASE Operator \/ WallClockRunsOut \/ Returned
  BY <1>10 DEF Operator, RequestPause, RequestResume, RequestInterrupt, Request,
               WallClockRunsOut, Returned, vars, ApprovedAfter
<1> QED
  BY <1>1, <1>2, <1>3, <1>4, <1>5, <1>6, <1>7, <1>8, <1>9, <1>10 DEF Next, Run

LEMMA NextMeterType ==
  ASSUME TypeOK, Next PROVE MeterType'
<1> USE RuntimeAssumption DEF TypeOK, MeterType, meter, counts, memo, Continue, FailWith, Raise
<1>1. CASE Begin \/ PersistQuery \/ StartMemory
  BY <1>1 DEF Begin, PersistQuery, StartMemory
<1>2. CASE Checkpoint
  BY <1>2 DEF Checkpoint, StepBudgetExceeded
<1>3. CASE Retrieve \/ NextMessage \/ PersistAnswer
  BY <1>3 DEF Retrieve, NextMessage, PersistAnswer
<1>4. CASE EnforcePolicy \/ PersistAction \/ Announce
  BY <1>4 DEF EnforcePolicy, PersistAction, Announce, AfterAnnouncing
<1>5. CASE Charge
  BY <1>5, ActionCalls DEF Charge, ToolBudgetExceeded
<1>6. CASE Dispatch \/ Execute
  BY <1>6, ActionCalls DEF Dispatch, Execute
<1>7. CASE RecordObservation
  <2>1. remembered' \in {remembered, remembered + 1}
    BY <1>7 DEF RecordObservation, MemoryTold
  <2>2. UNCHANGED <<steps, toolCalls, modelCalls, executions, sinceInterrupt>>
    BY <1>7 DEF RecordObservation
  <2>3. pc = "record"
    BY <1>7 DEF RecordObservation
  <2> QED
    BY <2>1, <2>2, <2>3
<1>8. CASE PersistFailure \/ Finally \/ Operator \/ WallClockRunsOut \/ Returned
  BY <1>8 DEF PersistFailure, Finally, Operator, RequestPause, RequestResume,
              RequestInterrupt, Request, WallClockRunsOut, Returned, vars
<1> QED
  BY <1>1, <1>2, <1>3, <1>4, <1>5, <1>6, <1>7, <1>8 DEF Next, Run

(* Every event a step persists is an entry of the trace. *)
LEMMA NextTraceType ==
  ASSUME TypeOK, Next PROVE trace' \in Seq(T!Entry)
<1>1. trace \in Seq(T!Entry)
  BY DEF TypeOK, RecordType
<1>2. SUFFICES ASSUME trace' # trace
               PROVE  \E e \in T!Entry : trace' = Append(trace, e)
  BY <1>1
<1>3. CASE PersistQuery \/ PersistAnswer \/ PersistFailure
  BY <1>2, <1>3, EntryTypes DEF PersistQuery, PersistAnswer, PersistFailure, Persist
<1>4. CASE PersistAction
  <2>1. action \in Actions /\ allowed \in SUBSET Call
    BY <1>4, ActionCalls DEF PersistAction, TypeOK, CursorType, WorkType
  <2>2. T!Action(action, allowed) \in T!Entry
    BY <2>1, EntryTypes
  <2> QED
    BY <1>2, <1>4, <2>2 DEF PersistAction, Persist
<1>5. CASE Announce
  <2>1. action[next] \in Call
    BY <1>5, ActionCalls DEF Announce, TypeOK, CursorType
  <2>2. T!Observation(action[next], Denied) \in T!Entry
    BY <2>1, EntryTypes
  <2> QED
    BY <1>2, <1>5, <2>2 DEF Announce, Persist
<1>6. CASE RecordObservation
  <2>1. action[next] \in allowed /\ results[action[next]] \in Outcome
    BY <1>6 DEF RecordObservation, TypeOK, CursorType, ApprovedAfter
  <2>2. T!Observation(action[next], results[action[next]]) \in T!Entry
    BY <2>1, ActionCalls, EntryTypes DEF TypeOK, WorkType
  <2> QED
    BY <1>2, <1>6, <2>2 DEF RecordObservation, Persist
<1>7. CASE \/ Begin \/ StartMemory \/ Checkpoint \/ Retrieve \/ NextMessage \/ EnforcePolicy
           \/ Charge \/ Dispatch \/ Execute \/ Finally
  BY <1>2, <1>7 DEF Begin, StartMemory, Checkpoint, Retrieve, NextMessage, EnforcePolicy,
                    Charge, Dispatch, Execute, Finally
<1>8. CASE Operator \/ WallClockRunsOut \/ Returned
  BY <1>2, <1>8 DEF Operator, RequestPause, RequestResume, RequestInterrupt, Request,
                    WallClockRunsOut, Returned, vars
<1> QED
  BY <1>3, <1>4, <1>5, <1>6, <1>7, <1>8 DEF Next, Run

LEMMA NextRecordType ==
  ASSUME TypeOK, Next PROVE RecordType'
<1>1. trace' \in Seq(T!Entry)
  BY NextTraceType
<1>2. breaker' \in [Tool -> [sig : Outcome, count : Nat]]
  <2>1. CASE RecordObservation
    <3>1. action[next] \in allowed /\ results[action[next]] \in Outcome
      BY <2>1 DEF RecordObservation, TypeOK, CursorType, ApprovedAfter
    <3>2. ToolOf[action[next]] \in Tool
      BY <3>1, ActionCalls, RuntimeAssumption DEF Tool, Range, TypeOK, WorkType
    <3> DEFINE b == Record(breaker, ToolOf[action[next]], results[action[next]])
    <3>3. b \in [Tool -> [sig : Outcome, count : Nat]]
      BY <3>1, <3>2, BreakerType DEF TypeOK, RecordType
    <3>4. breaker' = breaker \/ breaker' = b
      BY <2>1 DEF RecordObservation
    <3> QED
      BY <3>3, <3>4 DEF TypeOK, RecordType
  <2>2. CASE ~RecordObservation
    BY <2>2 DEF Next, Run, Begin, PersistQuery, StartMemory, Checkpoint, Retrieve, NextMessage,
       PersistAnswer, EnforcePolicy, PersistAction, Announce, Charge, Dispatch, Execute,
       PersistFailure, Finally, Operator, RequestPause, RequestResume, RequestInterrupt,
       Request, WallClockRunsOut, Returned, vars, TypeOK, RecordType
  <2> QED
    BY <2>1, <2>2
<1>3. approved' \subseteq Call /\ executed' \subseteq Call
  <2>1. approved \subseteq Call /\ executed \subseteq Call /\ allowed \subseteq Call
    BY ActionCalls DEF TypeOK, RecordType, WorkType
  <2>2. CASE EnforcePolicy
    BY <2>1, <2>2, ActionCalls DEF EnforcePolicy, audit
  <2>3. CASE Dispatch
    BY <2>1, <2>3 DEF Dispatch, Dispatched
  <2>4. CASE UNCHANGED audit
    BY <2>1, <2>4 DEF audit
  <2>5. UNCHANGED audit \/ EnforcePolicy \/ Dispatch
    BY DEF Next, Run, Begin, PersistQuery, StartMemory, Checkpoint, Retrieve, NextMessage,
       PersistAnswer, PersistAction, Announce, Charge, Execute, RecordObservation,
       PersistFailure, Finally, Operator, RequestPause, RequestResume, RequestInterrupt,
       Request, WallClockRunsOut, Returned, vars
  <2> QED
    BY <2>2, <2>3, <2>4, <2>5
<1> QED
  BY <1>1, <1>2, <1>3 DEF RecordType

(* Every state of a run is well formed: the loops over the calls of an      *)
(* action stay within it, the observations of a batch are those of the      *)
(* calls let through, and the meter never counts further than one above a   *)
(* limit -- and only when the run is failing for it.                        *)
THEOREM TypeCorrect == Spec => []TypeOK
<1>1. TypeOK /\ UNCHANGED vars => TypeOK'
  BY DEF TypeOK, ControlType, WorkType, CursorType, MeterType, RecordType, vars, work, meter,
         memo, control, audit, counts, ApprovedAfter
<1>2. TypeOK /\ Next => TypeOK'
  BY NextControlType, NextWorkType, NextCursorType, NextMeterType, NextRecordType DEF TypeOK
<1> QED
  BY <1>1, <1>2, InitTypeOK, PTL DEF Spec

------------------------------------------------------------------------------
(* The caps.  CapsHold is not inductive: the meter is charged some steps    *)
(* before the model or a tool is called, so the invariant has to carry the  *)
(* charge from there to the call.                                           *)

Charged ==
  /\ modelCalls <= steps /\ modelCalls <= MaxSteps
  /\ pc \in {"retrieve", "ask"} => modelCalls < steps
  /\ executions <= toolCalls /\ executions <= MaxToolCalls
  /\ pc = "dispatch" => executions + Approvals <= toolCalls

LEMMA NextCharged ==
  ASSUME TypeOK, Charged, Next PROVE Charged'
<1> USE DEF Charged
<1>1. /\ steps \in Nat /\ toolCalls \in Nat /\ modelCalls \in Nat /\ executions \in Nat
      /\ MaxSteps \in Nat /\ MaxToolCalls \in Nat /\ Approvals \in Nat
      /\ pc \notin {"failing", "finally", "done"} => steps <= MaxSteps /\ toolCalls <= MaxToolCalls
  BY ActionCalls, RuntimeAssumption DEF TypeOK, MeterType
<1>2. CASE Checkpoint
  BY <1>1, <1>2 DEF Checkpoint, StepBudgetExceeded, FailWith, Continue, counts
<1>3. CASE Retrieve
  BY <1>1, <1>3 DEF Retrieve, Continue, Raise, meter, counts
<1>4. CASE NextMessage
  BY <1>1, <1>4 DEF NextMessage, Continue, Raise, meter
<1>5. CASE Charge
  <2>1. UNCHANGED <<steps, allowed, modelCalls, executions>> /\ pc = "charge"
    BY <1>5 DEF Charge, work, counts
  <2>2. Approvals' = Approvals
    BY <2>1 DEF Approvals
  <2> QED
    BY <1>1, <1>5, <2>1, <2>2 DEF Charge, ToolBudgetExceeded, FailWith, Continue
<1>6. CASE Dispatch
  BY <1>1, <1>6 DEF Dispatch, Continue, meter
<1>7. CASE Begin \/ PersistQuery \/ StartMemory \/ PersistAnswer \/ EnforcePolicy \/ PersistAction
  BY <1>1, <1>7 DEF Begin, PersistQuery, StartMemory, PersistAnswer, EnforcePolicy, PersistAction,
                    Continue, Raise, meter, counts
<1>8. CASE Announce \/ Execute \/ RecordObservation \/ PersistFailure \/ Finally
  <2>1. UNCHANGED <<steps, toolCalls, modelCalls, executions>>
    BY <1>8 DEF Announce, Execute, RecordObservation, PersistFailure, Finally, meter, counts
  <2>2. pc' \notin {"retrieve", "ask", "dispatch"}
    BY <1>8 DEF Announce, AfterAnnouncing, Execute, RecordObservation, PersistFailure, Finally,
                Continue, Raise, FailWith
  <2> QED
    BY <2>1, <2>2
<1>9. CASE Operator \/ WallClockRunsOut \/ Returned
  BY <1>9 DEF Operator, RequestPause, RequestResume, RequestInterrupt, Request, WallClockRunsOut,
              Returned, vars, work, meter, counts, Approvals
<1> QED
  BY <1>2, <1>3, <1>4, <1>5, <1>6, <1>7, <1>8, <1>9 DEF Next, Run

(* The model is asked at most max_steps times and at most max_tool_calls    *)
(* tools run, for every policy and whatever mix of actions the model sends. *)
THEOREM CapsAreHard == Spec => []CapsHold
<1>1. Init => Charged
  BY RuntimeAssumption DEF Init, Charged
<1>2. Charged /\ UNCHANGED vars => Charged'
  BY DEF Charged, vars, work, meter, counts, Approvals
<1>3. TypeOK /\ Charged /\ Next => Charged'
  BY NextCharged
<1>4. Charged => CapsHold
  BY DEF Charged, CapsHold
<1> QED
  BY <1>1, <1>2, <1>3, <1>4, TypeCorrect, PTL DEF Spec

------------------------------------------------------------------------------
(* What runs was decided and recorded.  The invariant follows the decision  *)
(* from the policy to the trace and from there to the dispatch.             *)

LatestAction(k) ==
  /\ k \in DOMAIN trace /\ trace[k].kind = "action"
  /\ \A j \in k + 1 .. Len(trace) : trace[j].kind # "action"

Audited ==
  /\ AuditedExecution
  /\ pc = "act" => executed = {}
  /\ pc \in {"act", "announce", "charge", "dispatch"}
       => \A c \in allowed : Enforce(c, c \in approved)
  /\ pc \in {"announce", "charge", "dispatch"}
       => \E k \in DOMAIN trace : LatestAction(k) /\ trace[k].allowed = allowed

(* Only PersistAction persists an action. *)
LEMMA OtherEvents ==
  ASSUME TypeOK, Next, ~PersistAction
  PROVE  trace' = trace \/ \E e : e.kind # "action" /\ trace' = Append(trace, e)
<1>1. CASE PersistQuery \/ PersistAnswer \/ PersistFailure
  BY <1>1 DEF PersistQuery, PersistAnswer, PersistFailure, Persist, T!Query, T!Answer, T!Failure
<1>2. CASE Announce
  BY <1>2 DEF Announce, Persist, T!Observation
<1>3. CASE RecordObservation
  BY <1>3 DEF RecordObservation, Persist, T!Observation
<1>4. CASE \/ Begin \/ StartMemory \/ Checkpoint \/ Retrieve \/ NextMessage \/ EnforcePolicy
           \/ Charge \/ Dispatch \/ Execute \/ Finally
  BY <1>4 DEF Begin, StartMemory, Checkpoint, Retrieve, NextMessage, EnforcePolicy,
              Charge, Dispatch, Execute, Finally
<1>5. CASE Operator \/ WallClockRunsOut \/ Returned
  BY <1>5 DEF Operator, RequestPause, RequestResume, RequestInterrupt, Request,
              WallClockRunsOut, Returned, vars
<1> QED
  BY <1>1, <1>2, <1>3, <1>4, <1>5 DEF Next, Run

LEMMA LatestActionStays ==
  ASSUME trace \in Seq(T!Entry), NEW k, LatestAction(k),
         trace' = trace \/ \E e : e.kind # "action" /\ trace' = Append(trace, e)
  PROVE  /\ k \in DOMAIN trace' /\ trace'[k] = trace[k]
         /\ LatestAction(k)'
<1>1. CASE trace' = trace
  BY <1>1 DEF LatestAction
<1>2. CASE \E e : e.kind # "action" /\ trace' = Append(trace, e)
  <2>1. PICK e : e.kind # "action" /\ trace' = Append(trace, e)
    BY <1>2
  <2>2. /\ Len(trace') = Len(trace) + 1 /\ Len(trace) \in Nat
        /\ DOMAIN trace = 1..Len(trace) /\ DOMAIN trace' = 1..Len(trace) + 1
        /\ \A j \in 1..Len(trace) : trace'[j] = trace[j]
        /\ trace'[Len(trace) + 1] = e
    BY <2>1
  <2>3. k \in 1..Len(trace) /\ trace'[k] = trace[k]
    BY <2>2 DEF LatestAction
  <2>4. ASSUME NEW j \in k + 1 .. Len(trace) + 1 PROVE trace'[j].kind # "action"
    <3>1. CASE j = Len(trace) + 1
      BY <2>1, <2>2, <3>1
    <3>2. CASE j # Len(trace) + 1
      <4>1. j \in k + 1 .. Len(trace) /\ j \in 1..Len(trace)
        BY <2>2, <2>3, <3>2
      <4> QED
        BY <2>2, <4>1 DEF LatestAction
    <3> QED
      BY <3>1, <3>2
  <2> QED
    BY <2>2, <2>3, <2>4 DEF LatestAction
<1> QED
  BY <1>1, <1>2

(* The decision of the latest action and what ran under it stay what they   *)
(* are while nothing is decided and nothing is dispatched.                  *)
LEMMA AuditStays ==
  ASSUME TypeOK, AuditedExecution, UNCHANGED audit,
         trace' = trace \/ \E e : e.kind # "action" /\ trace' = Append(trace, e)
  PROVE  AuditedExecution'
<1>1. SUFFICES ASSUME executed # {}
               PROVE  AuditedExecution'
  BY DEF AuditedExecution, audit
<1>2. PICK k \in DOMAIN trace :
        /\ LatestAction(k) /\ executed \subseteq trace[k].allowed
        /\ \A c \in executed : Allowable(c) /\ (ToolOf[c] \in ApprovalTools => c \in approved)
  BY <1>1 DEF AuditedExecution, LatestAction
<1>3. k \in DOMAIN trace' /\ trace'[k] = trace[k] /\ LatestAction(k)'
  BY <1>2, LatestActionStays DEF TypeOK, RecordType
<1> QED
  BY <1>2, <1>3 DEF AuditedExecution, LatestAction, audit, Allowable

LEMMA NextAudited ==
  ASSUME TypeOK, Audited, Next PROVE Audited'
<1>1. CASE EnforcePolicy
  <2>1. \/ /\ executed' = {} /\ pc' = "act"
           /\ \A c \in allowed' : Enforce(c, c \in approved')
        \/ pc' = "finally" /\ UNCHANGED audit
    BY <1>1 DEF EnforcePolicy, Continue, Raise
  <2>2. trace' = trace
    BY <1>1 DEF EnforcePolicy
  <2>3. CASE executed' = {} /\ pc' = "act" /\ \A c \in allowed' : Enforce(c, c \in approved')
    BY <2>3 DEF Audited, AuditedExecution, Enforce, Allowable
  <2>4. CASE pc' = "finally" /\ UNCHANGED audit
    BY <2>2, <2>4, AuditStays DEF Audited
  <2> QED
    BY <2>1, <2>3, <2>4
<1>2. CASE PersistAction
  <2>1. /\ pc = "act" /\ executed' = {} /\ pc' \in {"announce", "finally"}
        /\ UNCHANGED <<allowed, approved>>
    BY <1>2 DEF PersistAction, Continue, Raise, Audited, work, audit
  <2>2. CASE pc' = "announce"
    <3>1. trace \in Seq(T!Entry)
      BY DEF TypeOK, RecordType
    <3> PICK k \in Nat : k = Len(trace) + 1
      BY <3>1
    <3>2. trace' = Append(trace, T!Action(action, allowed))
      BY <1>2, <2>2 DEF PersistAction, Continue, Raise, Persist
    <3>3. k \in DOMAIN trace' /\ Len(trace') = k /\ trace'[k] = T!Action(action, allowed)
      BY <3>1, <3>2
    <3>4. k + 1 .. Len(trace') = {}
      BY <3>1, <3>3
    <3>5. trace'[k].kind = "action" /\ trace'[k].allowed = allowed'
      BY <2>1, <3>3 DEF T!Action
    <3>6. LatestAction(k)'
      BY <3>3, <3>4, <3>5 DEF LatestAction
    <3> QED
      BY <2>1, <2>2, <3>3, <3>5, <3>6 DEF Audited, AuditedExecution, Enforce, Allowable
  <2>3. CASE pc' = "finally"
    BY <2>1, <2>3 DEF Audited, AuditedExecution
  <2> QED
    BY <2>1, <2>2, <2>3
<1>3. CASE Dispatch
  <2>1. pc = "dispatch" /\ pc' = "executing" /\ executed' \in {{}, allowed}
        /\ UNCHANGED <<trace, approved>>
    BY <1>3 DEF Dispatch, Dispatched, Continue
  <2>2. PICK k \in DOMAIN trace : LatestAction(k) /\ trace[k].allowed = allowed
    BY <2>1 DEF Audited
  <2>3. \A c \in allowed : Enforce(c, c \in approved)
    BY <2>1 DEF Audited
  <2> QED
    BY <2>1, <2>2, <2>3 DEF Audited, AuditedExecution, LatestAction, Enforce, Allowable
<1>4. CASE ~(EnforcePolicy \/ PersistAction \/ Dispatch)
  <2>1. trace' = trace \/ \E e : e.kind # "action" /\ trace' = Append(trace, e)
    BY <1>4, OtherEvents
  <2>2. UNCHANGED audit
    BY <1>4 DEF Next, Run, Begin, PersistQuery, StartMemory, Checkpoint, Retrieve, NextMessage,
       PersistAnswer, Announce, Charge, Execute, RecordObservation, PersistFailure, Finally,
       Operator, RequestPause, RequestResume, RequestInterrupt, Request, WallClockRunsOut,
       Returned, vars
  <2>3. AuditedExecution'
    BY <2>1, <2>2, AuditStays DEF Audited
  <2>4. \/ pc' \notin {"act", "announce", "charge", "dispatch"}
        \/ /\ allowed' = allowed
           /\ \/ pc' = pc
              \/ pc \in {"announce", "charge"} /\ pc' \in {"announce", "charge", "dispatch"}
    BY <1>4 DEF Next, Run, Begin, PersistQuery, StartMemory, Checkpoint, Retrieve, NextMessage,
       PersistAnswer, Announce, AfterAnnouncing, Charge, Execute, RecordObservation,
       PersistFailure, Finally, Operator, RequestPause, RequestResume, RequestInterrupt, Request,
       WallClockRunsOut, Returned, vars, work, Continue, Raise, FailWith, Idle
  <2>5. CASE pc' \in {"announce", "charge", "dispatch"}
    <3>1. pc \in {"announce", "charge", "dispatch"} /\ allowed' = allowed
      BY <2>4, <2>5
    <3>2. PICK k \in DOMAIN trace : LatestAction(k) /\ trace[k].allowed = allowed
      BY <3>1 DEF Audited
    <3>3. k \in DOMAIN trace' /\ LatestAction(k)' /\ trace'[k].allowed = allowed'
      BY <2>1, <3>1, <3>2, LatestActionStays DEF TypeOK, RecordType
    <3>4. \A c \in allowed' : Enforce(c, c \in approved')
      BY <2>2, <3>1 DEF Audited, audit
    <3> QED
      BY <2>3, <2>5, <3>3, <3>4 DEF Audited, Enforce, Allowable
  <2>6. CASE pc' = "act"
    BY <2>2, <2>3, <2>4, <2>6 DEF Audited, audit, Enforce, Allowable
  <2> QED
    BY <2>3, <2>5, <2>6 DEF Audited
<1> QED
  BY <1>1, <1>2, <1>3, <1>4

(* No tool runs unless every rule of the policy let it through, the         *)
(* Approval Gate granted it where its tier asks for that, and the latest    *)
(* action in the trace already says so.                                     *)
THEOREM ExecutionIsAudited == Spec => []AuditedExecution
<1>1. Init => Audited
  BY DEF Init, Audited, AuditedExecution
<1>2. Audited /\ UNCHANGED vars => Audited'
  BY DEF Audited, AuditedExecution, LatestAction, vars, work, audit, Enforce, Allowable
<1>3. TypeOK /\ Audited /\ Next => Audited'
  BY NextAudited
<1>4. Audited => AuditedExecution
  BY DEF Audited
<1> QED
  BY <1>1, <1>2, <1>3, <1>4, TypeCorrect, PTL DEF Spec

------------------------------------------------------------------------------
(* Interrupts.  The count of model calls made under an interrupt is back at *)
(* zero whenever the loop gets past its checkpoint.                         *)

Prompt ==
  /\ sinceInterrupt <= 1
  /\ pc # "done" /\ ~interrupted => sinceInterrupt = 0
  /\ pc \in {"idle", "query", "start_memory", "retrieve", "ask"} => sinceInterrupt = 0

LEMMA NextPrompt ==
  ASSUME TypeOK, Prompt, Next PROVE Prompt'
<1> USE DEF Prompt, Continue, Raise, FailWith, control, counts
<1>1. CASE Begin \/ PersistQuery \/ StartMemory
  BY <1>1 DEF Begin, PersistQuery, StartMemory
<1>2. CASE Checkpoint \/ Retrieve
  BY <1>2 DEF Checkpoint, Retrieve, StopRequested
<1>3. CASE NextMessage
  BY <1>3 DEF NextMessage
<1>4. CASE PersistAnswer \/ EnforcePolicy \/ PersistAction
  BY <1>4 DEF PersistAnswer, EnforcePolicy, PersistAction
<1>5. CASE Announce \/ Charge
  BY <1>5 DEF Announce, AfterAnnouncing, Charge
<1>6. CASE Dispatch \/ Execute \/ RecordObservation
  BY <1>6 DEF Dispatch, Execute, RecordObservation
<1>7. CASE PersistFailure \/ Finally
  BY <1>7 DEF PersistFailure, Finally
<1>8. CASE Operator \/ WallClockRunsOut \/ Returned
  BY <1>8 DEF Operator, RequestPause, RequestResume, RequestInterrupt, Request,
              WallClockRunsOut, Returned, vars
<1> QED
  BY <1>1, <1>2, <1>3, <1>4, <1>5, <1>6, <1>7, <1>8 DEF Next, Run

(* After an interrupt, whenever it comes and whatever pauses surround it,   *)
(* the model is asked at most once more: the call that is under way.        *)
THEOREM InterruptsArePrompt == Spec => []InterruptIsPrompt
<1>1. Init => Prompt
  BY DEF Init, Prompt
<1>2. Prompt /\ UNCHANGED vars => Prompt'
  BY DEF Prompt, vars, control, counts
<1>3. TypeOK /\ Prompt /\ Next => Prompt'
  BY NextPrompt
<1>4. Prompt => InterruptIsPrompt
  BY DEF Prompt, InterruptIsPrompt
<1> QED
  BY <1>1, <1>2, <1>3, <1>4, TypeCorrect, PTL DEF Spec

------------------------------------------------------------------------------
(* What the memory port knows.                                              *)

\* The positions of the observations that tools came back with.
Persisted == {i \in DOMAIN trace : trace[i].kind = "observation" /\ trace[i].got # Denied}

Told ==
  /\ outcome # "raised" => remembered = Cardinality(Persisted)
  /\ remembered \in {Cardinality(Persisted), Cardinality(Persisted) + 1}
  /\ outcome = "raised" => pc \in {"finally", "done"}

LEMMA PersistedIsFinite ==
  ASSUME trace \in Seq(T!Entry)
  PROVE  IsFiniteSet(Persisted) /\ Cardinality(Persisted) \in Nat
<1>1. Persisted \subseteq 1..Len(trace) /\ Len(trace) \in Nat
  BY DEF Persisted
<1>2. IsFiniteSet(1..Len(trace))
  BY <1>1, FS_Interval
<1> QED
  BY <1>1, <1>2, FS_Subset, FS_CardinalityType

LEMMA PersistedGrows ==
  ASSUME trace \in Seq(T!Entry), NEW e \in T!Entry, trace' = Append(trace, e)
  PROVE  Cardinality(Persisted') =
           IF e.kind = "observation" /\ e.got # Denied
           THEN Cardinality(Persisted) + 1 ELSE Cardinality(Persisted)
<1>1. /\ Len(trace) \in Nat /\ DOMAIN trace = 1..Len(trace)
      /\ DOMAIN trace' = 1..Len(trace) + 1
      /\ \A i \in 1..Len(trace) : trace'[i] = trace[i]
      /\ trace'[Len(trace) + 1] = e
  OBVIOUS
<1>2. CASE e.kind = "observation" /\ e.got # Denied
  <2>1. Persisted' = Persisted \cup {Len(trace) + 1} /\ Len(trace) + 1 \notin Persisted
    BY <1>1, <1>2 DEF Persisted
  <2> QED
    BY <1>2, <2>1, PersistedIsFinite, FS_AddElement
<1>3. CASE ~(e.kind = "observation" /\ e.got # Denied)
  <2>1. Persisted' = Persisted
    BY <1>1, <1>3 DEF Persisted
  <2> QED
    BY <1>3, <2>1
<1> QED
  BY <1>2, <1>3

LEMMA NextTold ==
  ASSUME TypeOK, Told, Next PROVE Told'
<1>1. trace \in Seq(T!Entry) /\ Cardinality(Persisted) \in Nat
  BY PersistedIsFinite DEF TypeOK, RecordType
<1>2. CASE RecordObservation
  <2> DEFINE e == T!Observation(action[next], results[action[next]])
  <2>1. action[next] \in allowed /\ results[action[next]] \in Outcome
        /\ pc = "record" /\ outcome # "raised"
    BY <1>2 DEF RecordObservation, TypeOK, CursorType, ApprovedAfter, Told
  <2>2. e \in T!Entry /\ e.kind = "observation" /\ e.got # Denied
    BY <2>1, ActionCalls, EntryTypes, RuntimeAssumption DEF TypeOK, WorkType, T!Observation
  <2>3. CASE trace' = Append(trace, e) /\ remembered' = remembered + 1 /\ outcome' # "raised"
    <3>1. Cardinality(Persisted') = Cardinality(Persisted) + 1
      BY <1>1, <2>2, <2>3, PersistedGrows
    <3> QED
      BY <1>1, <2>1, <2>3, <3>1 DEF Told
  <2>4. CASE Raise /\ trace' = trace /\ remembered' \in {remembered, remembered + 1}
    <3>1. Persisted' = Persisted
      BY <2>4 DEF Persisted
    <3> QED
      BY <1>1, <2>1, <2>4, <3>1 DEF Told, Raise
  <2> QED
    BY <1>2, <2>1, <2>3, <2>4 DEF RecordObservation, Persist, MemoryTold, FailWith, Continue
<1>3. CASE ~RecordObservation
  <2>1. /\ remembered' = remembered
        /\ outcome = "raised" => outcome' = "raised" /\ pc' \in {"finally", "done"}
        /\ outcome' = "raised" => pc' \in {"finally", "done"}
    BY <1>3 DEF Next, Run, Begin, PersistQuery, StartMemory, Checkpoint, Retrieve, NextMessage,
       PersistAnswer, EnforcePolicy, PersistAction, Announce, AfterAnnouncing, Charge, Dispatch,
       Execute, PersistFailure, Finally, Operator, RequestPause, RequestResume, RequestInterrupt,
       Request, WallClockRunsOut, Returned, vars, memo, Continue, FailWith, Raise, Told
  <2>2. Cardinality(Persisted') = Cardinality(Persisted)
    <3>1. CASE trace' = trace
      BY <3>1 DEF Persisted
    <3>2. CASE PersistQuery \/ PersistAnswer \/ PersistFailure
      <4>1. SUFFICES ASSUME trace' # trace
                     PROVE  \E e \in {T!Query, T!Answer, T!Failure} : trace' = Append(trace, e)
        BY <1>1, <3>1, EntryTypes, PersistedGrows DEF T!Query, T!Answer, T!Failure
      <4> QED
        BY <3>2, <4>1 DEF PersistQuery, PersistAnswer, PersistFailure, Persist
    <3>3. CASE PersistAction
      <4>1. T!Action(action, allowed) \in T!Entry /\ T!Action(action, allowed).kind = "action"
        BY <3>3, ActionCalls, EntryTypes
           DEF PersistAction, TypeOK, CursorType, WorkType, T!Action
      <4> QED
        BY <1>1, <3>1, <3>3, <4>1, PersistedGrows DEF PersistAction, Persist
    <3>4. CASE Announce
      <4>1. /\ T!Observation(action[next], Denied) \in T!Entry
            /\ T!Observation(action[next], Denied).got = Denied
        BY <3>4, ActionCalls, EntryTypes DEF Announce, TypeOK, CursorType, T!Observation
      <4> QED
        BY <1>1, <3>1, <3>4, <4>1, PersistedGrows DEF Announce, Persist
    <3>5. CASE ~(PersistQuery \/ PersistAnswer \/ PersistFailure \/ PersistAction \/ Announce)
      BY <1>3, <3>1, <3>5 DEF Next, Run, Begin, StartMemory, Checkpoint, Retrieve, NextMessage,
         EnforcePolicy, Charge, Dispatch, Execute, Finally, Operator, RequestPause, RequestResume,
         RequestInterrupt, Request, WallClockRunsOut, Returned, vars
    <3> QED
      BY <3>2, <3>3, <3>4, <3>5
  <2> QED
    BY <1>1, <2>1, <2>2 DEF Told
<1> QED
  BY <1>2, <1>3

(* However a run ends, the memory port was told of every observation a tool *)
(* came back with that is in the trace, and of at most one more, which the  *)
(* trace store or the port itself refused.                                  *)
THEOREM MemoryIsTold == Spec => []MemoryKeepsUpWithTrace
<1>1. Init => Told
  <2> SUFFICES ASSUME Init PROVE Told
    OBVIOUS
  <2>1. Persisted = {}
    BY DEF Init, Persisted
  <2> QED
    BY <2>1, FS_EmptySet DEF Init, Told
<1>2. Told /\ UNCHANGED vars => Told'
  BY DEF Told, vars, memo, Persisted
<1>3. TypeOK /\ Told /\ Next => Told'
  BY NextTold
<1>4. Told => MemoryKeepsUpWithTrace
  BY DEF Told, MemoryKeepsUpWithTrace, CountOf, Persisted
<1> QED
  BY <1>1, <1>2, <1>3, <1>4, TypeCorrect, PTL DEF Spec
------------------------------------------------------------------------------
(* The breaker.  What the circuit breaker remembers of a tool is the latest *)
(* streak of equal failures that the trace holds of it, and no streak is as *)
(* long as the limit while the run goes on.                                 *)
Counted(e, t) == e.kind = "observation" /\ e.got # Denied /\ ToolOf[e.call] = t
Outcomes(log, t) == Selected(log, {e \in ToSet(log) : Counted(e, t)})

LEMMA OutcomesAppend ==
  ASSUME NEW log \in Seq(T!Entry), NEW x \in T!Entry, NEW t
  PROVE  /\ Outcomes(log, t) \in Seq(T!Entry)
         /\ \A i \in DOMAIN Outcomes(log, t) : Counted(Outcomes(log, t)[i], t)
         /\ Outcomes(Append(log, x), t) =
              IF Counted(x, t) THEN Append(Outcomes(log, t), x) ELSE Outcomes(log, t)
<1> DEFINE C == {e \in T!Entry : Counted(e, t)}
<1>1. ASSUME NEW g \in Seq(T!Entry) PROVE Outcomes(g, t) = Selected(g, C)
  <2>1. \A i \in DOMAIN g : g[i] \in T!Entry /\ g[i] \in ToSet(g)
    BY DEF ToSet
  <2>2. \A i \in DOMAIN g : g[i] \in {e \in ToSet(g) : Counted(e, t)} <=> g[i] \in C
    BY <2>1
  <2> HIDE DEF C
  <2> QED
    BY <2>2, SelectedSame DEF Outcomes
<1>2. Append(log, x) \in Seq(T!Entry)
  OBVIOUS
<1>3. Selected(log, C) \in Seq(T!Entry \cap C)
  <2> HIDE DEF C
  <2> QED
    BY SelectedType
<1>4. T!Entry \cap C = C /\ C \subseteq T!Entry /\ \A e \in C : Counted(e, t)
  OBVIOUS
<1>5. Selected(Append(log, x), C) = IF x \in C THEN Append(Selected(log, C), x) ELSE Selected(log, C)
  <2> HIDE DEF C
  <2> QED
    BY SelectedAppend
<1>6. x \in C <=> Counted(x, t)
  OBVIOUS
<1> HIDE DEF C
<1>7. Selected(log, C) \in Seq(C)
  BY <1>3, <1>4
<1>8. /\ Selected(log, C) \in Seq(T!Entry)
      /\ \A i \in DOMAIN Selected(log, C) : Counted(Selected(log, C)[i], t)
  BY <1>4, <1>7
<1> QED
  BY <1>1, <1>2, <1>5, <1>6, <1>8

\* Of the outcomes s of a tool the last b.count are failures of the kind b.sig,
\* and the one before them is not.
Streak(s, b) ==
  LET from == Len(s) - b.count
  IN  /\ b.count \in 0..Len(s)
      /\ b.count = 0 <=> b.sig = Ok
      /\ \A i \in from + 1 .. Len(s) : s[i].got = b.sig
      /\ from > 0 => (s[from].got = b.sig <=> b.count = 0)
LEMMA StreakGrows ==
  ASSUME NEW S, NEW s \in Seq(S), NEW x \in S, NEW b, Streak(s, b), NEW c,
         \/ x.got = Ok /\ c.sig = Ok /\ c.count = 0
         \/ x.got # Ok /\ c.sig = x.got /\ c.count = IF b.sig = x.got THEN b.count + 1 ELSE 1
  PROVE  Streak(Append(s, x), c)
<1> DEFINE n == Len(s)
           r == Append(s, x)
<1>1. n \in Nat /\ Len(r) = n + 1 /\ r[n + 1] = x /\ \A i \in 1..n : r[i] = s[i]
  OBVIOUS
<1>2. b.count \in 0..n /\ (b.count = 0 <=> b.sig = Ok)
  BY DEF Streak
<1>3. \A i \in n - b.count + 1 .. n : s[i].got = b.sig
  BY DEF Streak
<1>4. n - b.count > 0 => (s[n - b.count].got = b.sig <=> b.count = 0)
  BY DEF Streak
<1> HIDE DEF n, r
<1>5. CASE x.got = Ok
  <2>1. c.sig = Ok /\ c.count = 0
    BY <1>5
  <2>2. Len(r) - c.count = n + 1 /\ n + 2 .. n + 1 = {}
    BY <1>1, <2>1
  <2> QED
    BY <1>1, <1>5, <2>1, <2>2 DEF Streak
<1>6. CASE x.got # Ok /\ b.sig = x.got
  <2>1. c.sig = x.got /\ c.count = b.count + 1
    BY <1>6
  <2>2. Len(r) - c.count = n - b.count /\ c.count \in 0..n + 1 /\ c.count # 0 /\ b.count # 0
    BY <1>1, <1>2, <1>6, <2>1
  <2>3. \A i \in n - b.count + 1 .. n + 1 : r[i].got = c.sig
    <3>1. \A i \in n - b.count + 1 .. n + 1 : i = n + 1 \/ (i \in n - b.count + 1 .. n /\ i \in 1..n)
      BY <1>1, <1>2
    <3> QED
      BY <1>1, <1>3, <1>6, <2>1, <3>1
  <2>4. n - b.count > 0 => n - b.count \in 1..n
    BY <1>1, <1>2
  <2>5. n - b.count > 0 => r[n - b.count].got # c.sig
    BY <1>1, <1>4, <2>1, <2>2, <2>4, <1>6
  <2>6. c.sig # Ok
    BY <1>6, <2>1
  <2> DEFINE m == n - b.count
  <2>7. Len(r) - c.count = m
    BY <2>2
  <2>8. m > 0 => r[m].got # c.sig
    BY <2>5
  <2>9. \A i \in m + 1 .. Len(r) : r[i].got = c.sig
    BY <1>1, <2>3
  <2>10. m > 0 => (r[m].got = c.sig <=> c.count = 0)
    BY <2>2, <2>8
  <2>11. c.count \in 0..Len(r) /\ (c.count = 0 <=> c.sig = Ok)
    BY <1>1, <2>2, <2>6
  <2> HIDE DEF m
  <2> QED
    BY <2>7, <2>9, <2>10, <2>11 DEF Streak, r
<1>7. CASE x.got # Ok /\ b.sig # x.got
  <2>1. c.sig = x.got /\ c.count = 1
    BY <1>7
  <2>2. Len(r) - c.count = n /\ c.count \in 0..n + 1
    BY <1>1, <2>1
  <2>3. \A i \in n + 1 .. n + 1 : r[i].got = c.sig
    BY <1>1, <2>1
  <2>4. n > 0 => r[n].got # c.sig
    <3>1. CASE b.count = 0
      BY <1>1, <1>2, <1>4, <1>7, <2>1, <3>1
    <3>2. CASE b.count > 0
      BY <1>1, <1>2, <1>3, <1>7, <2>1, <3>2
    <3> QED
      BY <1>2, <3>1, <3>2
  <2> QED
    BY <1>1, <1>7, <2>1, <2>2, <2>3, <2>4 DEF Streak
<1> QED
  BY <1>5, <1>6, <1>7
\* A streak is as long as the limit if and only if the outcomes end hopelessly.
LEMMA StreakTells ==
  ASSUME NEW S, NEW s \in Seq(S), NEW b, Streak(s, b)
  PROVE  (/\ Len(s) >= BreakerLimit /\ Last(s).got # Ok
          /\ \A i \in Len(s) - BreakerLimit + 1 .. Len(s) : s[i].got = Last(s).got)
           <=> b.count >= BreakerLimit
<1> DEFINE n == Len(s)
           k == BreakerLimit
<1>1. n \in Nat /\ k \in Nat /\ k > 0 /\ Last(s) = s[n]
  BY RuntimeAssumption DEF BreakerLimit, Last
<1> HIDE DEF n, k
<1>2. b.count \in 0..n /\ (b.count = 0 <=> b.sig = Ok)
  BY DEF Streak, n
<1>3. \A i \in n - b.count + 1 .. n : s[i].got = b.sig
  BY DEF Streak, n
<1>4. n - b.count > 0 => (s[n - b.count].got = b.sig <=> b.count = 0)
  BY DEF Streak, n
<1>5. ASSUME b.count >= k
      PROVE  n >= k /\ s[n].got # Ok /\ \A i \in n - k + 1 .. n : s[i].got = s[n].got
  <2>1. n \in n - b.count + 1 .. n /\ b.count # 0 /\ n >= k
    BY <1>1, <1>2, <1>5
  <2>2. \A i \in n - k + 1 .. n : i \in n - b.count + 1 .. n
    BY <1>1, <1>2, <1>5
  <2> QED
    BY <1>2, <1>3, <2>1, <2>2
<1>6. ASSUME n >= k, s[n].got # Ok, \A i \in n - k + 1 .. n : s[i].got = s[n].got, ~(b.count >= k)
      PROVE  FALSE
  <2>1. n > 0 /\ n - b.count \in n - k + 1 .. n /\ n - b.count > 0
    BY <1>1, <1>2, <1>6
  <2>2. s[n - b.count].got = s[n].got
    BY <1>6, <2>1
  <2>3. CASE b.count = 0
    BY <1>1, <1>2, <1>4, <1>6, <2>1, <2>3
  <2>4. CASE b.count # 0
    <3>1. n \in n - b.count + 1 .. n
      BY <1>1, <1>2, <2>4
    <3> QED
      BY <1>3, <1>4, <2>1, <2>2, <2>4, <3>1
  <2> QED
    BY <2>3, <2>4
<1> QED
  BY <1>1, <1>5, <1>6 DEF n, k

Stopped == {"failing", "finally", "done"}
Streaks ==
  ~replaying =>
    /\ \A t \in Tool : Streak(Outcomes(trace, t), breaker[t])
    /\ pc \notin Stopped => \A t \in Tool : breaker[t].count < BreakerLimit
    /\ outcome = "circuit_breaker_tripped" =>
         pc \in Stopped /\ \E t \in Tool : breaker[t].count >= BreakerLimit

LEMMA StreaksTell == TypeOK /\ Streaks => BreakerStopsHopelessRuns
<1> SUFFICES ASSUME TypeOK, Streaks, ~replaying PROVE BreakerStopsHopelessRuns
  BY DEF BreakerStopsHopelessRuns
<1>1. trace \in Seq(T!Entry) /\ breaker \in [Tool -> [sig : Outcome, count : Nat]]
  BY DEF TypeOK, RecordType
<1>2. ASSUME NEW t \in Tool PROVE Hopeless(t) <=> breaker[t].count >= BreakerLimit
  <2>1. OutcomesOf(t) = Outcomes(trace, t)
    BY DEF OutcomesOf, Outcomes, Counted
  <2>2. Outcomes(trace, t) \in Seq(T!Entry)
    <3>1. T!Query \in T!Entry
      BY EntryTypes
    <3> QED
      BY <1>1, <3>1, OutcomesAppend
  <2>3. Streak(Outcomes(trace, t), breaker[t])
    BY DEF Streaks
  <2> QED
    BY <2>1, <2>2, <2>3, StreakTells DEF Hopeless
<1>3. BreakerLimit \in Nat /\ \A t \in Tool : breaker[t].count \in Nat
  BY <1>1, RuntimeAssumption DEF BreakerLimit
<1> QED
  BY <1>2, <1>3 DEF Streaks, BreakerStopsHopelessRuns, Stopped
\* Only an observation of an executed call changes what the breaker remembers.
LEMMA OthersUncounted ==
  /\ \A t : ~Counted(T!Query, t) /\ ~Counted(T!Answer, t) /\ ~Counted(T!Failure, t)
  /\ \A t, a, cs : ~Counted(T!Action(a, cs), t)
  /\ \A t, c : ~Counted(T!Observation(c, Denied), t)
  /\ \A t, c, got : got \in Outcome => (Counted(T!Observation(c, got), t) <=> ToolOf[c] = t)
  BY RuntimeAssumption DEF Counted, T!Query, T!Answer, T!Failure, T!Action, T!Observation

LEMMA OutcomesKept ==
  ASSUME TypeOK, NEW e \in T!Entry, NEW t, ~Counted(e, t)
  PROVE  Outcomes(Append(trace, e), t) = Outcomes(trace, t)
<1>1. trace \in Seq(T!Entry)
  BY DEF TypeOK, RecordType
<1> QED
  BY <1>1, OutcomesAppend

LEMMA NextOutcomes ==
  ASSUME TypeOK, Next, ~RecordObservation
  PROVE  \A t \in Tool : Outcomes(trace', t) = Outcomes(trace, t)
<1> SUFFICES ASSUME trace' # trace, NEW t \in Tool PROVE Outcomes(trace', t) = Outcomes(trace, t)
  OBVIOUS
<1>1. PICK e \in T!Entry : trace' = Append(trace, e) /\ ~Counted(e, t)
  <2>1. CASE PersistQuery \/ PersistAnswer \/ PersistFailure
    BY <2>1, EntryTypes, OthersUncounted DEF PersistQuery, PersistAnswer, PersistFailure, Persist
  <2>2. CASE PersistAction
    <3>1. action \in Actions /\ allowed \in SUBSET Call
      BY <2>2, ActionCalls DEF PersistAction, TypeOK, CursorType, WorkType
    <3>2. T!Action(action, allowed) \in T!Entry /\ ~Counted(T!Action(action, allowed), t)
      BY <3>1, EntryTypes, OthersUncounted
    <3> QED
      BY <2>2, <3>2 DEF PersistAction, Persist
  <2>3. CASE Announce
    <3>1. action[next] \in Call
      BY <2>3, ActionCalls DEF Announce, TypeOK, CursorType
    <3>2. /\ T!Observation(action[next], Denied) \in T!Entry
          /\ ~Counted(T!Observation(action[next], Denied), t)
      BY <3>1, EntryTypes, OthersUncounted
    <3> QED
      BY <2>3, <3>2 DEF Announce, Persist
  <2>4. CASE \/ Begin \/ StartMemory \/ Checkpoint \/ Retrieve \/ NextMessage \/ EnforcePolicy
             \/ Charge \/ Dispatch \/ Execute \/ Finally
    BY <2>4 DEF Begin, StartMemory, Checkpoint, Retrieve, NextMessage, EnforcePolicy,
                Charge, Dispatch, Execute, Finally
  <2>5. CASE Operator \/ WallClockRunsOut \/ Returned
    BY <2>5 DEF Operator, RequestPause, RequestResume, RequestInterrupt, Request,
                WallClockRunsOut, Returned, vars
  <2> QED
    BY <2>1, <2>2, <2>3, <2>4, <2>5 DEF Next, Run
<1> QED
  BY <1>1, OutcomesKept
LEMMA NextStreaksRecorded ==
  ASSUME TypeOK, Streaks, RecordObservation, ~replaying PROVE Streaks'
<1> DEFINE c == action[next]
           got == results[c]
           u == ToolOf[c]
           b == Record(breaker, u, got)
<1>1. /\ pc = "record" /\ ~replaying' /\ got \in Outcome /\ u \in Tool
      /\ T!Observation(c, got) \in T!Entry
  <2>1. c \in allowed /\ got \in Outcome /\ c \in Call
    BY ActionCalls DEF RecordObservation, TypeOK, WorkType, CursorType, ApprovedAfter
  <2>2. u \in Tool
    BY <2>1, RuntimeAssumption DEF Tool, Range
  <2>3. T!Observation(c, got) \in T!Entry
    BY <2>1, EntryTypes
  <2> QED
    BY <2>1, <2>2, <2>3 DEF RecordObservation
<1>2. /\ trace \in Seq(T!Entry) /\ breaker \in [Tool -> [sig : Outcome, count : Nat]]
      /\ BreakerLimit \in Nat
  BY RuntimeAssumption DEF TypeOK, RecordType, BreakerLimit
<1>3. /\ \A t \in Tool : Streak(Outcomes(trace, t), breaker[t])
      /\ \A t \in Tool : breaker[t].count < BreakerLimit
      /\ outcome # "circuit_breaker_tripped"
  BY <1>1 DEF Streaks, Stopped
<1>4. CASE Raise /\ UNCHANGED <<trace, breaker>>
  BY <1>1, <1>3, <1>4 DEF Raise, Streaks, Stopped
<1>5. CASE trace' = Append(trace, T!Observation(c, got)) /\ breaker' = b
  <2>1. b \in [Tool -> [sig : Outcome, count : Nat]]
    BY <1>1, <1>2, BreakerType
  <2>2. \A t \in Tool : t # u => b[t] = breaker[t]
    BY <1>1, <1>2 DEF Record
  <2>3. \/ got = Ok /\ b[u].sig = Ok /\ b[u].count = 0
        \/ /\ got # Ok /\ b[u].sig = got
           /\ b[u].count = IF breaker[u].sig = got THEN breaker[u].count + 1 ELSE 1
    BY <1>1, <1>2 DEF Record, NoStreak
  <2>4. ASSUME NEW t \in Tool PROVE Streak(Outcomes(trace, t)', breaker[t]')
    <3> DEFINE e == T!Observation(c, got)
    <3>1. e.got = got /\ (Counted(e, t) <=> u = t)
      BY <1>1, OthersUncounted DEF T!Observation
    <3>2. /\ Outcomes(trace, t) \in Seq(T!Entry)
          /\ Outcomes(trace', t) = IF Counted(e, t) THEN Append(Outcomes(trace, t), e)
                                                  ELSE Outcomes(trace, t)
      BY <1>1, <1>2, <1>5, OutcomesAppend
    <3>3. Streak(Outcomes(trace, t), breaker[t])
      BY <1>3
    <3>4. CASE t = u
      <4>1. Streak(Append(Outcomes(trace, u), e), b[u])
        <5> HIDE DEF e, b, got, u
        <5> QED
          BY <1>1, <2>3, <3>1, <3>2, <3>3, <3>4, StreakGrows DEF e
      <4> QED
        BY <1>5, <3>1, <3>2, <3>4, <4>1
    <3>5. CASE t # u
      BY <1>5, <2>2, <3>1, <3>2, <3>3, <3>5
    <3> QED
      BY <3>4, <3>5
  <2>5. \/ b[u].count >= BreakerLimit /\ pc' = "failing"
        \/ b[u].count < BreakerLimit /\ outcome' = outcome
    BY <1>2, <1>5, <2>1, <1>1 DEF RecordObservation, ShouldTrip, FailWith, Continue, Raise
  <2> HIDE DEF b, u, got, c
  <2>6. ~replaying' => /\ pc' \notin Stopped => \A t \in Tool : breaker'[t].count < BreakerLimit
                       /\ outcome' = "circuit_breaker_tripped" =>
                            pc' \in Stopped /\ \E t \in Tool : breaker'[t].count >= BreakerLimit
    BY <1>1, <1>3, <1>5, <2>2, <2>5 DEF Stopped
  <2> QED
    BY <2>4, <2>6 DEF Streaks
<1> QED
  BY <1>4, <1>5 DEF RecordObservation, Persist

LEMMA NextStreaks ==
  ASSUME TypeOK, Streaks, Next PROVE Streaks'
<1> SUFFICES ASSUME ~replaying' PROVE Streaks'
  BY DEF Streaks
<1>1. CASE RecordObservation
  BY <1>1, NextStreaksRecorded DEF RecordObservation
<1>2. CASE ~RecordObservation
  <2>1. replaying' = replaying /\ breaker' = breaker
    BY <1>2 DEF Next, Run, Begin, PersistQuery, StartMemory, Checkpoint, Retrieve, NextMessage,
       PersistAnswer, EnforcePolicy, PersistAction, Announce, Charge, Dispatch, Execute,
       PersistFailure, Finally, Operator, RequestPause, RequestResume, RequestInterrupt,
       Request, WallClockRunsOut, Returned, vars
  <2>2. \A t \in Tool : Outcomes(trace', t) = Outcomes(trace, t)
    BY <1>2, NextOutcomes
  <2>3. pc \in Stopped => pc' \in Stopped
    BY <1>2 DEF Next, Run, Begin, PersistQuery, StartMemory, Checkpoint, Retrieve, NextMessage,
       PersistAnswer, EnforcePolicy, PersistAction, Announce, Charge, Dispatch, Execute,
       PersistFailure, Finally, Operator, RequestPause, RequestResume, RequestInterrupt,
       Request, WallClockRunsOut, Returned, vars, Stopped, Raise
  <2>4. outcome' = "circuit_breaker_tripped" => outcome = "circuit_breaker_tripped"
    BY <1>2 DEF Next, Run, Begin, PersistQuery, StartMemory, Checkpoint, Retrieve, NextMessage,
       PersistAnswer, EnforcePolicy, PersistAction, Announce, AfterAnnouncing, Charge, Dispatch,
       Execute, PersistFailure, Finally, Operator, RequestPause, RequestResume,
       RequestInterrupt, Request, WallClockRunsOut, Returned, vars, Continue, FailWith, Raise
  <2> QED
    BY <2>1, <2>2, <2>3, <2>4 DEF Streaks
<1> QED
  BY <1>1, <1>2

LEMMA InitStreaks == Init => Streaks
<1> SUFFICES ASSUME Init PROVE Streaks
  OBVIOUS
<1>1. ASSUME NEW t \in Tool PROVE Outcomes(trace, t) = <<>> /\ breaker[t] = NoStreak
  BY SelectedEmpty DEF Init, Outcomes
<1>2. Streak(<<>>, NoStreak)
  BY DEF Streak, NoStreak
<1>3. \A t \in Tool : breaker[t].count < BreakerLimit
  BY <1>1, RuntimeAssumption DEF NoStreak, BreakerLimit
<1> QED
  BY <1>1, <1>2, <1>3 DEF Init, Streaks, Stopped

(* The breaker stops a run when, and only when, the trace shows a tool that *)
(* failed BreakerLimit times in a row in the same way: what it remembers of *)
(* a tool is the length of the last streak of equal failures on disk,       *)
(* whatever successes, denials and failures of other tools lie between.     *)
THEOREM BreakerIsRight == Spec => []BreakerStopsHopelessRuns
<1>1. Streaks /\ UNCHANGED vars => Streaks'
  BY DEF Streaks, Outcomes, vars
<1>2. TypeOK /\ Streaks /\ [Next]_vars => Streaks'
  BY <1>1, NextStreaks
<1>3. Spec => []Streaks
  BY <1>2, InitStreaks, TypeCorrect, PTL DEF Spec
<1> QED
  BY <1>3, StreaksTell, TypeCorrect, PTL
--------------------------------------------------------------------------------
(* The trace CoreRuntime writes is one RunTrace allows, and what the        *)
(* subscribers of the event bus are told is what it holds: for every        *)
(* policy, every action and every way an adapter, a budget or the operator  *)
(* may end the run.                                                         *)

\* The latest action in the trace is the one being executed.
Current(k) == LatestAction(k) /\ trace[k] = T!Action(action, allowed)

\* The calls that have an observation after position k.
ObservedAfter(k) == {c \in Call : \E j \in k + 1 .. Len(trace) : T!Observes(trace[j], c)}

\* The calls of the action that must have their observation by now: the denied
\* ones as far as the announcing loop has come, then all denied ones, then the
\* allowed ones as far as the recording loop has come.
Before(n) == {action[i] : i \in {i \in DOMAIN action : i < n}}
Settled ==
  CASE pc = "announce" -> Before(next) \ allowed
    [] pc = "record" -> (ToSet(action) \ allowed) \cup Before(next)
    [] OTHER -> ToSet(action) \ allowed

TraceReady ==
  /\ pc \in {"idle", "query"} => trace = <<>>
  /\ pc \notin {"idle", "query", "finally", "done"} => T!Open
  /\ pc \in {"start_memory", "loop", "retrieve", "ask", "answer", "enforce", "act"}
       => T!AllAnswered
  /\ pc \in {"announce", "charge", "dispatch", "executing", "record"}
       => \E k \in DOMAIN trace : Current(k) /\ ObservedAfter(k) = Settled

-----------------------------------------------------------------------------
(* The trace alone.                                                         *)

LEMMA SameSet == \A s : T!ToSet(s) = ToSet(s)
BY DEF ToSet, T!ToSet

\* Appending anything to a trace.
LEMMA Appended ==
  ASSUME trace \in Seq(T!Entry), NEW e \in T!Entry, trace' = Append(trace, e)
  PROVE  /\ Len(trace) \in Nat /\ Len(trace') = Len(trace) + 1
         /\ DOMAIN trace = 1..Len(trace) /\ DOMAIN trace' = 1..Len(trace) + 1
         /\ \A j \in 1..Len(trace) : trace'[j] = trace[j]
         /\ trace'[Len(trace) + 1] = e
OBVIOUS

LEMMA OpenAfter ==
  ASSUME trace \in Seq(T!Entry), NEW e \in T!Entry, trace' = Append(trace, e),
         e.kind \notin {"answer", "failure"}
  PROVE  (T!Open)'
BY Appended DEF T!Open, T!Last

\* Which calls wait while an action is executed.
LEMMA WaitingCalls ==
  ASSUME trace \in Seq(T!Entry), NEW k \in DOMAIN trace, Current(k),
         NEW c \in Call, NEW v \in BOOLEAN
  PROVE  T!Waiting(c, v) <=>
           c \in ToSet(action) /\ v = (c \in allowed) /\ c \notin ObservedAfter(k)
<1>1. /\ DOMAIN trace = 1..Len(trace) /\ Len(trace) \in Nat /\ k \in Nat
  OBVIOUS
<1>2. /\ trace[k].kind = "action" /\ trace[k].calls = action /\ trace[k].allowed = allowed
  BY DEF Current, T!Action
<1>3. \A j \in k + 1 .. Len(trace) : trace[j].kind # "action"
  BY DEF Current, LatestAction
<1>4. ASSUME T!Waiting(c, v)
      PROVE  c \in ToSet(action) /\ v = (c \in allowed) /\ c \notin ObservedAfter(k)
  <2>1. PICK m \in DOMAIN trace :
          /\ trace[m].kind = "action" /\ c \in T!ToSet(trace[m].calls)
          /\ v = (c \in trace[m].allowed)
          /\ \A j \in m + 1 .. Len(trace) : trace[j].kind # "action" /\ ~T!Observes(trace[j], c)
    BY <1>4 DEF T!Waiting
  <2>2. m = k
    <3>1. m \in Nat /\ ~(m > k) /\ ~(k > m)
      BY <1>1, <1>2, <1>3, <2>1
    <3>2. QED
      BY <1>1, <3>1
  <2>3. QED
    BY <1>2, <2>1, <2>2, SameSet DEF ObservedAfter
<1>5. ASSUME c \in ToSet(action), v = (c \in allowed), c \notin ObservedAfter(k)
      PROVE  T!Waiting(c, v)
  <2>1. \A j \in k + 1 .. Len(trace) : trace[j].kind # "action" /\ ~T!Observes(trace[j], c)
    BY <1>3, <1>5 DEF ObservedAfter
  <2>2. c \in T!ToSet(trace[k].calls) /\ v = (c \in trace[k].allowed)
    BY <1>2, <1>5, SameSet
  <2>3. QED
    BY <1>2, <2>1, <2>2 DEF T!Waiting
<1>6. QED
  BY <1>4, <1>5

LEMMA AllObserved ==
  ASSUME trace \in Seq(T!Entry), NEW k \in DOMAIN trace, Current(k),
         ToSet(action) \subseteq ObservedAfter(k)
  PROVE  T!AllAnswered
BY WaitingCalls DEF T!AllAnswered

\* An observation joins those of the latest action.
LEMMA ObservationAppended ==
  ASSUME trace \in Seq(T!Entry), NEW k \in DOMAIN trace, LatestAction(k),
         NEW c \in Call, NEW got \in Outcome \cup {Denied},
         trace' = Append(trace, T!Observation(c, got))
  PROVE  /\ k \in DOMAIN trace' /\ LatestAction(k)' /\ trace'[k] = trace[k]
         /\ ObservedAfter(k)' = ObservedAfter(k) \cup {c}
<1> DEFINE e == T!Observation(c, got)
<1>1. e \in T!Entry /\ e.kind = "observation" /\ e.call = c
  BY EntryTypes DEF T!Observation
<1>2. /\ Len(trace) \in Nat /\ Len(trace') = Len(trace) + 1 /\ k \in 1..Len(trace)
      /\ \A j \in 1..Len(trace) : trace'[j] = trace[j]
      /\ trace'[Len(trace) + 1] = e
  BY <1>1, Appended
<1>3. k \in DOMAIN trace' /\ LatestAction(k)' /\ trace'[k] = trace[k]
  BY <1>1, LatestActionStays
<1>4. ASSUME NEW d \in Call
      PROVE  (\E j \in k + 1 .. Len(trace') : T!Observes(trace'[j], d)) <=>
             d = c \/ \E j \in k + 1 .. Len(trace) : T!Observes(trace[j], d)
  <2>1. T!Observes(e, d) <=> d = c
    BY <1>1 DEF T!Observes
  <2>2. k + 1 .. Len(trace') = (k + 1 .. Len(trace)) \cup {Len(trace) + 1}
    BY <1>2
  <2>3. \A j \in k + 1 .. Len(trace) : trace'[j] = trace[j]
    BY <1>2
  <2>4. QED
    BY <1>2, <2>1, <2>2, <2>3
<1>5. QED
  BY <1>3, <1>4 DEF ObservedAfter

\* Once every call of the latest action is observed, nothing waits.
LEMMA AllObservedNow ==
  ASSUME trace' \in Seq(T!Entry), NEW k \in DOMAIN trace', LatestAction(k)',
         NEW a, NEW cs, trace'[k] = T!Action(a, cs), ToSet(a) \subseteq ObservedAfter(k)'
  PROVE  T!AllAnswered'
<1>1. DOMAIN trace' = 1..Len(trace') /\ Len(trace') \in Nat /\ k \in Nat
  OBVIOUS
<1>2. /\ trace'[k].kind = "action" /\ trace'[k].calls = a
      /\ \A j \in k + 1 .. Len(trace') : trace'[j].kind # "action"
  BY DEF T!Action, LatestAction
<1>3. SUFFICES ASSUME NEW c \in Call, NEW m \in DOMAIN trace',
                      trace'[m].kind = "action", c \in T!ToSet(trace'[m].calls),
                      \A j \in m + 1 .. Len(trace') :
                        trace'[j].kind # "action" /\ ~T!Observes(trace'[j], c)
               PROVE  FALSE
  BY DEF T!AllAnswered, T!Waiting
<1>4. m = k
  <2>1. m \in Nat /\ ~(m > k) /\ ~(k > m)
    BY <1>1, <1>2, <1>3
  <2>2. QED
    BY <1>1, <2>1
<1>5. c \in ObservedAfter(k)'
  BY <1>2, <1>3, <1>4, SameSet
<1>6. QED
  BY <1>3, <1>4, <1>5 DEF ObservedAfter

LEMMA SameTrace ==
  ASSUME trace' = trace
  PROVE  T!Open' = T!Open /\ T!AllAnswered' = T!AllAnswered
BY DEF T!Open, T!Last, T!AllAnswered, T!Waiting

-----------------------------------------------------------------------------
(* The calls of an action.                                                  *)

LEMMA Positions ==
  ASSUME TypeOK, action \in Actions
  PROVE  /\ DOMAIN action = 1..Len(action) /\ Len(action) \in Nat /\ 1 \in DOMAIN action
         /\ ToSet(action) = {action[i] : i \in DOMAIN action}
         /\ ToSet(action) \subseteq Call
         /\ \A i, j \in DOMAIN action : action[i] = action[j] => i = j
BY FirstCall, ActionCalls, RuntimeAssumption DEF ToSet, IsInjective

\* A call is settled by its own turn of a loop and not before.
LEMMA OwnTurn ==
  ASSUME TypeOK, action \in Actions, NEW n \in DOMAIN action
  PROVE  /\ Before(n + 1) = Before(n) \cup {action[n]}
         /\ action[n] \notin Before(n)
         /\ n = Len(action) => Before(n + 1) = ToSet(action)
<1>1. /\ DOMAIN action = 1..Len(action) /\ Len(action) \in Nat /\ n \in Nat
      /\ ToSet(action) = {action[i] : i \in DOMAIN action}
      /\ \A i, j \in DOMAIN action : action[i] = action[j] => i = j
  BY Positions
<1>2. {i \in DOMAIN action : i < n + 1} = {i \in DOMAIN action : i < n} \cup {n}
  BY <1>1
<1>3. n = Len(action) => {i \in DOMAIN action : i < n + 1} = DOMAIN action
  BY <1>1
<1>4. QED
  BY <1>1, <1>2, <1>3 DEF Before

\* The recording loop passes over denied calls only.
LEMMA Passed ==
  ASSUME TypeOK, action \in Actions, NEW n \in Nat, NEW j \in DOMAIN action,
         NextApproved(n, j)
  PROVE  /\ Before(n + 1) \subseteq Before(j)
         /\ Before(j) \subseteq Before(n + 1) \cup (ToSet(action) \ allowed)
<1>1. /\ DOMAIN action = 1..Len(action) /\ Len(action) \in Nat /\ j \in Nat /\ j > n
      /\ \A i \in DOMAIN action : i > n /\ action[i] \in allowed => j <= i
      /\ \A i \in DOMAIN action : action[i] \in ToSet(action)
  BY Positions DEF NextApproved, ApprovedAfter
<1>2. \A i \in DOMAIN action : i < n + 1 => i < j
  BY <1>1
<1>3. \A i \in DOMAIN action : i < j => i < n + 1 \/ action[i] \in ToSet(action) \ allowed
  BY <1>1
<1>4. QED
  BY <1>2, <1>3 DEF Before

LEMMA PassedTheEnd ==
  ASSUME TypeOK, action \in Actions, NEW n \in Nat, ApprovedAfter(n) = {}
  PROVE  ToSet(action) \subseteq Before(n + 1) \cup (ToSet(action) \ allowed)
<1>1. /\ DOMAIN action = 1..Len(action)
      /\ ToSet(action) = {action[i] : i \in DOMAIN action}
  BY Positions
<1>2. \A i \in DOMAIN action : i < n + 1 \/ action[i] \notin allowed
  BY <1>1 DEF ApprovedAfter
<1>3. QED
  BY <1>1, <1>2 DEF Before

-----------------------------------------------------------------------------
(* TraceReady is an invariant.                                              *)

LEMMA ReadyStays ==
  ASSUME TraceReady, UNCHANGED <<pc, trace, action, allowed, next>>
  PROVE  TraceReady'
BY SameTrace DEF TraceReady, Current, ObservedAfter, Settled, Before, LatestAction

\* Steps that append nothing before an action is persisted.
LEMMA ReadyBetweenActions ==
  ASSUME TraceReady, trace' = trace,
         pc \in {"start_memory", "loop", "retrieve", "ask", "answer", "enforce", "act"},
         pc' \in {"loop", "retrieve", "ask", "answer", "enforce", "act",
                  "failing", "finally", "done"}
  PROVE  TraceReady'
BY SameTrace DEF TraceReady

\* Steps that append nothing while an action is executed, once every denied
\* call has been answered.
LEMMA ReadyWithinAction ==
  ASSUME TraceReady, UNCHANGED <<trace, action, allowed>>,
         pc \in {"charge", "dispatch", "executing", "record"},
         pc' \in {"dispatch", "executing", "failing", "finally"},
         pc' \in {"dispatch", "executing"} => pc # "record"
  PROVE  TraceReady'
<1>1. T!Open /\ T!Open' = T!Open
  BY SameTrace DEF TraceReady
<1>2. CASE pc' \in {"failing", "finally"}
  BY <1>1, <1>2 DEF TraceReady
<1>3. CASE pc' \in {"dispatch", "executing"}
  BY <1>1, <1>3 DEF TraceReady, Current, ObservedAfter, Settled, LatestAction
<1>4. QED
  BY <1>2, <1>3

LEMMA PersistQueryReady ==
  ASSUME TypeOK, TraceReady, PersistQuery PROVE TraceReady'
<1>1. CASE pc' = "done"
  BY <1>1 DEF TraceReady
<1>2. CASE trace' = Append(trace, T!Query) /\ pc' = "start_memory"
  <2>1. trace = <<>> /\ trace \in Seq(T!Entry)
    BY DEF PersistQuery, TraceReady, TypeOK, RecordType
  <2>2. T!Open'
    BY <1>2, <2>1, OpenAfter, EntryTypes DEF T!Query
  <2>3. \A k \in DOMAIN trace' : trace'[k].kind = "query"
    BY <1>2, <2>1 DEF T!Query
  <2>4. T!AllAnswered'
    BY <2>3 DEF T!AllAnswered, T!Waiting
  <2>5. QED
    BY <1>2, <2>2, <2>4 DEF TraceReady
<1>3. QED
  BY <1>1, <1>2 DEF PersistQuery, Persist, Continue

LEMMA PersistActionReady ==
  ASSUME TypeOK, TraceReady, PersistAction PROVE TraceReady'
<1>1. CASE pc' = "finally"
  BY <1>1 DEF TraceReady
<1>2. CASE trace' = Append(trace, T!Action(action, allowed)) /\ pc' = "announce"
  <2>1. /\ UNCHANGED <<action, allowed, next>> /\ next = 1 /\ action \in Actions
        /\ trace \in Seq(T!Entry)
    BY DEF PersistAction, work, TypeOK, CursorType, RecordType
  <2>2. T!Action(action, allowed) \in T!Entry
    BY <2>1, ActionCalls, EntryTypes DEF TypeOK, WorkType
  <2>3. T!Open'
    BY <1>2, <2>1, <2>2, OpenAfter DEF T!Action
  <2>4. PICK k \in Nat : k = Len(trace) + 1
    BY <2>1
  <2>5. k \in DOMAIN trace' /\ Len(trace') = k /\ trace'[k] = T!Action(action, allowed)
    BY <1>2, <2>1, <2>4
  <2>6. k + 1 .. Len(trace') = {}
    BY <2>5
  <2>7. Current(k)' /\ ObservedAfter(k)' = {}
    BY <2>1, <2>5, <2>6 DEF Current, LatestAction, ObservedAfter, T!Action
  <2>8. {i \in DOMAIN action : i < 1} = {}
    BY <2>1, Positions
  <2>9. Settled' = {}
    BY <1>2, <2>1, <2>8 DEF Settled, Before
  <2>10. QED
    BY <1>2, <2>3, <2>5, <2>7, <2>9 DEF TraceReady
<1>3. QED
  BY <1>1, <1>2 DEF PersistAction, Persist, Continue, Raise

LEMMA AnnounceReady ==
  ASSUME TypeOK, TraceReady, Announce PROVE TraceReady'
<1> DEFINE c == action[next]
<1>1. /\ pc = "announce" /\ action \in Actions /\ next \in DOMAIN action
      /\ trace \in Seq(T!Entry) /\ T!Open
  BY DEF Announce, TypeOK, CursorType, RecordType, TraceReady
<1>2. PICK k \in DOMAIN trace : Current(k) /\ ObservedAfter(k) = Before(next) \ allowed
  BY <1>1 DEF TraceReady, Settled
<1>3. c \in Call /\ Before(next + 1) = Before(next) \cup {c}
  BY <1>1, OwnTurn, ActionCalls
<1>4. CASE pc' = "finally"
  BY <1>4 DEF TraceReady
<1>5. CASE AfterAnnouncing
  <2>1. /\ T!Open' /\ k \in DOMAIN trace' /\ LatestAction(k)'
        /\ trace'[k] = T!Action(action, allowed)
        /\ ObservedAfter(k)' = Before(next + 1) \ allowed
    <3>1. CASE c \in allowed /\ trace' = trace
      BY <1>1, <1>2, <1>3, <3>1, SameTrace DEF Current, LatestAction, ObservedAfter
    <3>2. CASE c \notin allowed /\ trace' = Append(trace, T!Observation(c, Denied))
      <4>1. T!Observation(c, Denied) \in T!Entry
        BY <1>3, EntryTypes
      <4>2. T!Open'
        BY <1>1, <3>2, <4>1, OpenAfter DEF T!Observation
      <4>3. QED
        BY <1>1, <1>2, <1>3, <3>2, <4>2, ObservationAppended DEF Current
    <3>3. QED
      BY <1>5, <3>1, <3>2 DEF Announce, Persist, Raise, AfterAnnouncing, Continue
  <2>2. CASE next < Len(action)
    <3>1. pc' = "announce" /\ next' = next + 1 /\ UNCHANGED <<action, allowed>>
      BY <1>5, <2>2 DEF AfterAnnouncing, Continue
    <3>2. Settled' = Before(next + 1) \ allowed
      BY <3>1 DEF Settled, Before
    <3>3. Current(k)'
      BY <2>1, <3>1 DEF Current
    <3>4. QED
      BY <2>1, <3>1, <3>2, <3>3 DEF TraceReady
  <2>3. CASE ~(next < Len(action))
    <3>1. Before(next + 1) = ToSet(action)
      BY <1>1, <2>3, Positions, OwnTurn
    <3>2. CASE allowed = {}
      <4>1. pc' = "loop"
        BY <1>5, <2>3, <3>2 DEF AfterAnnouncing, Continue
      <4>2. trace' \in Seq(T!Entry)
        BY NextTraceType DEF Next, Run
      <4>3. T!AllAnswered'
        BY <2>1, <3>1, <3>2, <4>2, AllObservedNow
      <4>4. QED
        BY <2>1, <4>1, <4>3 DEF TraceReady
    <3>3. CASE allowed # {}
      <4>1. pc' = "charge" /\ UNCHANGED <<action, allowed>>
        BY <1>5, <2>3, <3>3 DEF AfterAnnouncing, Continue
      <4>2. Settled' = ToSet(action) \ allowed
        BY <4>1 DEF Settled
      <4>3. Current(k)'
        BY <2>1, <4>1 DEF Current
      <4>4. QED
        BY <2>1, <3>1, <4>1, <4>2, <4>3 DEF TraceReady
    <3>4. QED
      BY <3>2, <3>3
  <2>4. QED
    BY <2>2, <2>3
<1>6. QED
  BY <1>4, <1>5 DEF Announce, Raise

LEMMA ExecuteReady ==
  ASSUME TypeOK, TraceReady, Execute PROVE TraceReady'
<1>1. /\ pc = "executing" /\ UNCHANGED <<trace, action, allowed>> /\ action \in Actions
  BY DEF Execute, TypeOK, CursorType
<1>2. CASE pc' \in {"failing", "finally"}
  BY <1>1, <1>2, ReadyWithinAction
<1>3. CASE pc' = "record"
  <2>1. PICK j \in DOMAIN action : NextApproved(0, j) /\ next' = j
    BY <1>3 DEF Execute, FailWith, Raise
  <2>2. Before(0 + 1) = {}
    <3>1. {i \in DOMAIN action : i < 1} = {}
      BY <1>1, Positions
    <3>2. QED
      BY <3>1 DEF Before
  <2>3. Before(j) \subseteq ToSet(action) \ allowed
    BY <1>1, <2>1, <2>2, Passed
  <2>4. Settled = ToSet(action) \ allowed
    BY <1>1 DEF Settled
  <2>5. Settled' = (ToSet(action) \ allowed) \cup Before(j)
    BY <1>1, <1>3, <2>1 DEF Settled, Before
  <2>6. Settled' = Settled
    BY <2>3, <2>4, <2>5
  <2>7. T!Open'
    BY <1>1, SameTrace DEF TraceReady
  <2>8. QED
    BY <1>1, <1>3, <2>6, <2>7 DEF TraceReady, Current, LatestAction, ObservedAfter
<1>4. QED
  BY <1>2, <1>3 DEF Execute, Continue, FailWith, Raise

LEMMA RecordObservationReady ==
  ASSUME TypeOK, TraceReady, RecordObservation PROVE TraceReady'
<1> DEFINE c == action[next]
           denied == ToSet(action) \ allowed
<1>1. /\ pc = "record" /\ action \in Actions /\ next \in DOMAIN action /\ next \in Nat
      /\ c \in allowed /\ c \in Call /\ results[c] \in Outcome
      /\ trace \in Seq(T!Entry) /\ T!Open
  BY ActionCalls
     DEF RecordObservation, TypeOK, CursorType, WorkType, RecordType, TraceReady, ApprovedAfter
<1>2. PICK k \in DOMAIN trace : Current(k) /\ ObservedAfter(k) = denied \cup Before(next)
  BY <1>1 DEF TraceReady, Settled
<1>3. Before(next + 1) = Before(next) \cup {c}
  BY <1>1, OwnTurn
<1>4. CASE pc' = "finally"
  BY <1>4 DEF TraceReady
<1>5. CASE trace' = Append(trace, T!Observation(c, results[c]))
  <2>1. T!Observation(c, results[c]) \in T!Entry
    BY <1>1, EntryTypes
  <2>2. T!Open'
    BY <1>1, <1>5, <2>1, OpenAfter DEF T!Observation
  <2>3. /\ k \in DOMAIN trace' /\ LatestAction(k)'
        /\ trace'[k] = T!Action(action, allowed)
        /\ ObservedAfter(k)' = denied \cup Before(next + 1)
    BY <1>1, <1>2, <1>3, <1>5, ObservationAppended DEF Current
  <2>4. CASE pc' = "failing"
    BY <2>2, <2>4 DEF TraceReady
  <2>5. CASE ApprovedAfter(next) = {} /\ pc' = "loop"
    <3>1. ToSet(action) \subseteq ObservedAfter(k)'
      BY <1>1, <2>3, <2>5, PassedTheEnd
    <3>2. trace' \in Seq(T!Entry)
      BY <1>1, <1>5, <2>1
    <3>3. T!AllAnswered'
      BY <2>3, <3>1, <3>2, AllObservedNow
    <3>4. QED
      BY <2>2, <2>5, <3>3 DEF TraceReady
  <2>6. CASE /\ pc' = "record" /\ UNCHANGED <<action, allowed>>
             /\ \E j \in DOMAIN action : NextApproved(next, j) /\ next' = j
    <3>1. PICK j \in DOMAIN action : NextApproved(next, j) /\ next' = j
      BY <2>6
    <3>2. Settled' = denied \cup Before(j)
      BY <2>6, <3>1 DEF Settled, Before
    <3>3. denied \cup Before(j) = denied \cup Before(next + 1)
      BY <1>1, <3>1, Passed
    <3>4. Current(k)'
      BY <2>3, <2>6 DEF Current
    <3>5. QED
      BY <2>2, <2>3, <2>6, <3>2, <3>3, <3>4 DEF TraceReady
  <2>7. QED
    BY <1>4, <2>4, <2>5, <2>6
       DEF RecordObservation, LastObservation, FailWith, Continue, Raise
<1>6. QED
  BY <1>4, <1>5 DEF RecordObservation, Persist, Raise

LEMMA InitReady == Init => TraceReady
BY DEF Init, TraceReady

LEMMA NextReady ==
  ASSUME TypeOK, TraceReady, Next PROVE TraceReady'
<1>1. CASE Begin
  BY <1>1 DEF Begin, TraceReady
<1>2. CASE StartMemory \/ Checkpoint \/ Retrieve \/ NextMessage
  BY <1>2, ReadyBetweenActions
     DEF StartMemory, Checkpoint, Retrieve, NextMessage, Continue, FailWith, Raise
<1>3. CASE PersistAnswer
  BY <1>3 DEF PersistAnswer, Raise, TraceReady
<1>4. CASE EnforcePolicy
  BY <1>4, ReadyBetweenActions DEF EnforcePolicy, Continue, Raise
<1>5. CASE Charge \/ Dispatch
  BY <1>5, ReadyWithinAction DEF Charge, Dispatch, work, Continue, FailWith
<1>6. CASE PersistFailure \/ Finally
  BY <1>6 DEF PersistFailure, Finally, Raise, TraceReady
<1>7. CASE Operator \/ WallClockRunsOut \/ Returned
  BY <1>7, ReadyStays DEF Operator, RequestPause, RequestResume, RequestInterrupt, Request,
                          WallClockRunsOut, Returned, vars, work
<1>8. QED
  BY <1>1, <1>2, <1>3, <1>4, <1>5, <1>6, <1>7, PersistQueryReady, PersistActionReady,
     AnnounceReady, ExecuteReady, RecordObservationReady DEF Next, Run

-----------------------------------------------------------------------------
(* Each step of the run is a step of RunTrace or leaves the trace alone.    *)

LEMMA NextRefines ==
  ASSUME TypeOK, TraceReady, Next PROVE [T!Next]_trace
<1>1. CASE PersistQuery
  <2>1. trace' = trace \/ trace' = Append(trace, T!Query)
    BY <1>1 DEF PersistQuery, Persist
  <2>2. trace = <<>>
    BY <1>1 DEF PersistQuery, TraceReady
  <2>3. QED
    BY <2>1, <2>2 DEF T!Next, T!Ask
<1>2. CASE PersistAction
  <2>1. trace' = trace \/ trace' = Append(trace, T!Action(action, allowed))
    BY <1>2 DEF PersistAction, Persist
  <2>2. T!Open /\ T!AllAnswered
    BY <1>2 DEF PersistAction, TraceReady
  <2>3. action \in Actions /\ allowed \in SUBSET T!ToSet(action)
    BY <1>2, SameSet DEF PersistAction, TypeOK, CursorType, WorkType
  <2>4. QED
    BY <2>1, <2>2, <2>3 DEF T!Next, T!Act
<1>3. CASE Announce
  <2>1. /\ action \in Actions /\ next \in DOMAIN action /\ trace \in Seq(T!Entry) /\ T!Open
    BY <1>3 DEF Announce, TypeOK, CursorType, RecordType, TraceReady
  <2>2. PICK k \in DOMAIN trace : Current(k) /\ ObservedAfter(k) = Before(next) \ allowed
    BY <1>3 DEF Announce, TraceReady, Settled
  <2>3. /\ action[next] \in Call /\ action[next] \in ToSet(action)
        /\ action[next] \notin ObservedAfter(k)
    BY <2>1, <2>2, OwnTurn, ActionCalls
  <2>4. SUFFICES ASSUME trace' # trace PROVE T!Observe
    BY DEF T!Next
  <2>5. action[next] \notin allowed /\ trace' = Append(trace, T!Observation(action[next], Denied))
    BY <1>3, <2>4 DEF Announce, Persist
  <2>6. T!Waiting(action[next], FALSE)
    <3>1. FALSE = (action[next] \in allowed)
      BY <2>5
    <3>2. QED
      BY <2>1, <2>2, <2>3, <3>1, WaitingCalls
  <2>7. QED
    BY <2>1, <2>3, <2>5, <2>6 DEF T!Observe
<1>4. CASE RecordObservation
  <2>1. /\ action \in Actions /\ next \in DOMAIN action /\ trace \in Seq(T!Entry) /\ T!Open
        /\ action[next] \in allowed /\ results[action[next]] \in Outcome
    BY <1>4 DEF RecordObservation, TypeOK, CursorType, RecordType, TraceReady, ApprovedAfter
  <2>2. PICK k \in DOMAIN trace :
          Current(k) /\ ObservedAfter(k) = (ToSet(action) \ allowed) \cup Before(next)
    BY <1>4 DEF RecordObservation, TraceReady, Settled
  <2>3. /\ action[next] \in Call /\ action[next] \in ToSet(action)
        /\ action[next] \notin ObservedAfter(k)
    BY <2>1, <2>2, OwnTurn, ActionCalls
  <2>4. T!Waiting(action[next], TRUE)
    BY <2>1, <2>2, <2>3, WaitingCalls
  <2>5. trace' = trace \/ trace' = Append(trace, T!Observation(action[next], results[action[next]]))
    BY <1>4 DEF RecordObservation, Persist
  <2>6. QED
    BY <2>1, <2>3, <2>4, <2>5 DEF T!Next, T!Observe
<1>5. CASE PersistAnswer
  <2>1. trace' = trace \/ trace' = Append(trace, T!Answer)
    BY <1>5 DEF PersistAnswer, Persist
  <2>2. T!Open /\ T!AllAnswered
    BY <1>5 DEF PersistAnswer, TraceReady
  <2>3. QED
    BY <2>1, <2>2 DEF T!Next, T!Finish
<1>6. CASE PersistFailure
  <2>1. trace' = trace \/ trace' = Append(trace, T!Failure)
    BY <1>6 DEF PersistFailure, Persist
  <2>2. T!Open
    BY <1>6 DEF PersistFailure, TraceReady
  <2>3. QED
    BY <2>1, <2>2 DEF T!Next, T!Fail
<1>7. CASE \/ Begin \/ StartMemory \/ Checkpoint \/ Retrieve \/ NextMessage \/ EnforcePolicy
           \/ Charge \/ Dispatch \/ Execute \/ Finally
  BY <1>7 DEF Begin, StartMemory, Checkpoint, Retrieve, NextMessage, EnforcePolicy,
              Charge, Dispatch, Execute, Finally
<1>8. CASE Operator \/ WallClockRunsOut \/ Returned
  BY <1>8 DEF Operator, RequestPause, RequestResume, RequestInterrupt, Request,
              WallClockRunsOut, Returned, vars
<1>9. QED
  BY <1>1, <1>2, <1>3, <1>4, <1>5, <1>6, <1>7, <1>8 DEF Next, Run

\* Whatever the model asks for, whatever the policy and the gate decide and
\* whichever adapter raises where, the trace CoreRuntime leaves in the trace
\* store is one RunTrace allows: the query first, each action answered by the
\* observations of its own calls, each at most once and denied calls by the
\* denial, no decision while a call is unanswered, nothing after the end.
THEOREM TraceIsARunTrace == Spec => ImplementsRunTrace
<1>1. Init => T!Init
  BY DEF Init, T!Init
<1>2. TraceReady /\ UNCHANGED vars => TraceReady' /\ UNCHANGED trace
  BY ReadyStays DEF vars, work
<1>3. TypeOK /\ TraceReady /\ [Next]_vars => TraceReady' /\ [T!Next]_trace
  BY <1>2, NextReady, NextRefines
<1>4. QED
  BY <1>1, <1>3, InitReady, TypeCorrect, PTL DEF Spec, ImplementsRunTrace, T!Spec

------------------------------------------------------------------------------
(* What the bus tells: its events against the lines of the trace.           *)
Closing == {"ToolCompleted", "ToolErrored"}
RunEvents == {"RunStarted", "SpanOpened", "RunCompleted", "RunFailed", "SpanClosed"}
BusEvent == {Event(kind) : kind \in RunEvents}
              \cup {ToolEvent(kind, c) :
                      kind \in Closing \cup {"ToolInvoked", "CircuitBreakerTripped"}, c \in Call}

\* The positions at which the bus was told how call c ended, and at which the
\* trace says so.
Closings(c) == {i \in DOMAIN bus : bus[i].kind \in Closing /\ bus[i].call = c}
Observations(c) == {i \in DOMAIN trace : T!Observes(trace[i], c)}

ClosedAfter(i, c) ==
  \E j \in i + 1 .. Len(bus) : bus[j].kind \in Closing /\ bus[j].call = c

\* The calls of the current action that were announced and have not come back.
Pending == {c \in allowed : \/ pc = "announce" /\ c \in Before(next)
                            \/ pc \in {"charge", "dispatch", "executing"}
                            \/ pc = "record" /\ c \notin Before(next)}

InvokedIsPending ==
  \A c \in Call : \A i \in DOMAIN bus :
    bus[i] = ToolEvent("ToolInvoked", c) => ClosedAfter(i, c) \/ c \in Pending

Telling ==
  /\ bus \in Seq(BusEvent)
  /\ \A c \in Call : Cardinality(Closings(c)) = Cardinality(Observations(c))
  /\ Emitted("RunCompleted") => Last(trace) = T!Answer /\ pc \in {"finally", "done"}
  /\ Emitted("RunFailed") => Last(trace) = T!Failure /\ pc \in {"finally", "done"}

Closed ==
  /\ pc \notin {"failing", "finally", "done"} => InvokedIsPending
  /\ CompletedRunLeavesNoCallOpen

------------------------------------------------------------------------------
(* The bus and the trace alone.                                             *)

\* Emitting a batch of events of which only the first may close a call.
LEMMA BusGrows ==
  ASSUME bus \in Seq(BusEvent), NEW s \in Seq(BusEvent), Len(s) > 0, bus' = bus \o s
  PROVE  /\ bus' \in Seq(BusEvent)
         /\ Len(bus) \in Nat /\ Len(bus') = Len(bus) + Len(s)
         /\ DOMAIN bus = 1..Len(bus) /\ DOMAIN bus' = 1..Len(bus) + Len(s)
         /\ \A i \in 1..Len(bus) : bus'[i] = bus[i]
         /\ \A i \in 1..Len(s) : bus'[Len(bus) + i] = s[i]
         /\ bus'[Len(bus) + 1] = s[1]
OBVIOUS

LEMMA ClosingsGrow ==
  ASSUME bus \in Seq(BusEvent), NEW s \in Seq(BusEvent), Len(s) > 0, bus' = bus \o s,
         \A i \in 2..Len(s) : s[i].kind \notin Closing, NEW c \in Call
  PROVE  Closings(c)' = IF s[1].kind \in Closing /\ s[1].call = c
                        THEN Closings(c) \cup {Len(bus) + 1} ELSE Closings(c)
<1>1. /\ Len(bus) \in Nat /\ Len(s) \in Nat
      /\ DOMAIN bus = 1..Len(bus) /\ DOMAIN bus' = 1..Len(bus) + Len(s)
      /\ \A i \in 1..Len(bus) : bus'[i] = bus[i]
      /\ \A i \in 1..Len(s) : bus'[Len(bus) + i] = s[i]
  BY BusGrows
<1>2. \A i \in DOMAIN bus' : i \in DOMAIN bus \/ i = Len(bus) + 1
                               \/ \E j \in 2..Len(s) : i = Len(bus) + j
  <2>1. SUFFICES ASSUME NEW i \in 1..Len(bus) + Len(s), i > Len(bus) + 1
                 PROVE  \E j \in 2..Len(s) : i = Len(bus) + j
    BY <1>1
  <2>2. i - Len(bus) \in 2..Len(s) /\ i = Len(bus) + (i - Len(bus))
    BY <1>1, <2>1
  <2> QED
    BY <2>2
<1>3. \A i \in DOMAIN bus' : i \in DOMAIN bus \/ i = Len(bus) + 1 \/ bus'[i].kind \notin Closing
  BY <1>1, <1>2
<1>4. Len(bus) + 1 \in DOMAIN bus' /\ bus'[Len(bus) + 1] = s[1] /\ DOMAIN bus \subseteq DOMAIN bus'
  BY <1>1
<1> QED
  BY <1>1, <1>3, <1>4 DEF Closings

LEMMA ClosingsCount ==
  ASSUME bus \in Seq(BusEvent), NEW c \in Call
  PROVE  IsFiniteSet(Closings(c)) /\ Cardinality(Closings(c)) \in Nat
         /\ Len(bus) + 1 \notin Closings(c)
<1>1. Closings(c) \subseteq 1..Len(bus) /\ Len(bus) \in Nat
  BY DEF Closings
<1>2. IsFiniteSet(1..Len(bus))
  BY <1>1, FS_Interval
<1>3. IsFiniteSet(Closings(c))
  BY <1>1, <1>2, FS_Subset
<1> QED
  BY <1>1, <1>3, FS_CardinalityType

LEMMA ObservationsCount ==
  ASSUME trace \in Seq(T!Entry), NEW c \in Call
  PROVE  IsFiniteSet(Observations(c)) /\ Cardinality(Observations(c)) \in Nat
         /\ Len(trace) + 1 \notin Observations(c)
<1>1. Observations(c) \subseteq 1..Len(trace) /\ Len(trace) \in Nat
  BY DEF Observations
<1>2. IsFiniteSet(1..Len(trace))
  BY <1>1, FS_Interval
<1>3. IsFiniteSet(Observations(c))
  BY <1>1, <1>2, FS_Subset
<1> QED
  BY <1>1, <1>3, FS_CardinalityType

LEMMA ObservationsGrow ==
  ASSUME trace \in Seq(T!Entry), NEW e \in T!Entry, trace' = Append(trace, e), NEW c \in Call
  PROVE  Observations(c)' = IF T!Observes(e, c) THEN Observations(c) \cup {Len(trace) + 1}
                                                ELSE Observations(c)
BY Appended DEF Observations, T!Observes

\* The counts go on agreeing when a step tells the bus of call c and the trace
\* of the same call, or neither of any.
LEMMA BothGrow ==
  ASSUME bus \in Seq(BusEvent), trace \in Seq(T!Entry),
         NEW s \in Seq(BusEvent), Len(s) > 0, bus' = bus \o s,
         \A i \in 2..Len(s) : s[i].kind \notin Closing,
         NEW e \in T!Entry, trace' = Append(trace, e),
         \A c \in Call : s[1].kind \in Closing /\ s[1].call = c <=> T!Observes(e, c),
         NEW c \in Call, Cardinality(Closings(c)) = Cardinality(Observations(c))
  PROVE  Cardinality(Closings(c)') = Cardinality(Observations(c)')
<1>1. CASE T!Observes(e, c)
  <2>1. /\ Closings(c)' = Closings(c) \cup {Len(bus) + 1}
        /\ Observations(c)' = Observations(c) \cup {Len(trace) + 1}
    BY <1>1, ClosingsGrow, ObservationsGrow
  <2>2. /\ Cardinality(Closings(c)') = Cardinality(Closings(c)) + 1
        /\ Cardinality(Observations(c)') = Cardinality(Observations(c)) + 1
    BY <2>1, ClosingsCount, ObservationsCount, FS_AddElement
  <2> QED
    BY <2>2
<1>2. CASE ~T!Observes(e, c)
  <2>1. Closings(c)' = Closings(c) /\ Observations(c)' = Observations(c)
    BY <1>2, ClosingsGrow, ObservationsGrow
  <2> QED
    BY <2>1
<1> QED
  BY <1>1, <1>2

LEMMA OneGrows ==
  ASSUME bus \in Seq(BusEvent), trace \in Seq(T!Entry), NEW c \in Call,
         bus' = bus \/ \E s \in Seq(BusEvent) :
           Len(s) > 0 /\ bus' = bus \o s /\ \A i \in 1..Len(s) : s[i].kind \notin Closing,
         trace' = trace \/ \E e \in T!Entry : e.kind # "observation" /\ trace' = Append(trace, e)
  PROVE  Closings(c)' = Closings(c) /\ Observations(c)' = Observations(c)
<1>1. Closings(c)' = Closings(c)
  <2>1. CASE bus' = bus
    BY <2>1 DEF Closings
  <2>2. ASSUME NEW s \in Seq(BusEvent), Len(s) > 0, bus' = bus \o s,
               \A i \in 1..Len(s) : s[i].kind \notin Closing
        PROVE  Closings(c)' = Closings(c)
    <3>1. s[1].kind \notin Closing /\ \A i \in 2..Len(s) : s[i].kind \notin Closing
      BY <2>2
    <3> QED
      BY <2>2, <3>1, ClosingsGrow
  <2> QED
    BY <2>1, <2>2
<1>2. Observations(c)' = Observations(c)
  <2>1. CASE trace' = trace
    BY <2>1 DEF Observations
  <2>2. CASE \E e \in T!Entry : e.kind # "observation" /\ trace' = Append(trace, e)
    BY <2>2, ObservationsGrow DEF T!Observes
  <2> QED
    BY <2>1, <2>2
<1> QED
  BY <1>1, <1>2

LEMMA EmittedGrows ==
  ASSUME bus \in Seq(BusEvent), NEW s \in Seq(BusEvent), Len(s) > 0, bus' = bus \o s, NEW kind
  PROVE  Emitted(kind)' <=> Emitted(kind) \/ \E i \in 1..Len(s) : s[i].kind = kind
<1>1. /\ Len(bus) \in Nat /\ Len(s) \in Nat
      /\ DOMAIN bus = 1..Len(bus) /\ DOMAIN bus' = 1..Len(bus) + Len(s)
      /\ \A i \in 1..Len(bus) : bus'[i] = bus[i]
      /\ \A i \in 1..Len(s) : bus'[Len(bus) + i] = s[i]
  BY BusGrows
<1>2. ASSUME NEW i \in DOMAIN bus', i \notin DOMAIN bus
      PROVE  \E j \in 1..Len(s) : bus'[i] = s[j]
  <2>1. i - Len(bus) \in 1..Len(s) /\ Len(bus) + (i - Len(bus)) = i
    BY <1>1, <1>2
  <2> QED
    BY <1>1, <2>1
<1>3. \A i \in DOMAIN bus : i \in DOMAIN bus' /\ bus'[i] = bus[i]
  BY <1>1
<1>4. \A j \in 1..Len(s) : Len(bus) + j \in DOMAIN bus'
  BY <1>1
<1> QED
  BY <1>1, <1>2, <1>3, <1>4 DEF Emitted

LEMMA ClosedStays ==
  ASSUME bus \in Seq(BusEvent), NEW s \in Seq(BusEvent), Len(s) > 0, bus' = bus \o s,
         NEW c \in Call, NEW i \in DOMAIN bus
  PROVE  /\ ClosedAfter(i, c) => ClosedAfter(i, c)'
         /\ s[1].kind \in Closing /\ s[1].call = c => ClosedAfter(i, c)'
<1>1. /\ Len(bus) \in Nat /\ Len(s) \in Nat
      /\ DOMAIN bus = 1..Len(bus) /\ Len(bus') = Len(bus) + Len(s)
      /\ \A j \in 1..Len(bus) : bus'[j] = bus[j]
      /\ bus'[Len(bus) + 1] = s[1]
  BY BusGrows
<1>2. /\ Len(bus) + 1 \in i + 1 .. Len(bus')
      /\ \A j \in i + 1 .. Len(bus) : j \in i + 1 .. Len(bus') /\ bus'[j] = bus[j]
  BY <1>1
<1> QED
  BY <1>1, <1>2 DEF ClosedAfter

\* A call that is pending stays so until the bus is told how it ended.
LEMMA InvokedStays ==
  ASSUME bus \in Seq(BusEvent), InvokedIsPending,
         NEW s \in Seq(BusEvent), Len(s) > 0, bus' = bus \o s,
         \A i \in 1..Len(s) : \A c \in Call : s[i] = ToolEvent("ToolInvoked", c) => c \in Pending',
         \A c \in Pending : c \in Pending' \/ (s[1].kind \in Closing /\ s[1].call = c)
  PROVE  InvokedIsPending'
<1>1. /\ Len(bus) \in Nat /\ Len(s) \in Nat
      /\ DOMAIN bus = 1..Len(bus) /\ DOMAIN bus' = 1..Len(bus) + Len(s)
      /\ \A i \in 1..Len(bus) : bus'[i] = bus[i]
      /\ \A i \in 1..Len(s) : bus'[Len(bus) + i] = s[i]
  BY BusGrows
<1>2. SUFFICES ASSUME NEW c \in Call, NEW i \in DOMAIN bus', bus'[i] = ToolEvent("ToolInvoked", c)
               PROVE  ClosedAfter(i, c)' \/ c \in Pending'
  BY DEF InvokedIsPending
<1>3. CASE i \in DOMAIN bus
  <2>1. bus[i] = ToolEvent("ToolInvoked", c)
    BY <1>1, <1>2, <1>3
  <2>2. ClosedAfter(i, c) \/ c \in Pending
    BY <1>3, <2>1 DEF InvokedIsPending
  <2> QED
    BY <1>3, <2>2, ClosedStays
<1>4. CASE i \notin DOMAIN bus
  <2>1. i - Len(bus) \in 1..Len(s) /\ Len(bus) + (i - Len(bus)) = i
    BY <1>1, <1>4
  <2>2. s[i - Len(bus)] = ToolEvent("ToolInvoked", c)
    BY <1>1, <1>2, <2>1
  <2> QED
    BY <2>1, <2>2
<1> QED
  BY <1>3, <1>4

LEMMA EventTypes ==
  /\ \A kind \in RunEvents : Event(kind) \in BusEvent /\ Event(kind).kind = kind
  /\ \A kind \in Closing \cup {"ToolInvoked", "CircuitBreakerTripped"} : \A c \in Call :
       /\ ToolEvent(kind, c) \in BusEvent
       /\ ToolEvent(kind, c).kind = kind /\ ToolEvent(kind, c).call = c
<1>1. \A kind \in RunEvents : Event(kind) \in BusEvent
  BY DEF BusEvent
<1>2. \A kind \in Closing \cup {"ToolInvoked", "CircuitBreakerTripped"} : \A c \in Call :
        ToolEvent(kind, c) \in BusEvent
  BY DEF BusEvent
<1>3. \A kind, c : /\ Event(kind).kind = kind
                   /\ ToolEvent(kind, c).kind = kind /\ ToolEvent(kind, c).call = c
  BY DEF Event, ToolEvent
<1> QED
  BY <1>1, <1>2, <1>3

------------------------------------------------------------------------------
(* What each step tells.                                                    *)

Silent(s) == s \in Seq(BusEvent) /\ Len(s) > 0 /\ \A i \in 1..Len(s) : s[i].kind \notin Closing

\* The steps as the bus sees them.
Quiet ==
  /\ bus' = bus
  /\ trace' = trace \/ \E e \in T!Entry : e.kind # "observation" /\ trace' = Append(trace, e)
  /\ pc \in {"finally", "done"} => trace' = trace /\ pc' \in {"finally", "done"}

LEMMA QuietSteps ==
  ASSUME TypeOK, Next,
         ~(Begin \/ PersistAnswer \/ Announce \/ RecordObservation \/ PersistFailure \/ Finally)
  PROVE  Quiet
<1>1. CASE PersistQuery
  BY <1>1, EntryTypes DEF PersistQuery, Persist, Quiet, T!Query
<1>2. CASE PersistAction
  <2>1. T!Action(action, allowed) \in T!Entry
    BY <1>2, ActionCalls, EntryTypes DEF PersistAction, TypeOK, CursorType, WorkType
  <2> QED
    BY <1>2, <2>1 DEF PersistAction, Persist, Quiet, T!Action
<1>3. CASE ~(PersistQuery \/ PersistAction)
  BY <1>3 DEF Next, Run, StartMemory, Checkpoint, Retrieve, NextMessage, EnforcePolicy, Charge,
     Dispatch, Execute, Operator, RequestPause, RequestResume, RequestInterrupt, Request,
     WallClockRunsOut, Returned, vars, Quiet
<1> QED
  BY <1>1, <1>2, <1>3

LEMMA QuietTelling ==
  ASSUME TypeOK, Telling, Quiet PROVE Telling'
<1>1. bus \in Seq(BusEvent) /\ trace \in Seq(T!Entry)
  BY DEF Telling, TypeOK, RecordType
<1>2. \A c \in Call : Cardinality(Closings(c)') = Cardinality(Observations(c)')
  BY <1>1, OneGrows DEF Telling, Quiet
<1>3. \A kind : Emitted(kind)' = Emitted(kind)
  BY DEF Quiet, Emitted
<1> QED
  BY <1>1, <1>2, <1>3 DEF Quiet, Telling

\* A step that tells the bus of one call and the trace of the same.
LEMMA CallTelling ==
  ASSUME TypeOK, Telling, pc \notin {"finally", "done"}, NEW c \in Call,
         NEW got \in Outcome \cup {Denied}, NEW s \in Seq(BusEvent), Len(s) > 0,
         s[1].kind \in Closing, s[1].call = c, \A i \in 2..Len(s) : s[i].kind \notin Closing,
         \A i \in 1..Len(s) : s[i].kind \notin RunEvents,
         bus' = bus \o s, trace' = Append(trace, T!Observation(c, got))
  PROVE  Telling'
<1> DEFINE e == T!Observation(c, got)
<1>1. bus \in Seq(BusEvent) /\ trace \in Seq(T!Entry)
  BY DEF Telling, TypeOK, RecordType
<1>2. e \in T!Entry /\ \A d \in Call : T!Observes(e, d) <=> d = c
  BY EntryTypes DEF T!Observation, T!Observes
<1>3. ASSUME NEW d \in Call PROVE Cardinality(Closings(d)') = Cardinality(Observations(d)')
  <2>1. \A x \in Call : s[1].kind \in Closing /\ s[1].call = x <=> T!Observes(e, x)
    BY <1>2
  <2>2. Cardinality(Closings(d)) = Cardinality(Observations(d))
    BY DEF Telling
  <2> QED
    BY <1>1, <1>2, <2>1, <2>2, BothGrow
<1>4. \A kind \in {"RunCompleted", "RunFailed"} : ~Emitted(kind)
  BY DEF Telling
<1>5. ASSUME NEW kind \in {"RunCompleted", "RunFailed"} PROVE ~Emitted(kind)'
  <2>1. ~Emitted(kind) /\ kind \in RunEvents
    BY <1>4 DEF RunEvents
  <2>2. Emitted(kind)' <=> Emitted(kind) \/ \E i \in 1..Len(s) : s[i].kind = kind
    BY <1>1, EmittedGrows
  <2> QED
    BY <2>1, <2>2
<1>6. bus' \in Seq(BusEvent)
  BY <1>1, BusGrows
<1> QED
  BY <1>3, <1>5, <1>6 DEF Telling

\* A step that tells the bus of no call and the trace of no observation.
LEMMA SilentTelling ==
  ASSUME TypeOK, Telling, NEW s \in Seq(BusEvent), Silent(s), bus' = bus \o s,
         trace' = trace \/ \E e \in T!Entry : e.kind # "observation" /\ trace' = Append(trace, e)
  PROVE  /\ bus' \in Seq(BusEvent)
         /\ \A c \in Call : Cardinality(Closings(c)') = Cardinality(Observations(c)')
         /\ \A kind : Emitted(kind)' <=> Emitted(kind) \/ \E i \in 1..Len(s) : s[i].kind = kind
<1>1. bus \in Seq(BusEvent) /\ trace \in Seq(T!Entry)
  BY DEF Telling, TypeOK, RecordType
<1>2. Len(s) > 0 /\ \A i \in 1..Len(s) : s[i].kind \notin Closing
  BY DEF Silent
<1>3. bus' \in Seq(BusEvent)
  BY <1>1, <1>2, BusGrows
<1>4. ASSUME NEW c \in Call PROVE Cardinality(Closings(c)') = Cardinality(Observations(c)')
  <2>1. Closings(c)' = Closings(c) /\ Observations(c)' = Observations(c)
    BY <1>1, <1>2, OneGrows
  <2> QED
    BY <2>1 DEF Telling
<1>5. \A kind : Emitted(kind)' <=> Emitted(kind) \/ \E i \in 1..Len(s) : s[i].kind = kind
  BY <1>1, <1>2, EmittedGrows
<1> QED
  BY <1>3, <1>4, <1>5
LEMMA NextTelling ==
  ASSUME TypeOK, Telling, Next PROVE Telling'
<1>1. bus \in Seq(BusEvent) /\ trace \in Seq(T!Entry)
  BY DEF Telling, TypeOK, RecordType
<1>2. CASE Begin
  <2> DEFINE s == <<Event("RunStarted"), Event("SpanOpened")>>
  <2>1. /\ Event("RunStarted") \in BusEvent /\ Event("SpanOpened") \in BusEvent
        /\ Event("RunStarted").kind = "RunStarted" /\ Event("SpanOpened").kind = "SpanOpened"
    BY EventTypes DEF RunEvents
  <2>2. s \in Seq(BusEvent) /\ Len(s) = 2 /\ s[1].kind = "RunStarted" /\ s[2].kind = "SpanOpened"
    BY <2>1
  <2>3. Silent(s)
    BY <2>2 DEF Silent, Closing
  <2>4. bus' = bus \o s /\ trace' = trace /\ pc = "idle"
    BY <1>2 DEF Begin
  <2>5. \A kind \in {"RunCompleted", "RunFailed"} :
          ~Emitted(kind) /\ ~\E i \in 1..Len(s) : s[i].kind = kind
    BY <2>2, <2>4 DEF Telling
  <2> HIDE DEF s
  <2> QED
    BY <2>2, <2>3, <2>4, <2>5, SilentTelling DEF Telling
<1>3. CASE PersistAnswer
  <2>1. CASE Raise /\ UNCHANGED <<trace, bus>>
    BY <1>3, <2>1, QuietTelling DEF Quiet, PersistAnswer, Raise
  <2>2. CASE trace' = Append(trace, T!Answer) /\ bus' = Append(bus, Event("RunCompleted"))
             /\ pc' = "finally"
    <3> DEFINE s == <<Event("RunCompleted")>>
    <3>1. Event("RunCompleted") \in BusEvent /\ Event("RunCompleted").kind = "RunCompleted"
      BY EventTypes DEF RunEvents
    <3>2. s \in Seq(BusEvent) /\ Len(s) = 1 /\ s[1].kind = "RunCompleted" /\ bus' = bus \o s
      BY <1>1, <2>2, <3>1
    <3>3. Silent(s)
      BY <3>2 DEF Silent, Closing
    <3>4. T!Answer \in T!Entry /\ T!Answer.kind # "observation" /\ Last(trace') = T!Answer
      BY <1>1, <2>2, EntryTypes DEF T!Answer, Last
    <3>5. ~Emitted("RunFailed") /\ ~\E i \in 1..Len(s) : s[i].kind = "RunFailed"
      BY <1>3, <3>2 DEF Telling, PersistAnswer
    <3> HIDE DEF s
    <3> QED
      BY <2>2, <3>2, <3>3, <3>4, <3>5, SilentTelling DEF Telling
  <2> QED
    BY <1>3, <2>1, <2>2 DEF PersistAnswer, Persist, Emit
<1>4. CASE PersistFailure
  <2>1. CASE Raise /\ UNCHANGED <<trace, bus>>
    BY <1>4, <2>1, QuietTelling DEF Quiet, PersistFailure, Raise
  <2>2. CASE trace' = Append(trace, T!Failure) /\ bus' = Append(bus, Event("RunFailed"))
             /\ pc' = "finally"
    <3> DEFINE s == <<Event("RunFailed")>>
    <3>1. Event("RunFailed") \in BusEvent /\ Event("RunFailed").kind = "RunFailed"
      BY EventTypes DEF RunEvents
    <3>2. s \in Seq(BusEvent) /\ Len(s) = 1 /\ s[1].kind = "RunFailed" /\ bus' = bus \o s
      BY <1>1, <2>2, <3>1
    <3>3. Silent(s)
      BY <3>2 DEF Silent, Closing
    <3>4. T!Failure \in T!Entry /\ T!Failure.kind # "observation" /\ Last(trace') = T!Failure
      BY <1>1, <2>2, EntryTypes DEF T!Failure, Last
    <3>5. ~Emitted("RunCompleted") /\ ~\E i \in 1..Len(s) : s[i].kind = "RunCompleted"
      BY <1>4, <3>2 DEF Telling, PersistFailure
    <3> HIDE DEF s
    <3> QED
      BY <2>2, <3>2, <3>3, <3>4, <3>5, SilentTelling DEF Telling
  <2> QED
    BY <1>4, <2>1, <2>2 DEF PersistFailure, Persist, Emit
<1>5. CASE Announce
  <2> DEFINE c == action[next]
  <2>1. c \in Call /\ pc = "announce"
    BY <1>5, ActionCalls DEF Announce, TypeOK, CursorType
  <2>2. CASE trace' = trace /\ bus' = Append(bus, ToolEvent("ToolInvoked", c))
    <3> DEFINE s == <<ToolEvent("ToolInvoked", c)>>
    <3>1. ToolEvent("ToolInvoked", c) \in BusEvent /\ ToolEvent("ToolInvoked", c).kind = "ToolInvoked"
      BY <2>1, EventTypes
    <3>2. s \in Seq(BusEvent) /\ Len(s) = 1 /\ s[1].kind = "ToolInvoked" /\ bus' = bus \o s
      BY <1>1, <2>2, <3>1
    <3>3. Silent(s)
      BY <3>2 DEF Silent, Closing
    <3>4. \A kind \in {"RunCompleted", "RunFailed"} :
            ~Emitted(kind) /\ ~\E i \in 1..Len(s) : s[i].kind = kind
      BY <2>1, <3>2 DEF Telling
    <3> HIDE DEF s
    <3> QED
      BY <2>2, <3>2, <3>3, <3>4, SilentTelling DEF Telling
  <2>3. CASE /\ trace' = Append(trace, T!Observation(c, Denied))
             /\ bus' = Append(bus, ToolEvent("ToolErrored", c))
    <3> DEFINE s == <<ToolEvent("ToolErrored", c)>>
    <3>1. /\ ToolEvent("ToolErrored", c) \in BusEvent
          /\ ToolEvent("ToolErrored", c).kind = "ToolErrored" /\ ToolEvent("ToolErrored", c).call = c
      BY <2>1, EventTypes DEF Closing
    <3>2. s \in Seq(BusEvent) /\ Len(s) = 1 /\ s[1].kind = "ToolErrored" /\ s[1].call = c
          /\ bus' = bus \o s
      BY <1>1, <2>3, <3>1
    <3>3. s[1].kind \in Closing /\ s[1].kind \notin RunEvents
      BY <3>2 DEF Closing, RunEvents
    <3>4. /\ Len(s) > 0 /\ 2..Len(s) = {} /\ \A i \in 1..Len(s) : s[i].kind \notin RunEvents
          /\ Denied \in Outcome \cup {Denied}
      BY <3>2, <3>3
    <3> HIDE DEF s, c
    <3> QED
      BY <2>1, <2>3, <3>2, <3>3, <3>4, CallTelling
  <2>4. CASE Raise /\ UNCHANGED <<trace, bus>>
    BY <2>1, <2>4, QuietTelling DEF Quiet, Raise
  <2> QED
    BY <1>5, <2>2, <2>3, <2>4 DEF Announce, Persist, Emit
<1>6. CASE RecordObservation
  <2> DEFINE c == action[next]
             got == results[c]
             told == ToolEvent(IF got = Ok THEN "ToolCompleted" ELSE "ToolErrored", c)
             tripped == ToolEvent("CircuitBreakerTripped", c)
  <2>1. c \in Call /\ got \in Outcome /\ pc = "record"
    BY <1>6, ActionCalls DEF RecordObservation, TypeOK, CursorType, WorkType, ApprovedAfter
  <2>2. /\ told \in BusEvent /\ told.kind \in Closing /\ told.call = c
        /\ tripped \in BusEvent /\ tripped.kind = "CircuitBreakerTripped"
    BY <2>1, EventTypes DEF Closing
  <2>3. told.kind \notin RunEvents /\ tripped.kind \notin RunEvents \cup Closing
    BY <2>2 DEF Closing, RunEvents
  <2>4. ASSUME NEW s, s = <<told>> \/ s = <<told, tripped>>, bus' = bus \o s,
               trace' = Append(trace, T!Observation(c, got))
        PROVE  Telling'
    <3> HIDE DEF told, tripped
    <3>1. /\ s \in Seq(BusEvent) /\ Len(s) \in 1..2 /\ s[1] = told
          /\ Len(s) = 2 => s[2] = tripped
      <4>1. CASE s = <<told>>
        BY <2>2, <4>1
      <4>2. CASE s = <<told, tripped>>
        BY <2>2, <4>2
      <4> QED
        BY <2>4, <4>1, <4>2
    <3>2. Len(s) > 0 /\ \A i \in 2..Len(s) : s[i] = tripped
      BY <3>1
    <3>3. \A i \in 1..Len(s) : s[i] = told \/ s[i] = tripped
      BY <3>1
    <3> HIDE DEF c, got
    <3> QED
      BY <2>1, <2>2, <2>3, <2>4, <3>1, <3>2, <3>3, CallTelling
  <2>5. CASE Raise /\ UNCHANGED <<trace, bus>>
    BY <2>1, <2>5, QuietTelling DEF Quiet, Raise
  <2> QED
    BY <1>6, <2>4, <2>5 DEF RecordObservation, Persist
<1>7. CASE Finally
  <2>1. pc = "finally" /\ pc' = "done" /\ trace' = trace
    BY <1>7 DEF Finally
  <2>2. CASE bus' = bus
    BY <2>1, <2>2, QuietTelling DEF Quiet
  <2>3. CASE bus' = Append(bus, Event("SpanClosed"))
    <3> DEFINE s == <<Event("SpanClosed")>>
    <3>1. Event("SpanClosed") \in BusEvent /\ Event("SpanClosed").kind = "SpanClosed"
      BY EventTypes DEF RunEvents
    <3>2. s \in Seq(BusEvent) /\ Len(s) = 1 /\ s[1].kind = "SpanClosed" /\ bus' = bus \o s
      BY <1>1, <2>3, <3>1
    <3>3. Silent(s)
      BY <3>2 DEF Silent, Closing
    <3>4. \A kind \in {"RunCompleted", "RunFailed"} : ~\E i \in 1..Len(s) : s[i].kind = kind
      BY <3>2
    <3> HIDE DEF s
    <3> QED
      BY <2>1, <3>2, <3>3, <3>4, SilentTelling DEF Telling
  <2> QED
    BY <1>7, <2>2, <2>3 DEF Finally, Emit
<1> QED
  BY <1>2, <1>3, <1>4, <1>5, <1>6, <1>7, QuietSteps, QuietTelling

LEMMA TellingHolds == Spec => []Telling
<1>1. Init => Telling
  <2> SUFFICES ASSUME Init PROVE Telling
    OBVIOUS
  <2>1. bus = <<>> /\ trace = <<>>
    BY DEF Init
  <2>2. \A c \in Call : Closings(c) = {} /\ Observations(c) = {}
    BY <2>1 DEF Closings, Observations
  <2>3. ~Emitted("RunCompleted") /\ ~Emitted("RunFailed")
    BY <2>1 DEF Emitted
  <2>4. \A c \in Call : Cardinality(Closings(c)) = Cardinality(Observations(c))
    BY <2>2
  <2>5. bus \in Seq(BusEvent)
    BY <2>1
  <2> QED
    BY <2>3, <2>4, <2>5 DEF Telling
<1>2. Telling /\ UNCHANGED vars => Telling'
  BY DEF Telling, vars, Closings, Observations, Emitted
<1>3. TypeOK /\ Telling /\ Next => Telling'
  BY NextTelling
<1> QED
  BY <1>1, <1>2, <1>3, TypeCorrect, PTL DEF Spec

(* Whatever raises and wherever, subscribers learn nothing the trace does   *)
(* not hold, and nothing it holds about a call is kept from them: the two   *)
(* count the same endings of every call, a completed run has its answer and *)
(* a failed run its failure as the last event on disk.                      *)
THEOREM BusTellsTheTrace == Spec => []BusFollowsTrace
<1>1. Telling => BusFollowsTrace
  BY DEF Telling, BusFollowsTrace, CountOf, Closings, Observations, Closing
<1> QED
  BY <1>1, TellingHolds, PTL

------------------------------------------------------------------------------
(* Announced calls.  The invariant says which call is still on its way.     *)

\* While nothing is emitted, pending calls only stay.
LEMMA QuietInvoked ==
  ASSUME InvokedIsPending, bus' = bus, Pending \subseteq Pending'
  PROVE  InvokedIsPending'
BY DEF InvokedIsPending, ClosedAfter

LEMMA NextInvoked ==
  ASSUME TypeOK, Telling, InvokedIsPending, Next,
         pc' \notin {"failing", "finally", "done"}
  PROVE  InvokedIsPending'
<1>1. bus \in Seq(BusEvent)
  BY DEF Telling
<1>2. CASE Begin
  <2> DEFINE s == <<Event("RunStarted"), Event("SpanOpened")>>
  <2>1. s \in Seq(BusEvent) /\ Len(s) = 2
        /\ s[1].kind = "RunStarted" /\ s[2].kind = "SpanOpened"
    BY EventTypes DEF RunEvents
  <2>2. \A i \in 1..Len(s) : \A c \in Call : s[i] # ToolEvent("ToolInvoked", c)
    BY <2>1 DEF ToolEvent
  <2>3. bus' = bus \o s /\ Pending = {}
    BY <1>2 DEF Begin, Pending
  <2>4. Len(s) > 0 /\ \A c \in Pending : c \in Pending' \/ (s[1].kind \in Closing /\ s[1].call = c)
    BY <2>1, <2>3
  <2>5. \A i \in 1..Len(s) : \A c \in Call :
          s[i] = ToolEvent("ToolInvoked", c) => c \in Pending'
    BY <2>2
  <2> HIDE DEF s
  <2> QED
    BY <1>1, <2>1, <2>3, <2>4, <2>5, InvokedStays
<1>3. CASE Announce
  <2> DEFINE c == action[next]
  <2>1. /\ pc = "announce" /\ action \in Actions /\ next \in DOMAIN action /\ c \in Call
        /\ AfterAnnouncing
    BY <1>3, ActionCalls DEF Announce, TypeOK, CursorType, Raise
  <2>2. Before(next + 1) = Before(next) \cup {c}
        /\ (~(next < Len(action)) => Before(next + 1) = ToSet(action))
    BY <2>1, OwnTurn, Positions
  <2>3. allowed' = allowed /\ Pending = allowed \cap Before(next)
    BY <2>1 DEF AfterAnnouncing, Pending
  <2>4. allowed \cap Before(next + 1) \subseteq Pending'
    <3>1. CASE next < Len(action)
      <4>1. pc' = "announce" /\ Before(next)' = Before(next + 1)
        BY <2>1, <3>1 DEF AfterAnnouncing, Continue, Before
      <4> QED
        BY <2>3, <4>1 DEF Pending
    <3>2. CASE ~(next < Len(action)) /\ allowed # {}
      <4>1. pc' = "charge"
        BY <2>1, <3>2 DEF AfterAnnouncing, Continue
      <4> QED
        BY <2>3, <4>1 DEF Pending
    <3>3. CASE allowed = {}
      BY <3>3
    <3> QED
      BY <3>1, <3>2, <3>3
  <2>5. Pending \subseteq Pending'
    BY <2>2, <2>3, <2>4
  <2>6. CASE c \in allowed /\ bus' = Append(bus, ToolEvent("ToolInvoked", c))
    <3> DEFINE s == <<ToolEvent("ToolInvoked", c)>>
    <3>1. ToolEvent("ToolInvoked", c) \in BusEvent
      BY <2>1, EventTypes
    <3>2. s \in Seq(BusEvent) /\ Len(s) = 1 /\ s[1] = ToolEvent("ToolInvoked", c) /\ bus' = bus \o s
      BY <1>1, <2>6, <3>1
    <3>3. c \in Pending'
      BY <2>2, <2>4, <2>6
    <3>4. \A i \in 1..Len(s) : \A d \in Call : s[i] = ToolEvent("ToolInvoked", d) => d \in Pending'
      BY <3>2, <3>3 DEF ToolEvent
    <3> HIDE DEF s, c
    <3> QED
      BY <1>1, <2>5, <3>2, <3>4, InvokedStays
  <2>7. CASE bus' = Append(bus, ToolEvent("ToolErrored", c))
    <3> DEFINE s == <<ToolEvent("ToolErrored", c)>>
    <3>1. ToolEvent("ToolErrored", c) \in BusEvent
      BY <2>1, EventTypes DEF Closing
    <3>2. s \in Seq(BusEvent) /\ Len(s) = 1 /\ s[1] = ToolEvent("ToolErrored", c) /\ bus' = bus \o s
      BY <1>1, <2>7, <3>1
    <3>3. \A i \in 1..Len(s) : \A d \in Call : s[i] # ToolEvent("ToolInvoked", d)
      BY <3>2 DEF ToolEvent
    <3> HIDE DEF s, c
    <3> QED
      BY <1>1, <2>5, <3>2, <3>3, InvokedStays
  <2> QED
    BY <1>3, <2>6, <2>7 DEF Announce, Emit, Raise
<1>4. CASE RecordObservation
  <2> DEFINE c == action[next]
             told == ToolEvent(IF results[c] = Ok THEN "ToolCompleted" ELSE "ToolErrored", c)
  <2>1. /\ pc = "record" /\ action \in Actions /\ next \in DOMAIN action /\ next \in Nat
        /\ c \in Call /\ allowed \subseteq ToSet(action)
    BY <1>4, ActionCalls DEF RecordObservation, TypeOK, CursorType, WorkType, ApprovedAfter
  <2>2. Before(next + 1) = Before(next) \cup {c} /\ Pending = allowed \ Before(next)
    BY <2>1, OwnTurn DEF Pending
  <2>3. bus' = bus \o <<told>>
    BY <1>4 DEF RecordObservation, FailWith, Raise
  <2>4. told \in BusEvent /\ told.kind \in Closing /\ told.call = c
    BY <2>1, EventTypes DEF Closing
  <2>5. \A d \in Pending : d \in Pending' \/ d = c
    <3>1. CASE ApprovedAfter(next) = {}
      BY <2>1, <2>2, <3>1, PassedTheEnd
    <3>2. CASE /\ pc' = "record" /\ UNCHANGED <<action, allowed>>
               /\ \E j \in DOMAIN action : NextApproved(next, j) /\ next' = j
      <4>1. PICK j \in DOMAIN action : NextApproved(next, j) /\ next' = j
        BY <3>2
      <4>2. Before(j) \subseteq Before(next + 1) \cup (ToSet(action) \ allowed)
        BY <2>1, <4>1, Passed
      <4>3. Before(next)' = Before(j)
        BY <3>2, <4>1 DEF Before
      <4> QED
        BY <2>2, <3>2, <4>2, <4>3 DEF Pending
    <3> QED
      BY <1>4, <3>1, <3>2 DEF RecordObservation, LastObservation, FailWith, Continue, Raise
  <2> DEFINE s == <<told>>
  <2> HIDE DEF told
  <2>6. s \in Seq(BusEvent) /\ Len(s) = 1 /\ s[1] = told /\ bus' = bus \o s
    BY <2>3, <2>4
  <2>7. \A i \in 1..Len(s) : \A d \in Call : s[i] # ToolEvent("ToolInvoked", d)
    BY <2>4, <2>6 DEF ToolEvent, Closing
  <2>8. Len(s) > 0 /\ \A d \in Pending : d \in Pending' \/ (s[1].kind \in Closing /\ s[1].call = d)
    BY <2>4, <2>5, <2>6
  <2>9. \A i \in 1..Len(s) : \A d \in Call :
          s[i] = ToolEvent("ToolInvoked", d) => d \in Pending'
    BY <2>7
  <2> HIDE DEF s, c
  <2> QED
    BY <1>1, <2>6, <2>8, <2>9, InvokedStays
<1>5. CASE Execute
  <2>1. /\ bus' = bus /\ UNCHANGED <<action, allowed>> /\ pc = "executing" /\ pc' = "record"
        /\ action \in Actions
    BY <1>5 DEF Execute, TypeOK, CursorType, FailWith, Raise, Continue
  <2>2. PICK j \in DOMAIN action : NextApproved(0, j) /\ next' = j
    BY <1>5, <2>1 DEF Execute, FailWith, Raise
  <2>3. Before(0 + 1) = {}
    <3>1. {i \in DOMAIN action : i < 1} = {}
      BY <2>1, Positions
    <3> QED
      BY <3>1 DEF Before
  <2>4. Before(j) \subseteq ToSet(action) \ allowed
    BY <2>1, <2>2, <2>3, Passed
  <2>5. Before(next)' = Before(j)
    BY <2>1, <2>2 DEF Before
  <2>6. Pending = allowed /\ Pending' = allowed
    BY <2>1, <2>4, <2>5 DEF Pending
  <2> QED
    BY <2>1, <2>6, QuietInvoked
<1>6. CASE Charge \/ Dispatch
  BY <1>6, QuietInvoked DEF Charge, Dispatch, Continue, FailWith, work, Pending
<1>7. CASE PersistQuery \/ StartMemory \/ Checkpoint \/ Retrieve \/ NextMessage \/ EnforcePolicy
  <2>1. bus' = bus /\ Pending = {}
    BY <1>7 DEF PersistQuery, StartMemory, Checkpoint, Retrieve, NextMessage, EnforcePolicy, Pending
  <2> QED
    BY <2>1, QuietInvoked
<1>8. CASE PersistAction
  <2>1. bus' = bus /\ Pending = {}
    BY <1>8 DEF PersistAction, Pending
  <2> QED
    BY <2>1, QuietInvoked
<1>9. CASE PersistAnswer \/ PersistFailure \/ Finally
  BY <1>9 DEF PersistAnswer, PersistFailure, Finally, Raise
<1>10. CASE Operator \/ WallClockRunsOut \/ Returned
  <2>1. UNCHANGED <<bus, pc, action, allowed, next>>
    BY <1>10 DEF Operator, RequestPause, RequestResume, RequestInterrupt, Request,
                 WallClockRunsOut, Returned, vars, work
  <2>2. Pending' = Pending
    BY <2>1 DEF Pending, Before
  <2> QED
    BY <2>1, <2>2, QuietInvoked
<1> QED
  BY <1>2, <1>3, <1>4, <1>5, <1>6, <1>7, <1>8, <1>9, <1>10 DEF Next, Run

\* A run that has completed, or completes now, has no call on its way.
LEMMA NextCompleted ==
  ASSUME TypeOK, Telling, Closed, Next
  PROVE  CompletedRunLeavesNoCallOpen'
<1> DEFINE AllClosed == \A c \in Call : \A i \in DOMAIN bus :
                          bus[i] = ToolEvent("ToolInvoked", c) => ClosedAfter(i, c)
<1>1. CompletedRunLeavesNoCallOpen' <=> (Emitted("RunCompleted")' => AllClosed')
  BY DEF CompletedRunLeavesNoCallOpen, ClosedAfter, Closing
<1>2. CompletedRunLeavesNoCallOpen <=> (Emitted("RunCompleted") => AllClosed)
  BY DEF CompletedRunLeavesNoCallOpen, ClosedAfter, Closing
<1>3. bus \in Seq(BusEvent)
  BY DEF Telling
<1>4. SUFFICES ASSUME Emitted("RunCompleted")' PROVE AllClosed'
  BY <1>1
<1>5. pc' \in {"finally", "done"}
  BY <1>4, NextTelling DEF Telling
<1>6. ASSUME AllClosed, NEW kind \in RunEvents, bus' = Append(bus, Event(kind))
      PROVE  AllClosed'
  <2> DEFINE s == <<Event(kind)>>
  <2>1. s \in Seq(BusEvent) /\ Len(s) > 0 /\ bus' = bus \o s
    BY <1>3, <1>6, EventTypes
  <2>2. /\ Len(bus) \in Nat
        /\ DOMAIN bus = 1..Len(bus) /\ DOMAIN bus' = 1..Len(bus) + 1
        /\ \A i \in 1..Len(bus) : bus'[i] = bus[i]
        /\ bus'[Len(bus) + 1] = Event(kind)
    BY <1>3, <1>6
  <2>3. \A c : Event(kind) # ToolEvent("ToolInvoked", c)
    BY DEF Event, ToolEvent
  <2> HIDE DEF s
  <2>4. \A i \in DOMAIN bus' : i \in DOMAIN bus \/ bus'[i] = Event(kind)
    BY <2>2
  <2>5. \A c \in Call : \A i \in DOMAIN bus : ClosedAfter(i, c) => ClosedAfter(i, c)'
    BY <1>3, <2>1, ClosedStays
  <2>6. \A i \in DOMAIN bus : bus'[i] = bus[i]
    BY <2>2
  <2> QED
    BY <1>6, <2>3, <2>4, <2>5, <2>6
<1>7. CASE bus' = bus
  <2>1. Emitted("RunCompleted")
    BY <1>4, <1>7 DEF Emitted
  <2> QED
    BY <1>2, <1>7, <2>1 DEF Closed, ClosedAfter
<1>8. CASE PersistAnswer /\ bus' # bus
  <2>1. bus' = Append(bus, Event("RunCompleted")) /\ pc = "answer"
    BY <1>8 DEF PersistAnswer, Emit
  <2>2. AllClosed
    BY <2>1 DEF Closed, InvokedIsPending, Pending
  <2> QED
    BY <1>6, <2>1, <2>2 DEF RunEvents
<1>9. CASE Finally /\ bus' # bus
  <2>1. bus' = Append(bus, Event("SpanClosed")) /\ pc = "finally"
    BY <1>9 DEF Finally, Emit
  <2>2. Emitted("RunCompleted")
    <3> DEFINE s == <<Event("SpanClosed")>>
    <3>1. Event("SpanClosed") \in BusEvent /\ Event("SpanClosed").kind = "SpanClosed"
      BY EventTypes DEF RunEvents
    <3>2. s \in Seq(BusEvent) /\ Len(s) = 1 /\ s[1].kind = "SpanClosed" /\ bus' = bus \o s
      BY <1>3, <2>1, <3>1
    <3>3. Len(s) > 0 /\ ~\E i \in 1..Len(s) : s[i].kind = "RunCompleted"
      BY <3>2
    <3> HIDE DEF s
    <3> QED
      BY <1>3, <1>4, <3>2, <3>3, EmittedGrows
  <2>3. AllClosed
    BY <1>2, <2>2 DEF Closed
  <2> QED
    BY <1>6, <2>1, <2>3 DEF RunEvents
<1>10. CASE PersistFailure /\ bus' # bus
  <2>1. bus' = Append(bus, Event("RunFailed")) /\ pc = "failing"
    BY <1>10 DEF PersistFailure, Emit
  <2>2. Emitted("RunCompleted")
    <3> DEFINE s == <<Event("RunFailed")>>
    <3>1. Event("RunFailed") \in BusEvent /\ Event("RunFailed").kind = "RunFailed"
      BY EventTypes DEF RunEvents
    <3>2. s \in Seq(BusEvent) /\ Len(s) = 1 /\ s[1].kind = "RunFailed" /\ bus' = bus \o s
      BY <1>3, <2>1, <3>1
    <3>3. Len(s) > 0 /\ ~\E i \in 1..Len(s) : s[i].kind = "RunCompleted"
      BY <3>2
    <3> HIDE DEF s
    <3> QED
      BY <1>3, <1>4, <3>2, <3>3, EmittedGrows
  <2> QED
    BY <2>1, <2>2 DEF Telling
<1>11. CASE (Begin \/ Announce \/ RecordObservation) /\ bus' # bus
  BY <1>5, <1>11 DEF Begin, Announce, AfterAnnouncing, RecordObservation, Continue, FailWith, Raise
<1>12. CASE ~(Begin \/ PersistAnswer \/ Announce \/ RecordObservation \/ PersistFailure \/ Finally)
  BY <1>7, <1>12, QuietSteps DEF Quiet
<1> QED
  BY <1>7, <1>8, <1>9, <1>10, <1>11, <1>12

(* When a run completes, every call it announced as invoked was announced   *)
(* as completed or failed as well: no panel waits for a call for ever.      *)
THEOREM NoCallStaysOpen == Spec => []CompletedRunLeavesNoCallOpen
<1>1. Init => Closed
  BY DEF Init, Closed, InvokedIsPending, CompletedRunLeavesNoCallOpen, Emitted
<1>2. Closed /\ UNCHANGED vars => Closed'
  BY DEF Closed, InvokedIsPending, ClosedAfter, Pending, Before, CompletedRunLeavesNoCallOpen,
         Emitted, vars, work
<1>3. TypeOK /\ Telling /\ Closed /\ Next => Closed'
  <2>1. pc \in {"failing", "finally", "done"} /\ Next => pc' \in {"failing", "finally", "done"}
    BY DEF Next, Run, Begin, PersistQuery, StartMemory, Checkpoint, Retrieve, NextMessage,
       PersistAnswer, EnforcePolicy, PersistAction, Announce, Charge, Dispatch, Execute,
       RecordObservation, PersistFailure, Finally, Operator, RequestPause, RequestResume,
       RequestInterrupt, Request, WallClockRunsOut, Returned, vars, Raise
  <2> QED
    BY <2>1, NextInvoked, NextCompleted DEF Closed
<1>4. Closed => CompletedRunLeavesNoCallOpen
  BY DEF Closed
<1> QED
  BY <1>1, <1>2, <1>3, <1>4, TypeCorrect, TellingHolds, PTL DEF Spec
================================================================================

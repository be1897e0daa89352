------------------------- MODULE TeamSessionProofs ---------------------------
(***************************************************************************)
(* What module TeamSession's runs check, for every number of queries and   *)
(* of workers, every action and every length of the trace files.           *)
(***************************************************************************)
EXTENDS TeamSession, SelectionProofs

StepActions == OrchActions \cup WorkerActions
Place == {"off", "building", "starting", "opening", "ready", "thinking", "acting", "tripped",
          "closing", "leaving", "over"}
Entry == {[kind |-> "query"], [kind |-> "answer"], [kind |-> "failure"]}
           \cup {[kind |-> "action", calls |-> a, allowed |-> ToSet(a)] : a \in StepActions}
           \cup [kind : {"observation"}, call : Call, got : Outcome]
Line(q) == [span : {s \in Span : s[1] = q}, entry : Entry]
Kind == {"RunStarted", "SpanOpened", "SpanClosed", "RunCompleted", "RunFailed",
         "ToolCompleted", "ToolErrored"}
Event == [span : Span, kind : Kind]

(* The type invariant. *)
RunsTyped ==
  /\ pc \in [Span -> Place] /\ steps \in [Span -> Nat] /\ observed \in [Span -> Nat]
  /\ action \in [Span -> Seq(Call)] /\ results \in [Span -> Seq(Outcome)]
  /\ outcome \in [Span -> {"none", "answered", "failed", "raised"}]
FilesTyped ==
  /\ DOMAIN trace = Queries /\ trace = [q \in Queries |-> trace[q]]
  /\ \A q \in Queries : trace[q] \in Seq(Line(q))
RequestsTyped ==
  /\ held \in Queries \cup {0} /\ paused \subseteq Queries /\ stop \subseteq Queries
  /\ requests \in Nat
ScreenTyped ==
  /\ inbox \in Seq(Event) /\ app \in BOOLEAN
  /\ DOMAIN nodes \subseteq Span
  /\ flame \in [opened : SUBSET Span, timed : SUBSET Span]
  /\ jobs \in [state : {"idle", "running", "completed", "failed"}, query : Queries \cup {0}]
TypeOK == RunsTyped /\ FilesTyped /\ RequestsTyped /\ ScreenTyped

Unstarted == {"off", "building", "starting", "opening"}
Inside == {"ready", "thinking", "acting", "tripped", "closing"}
Ended == {"closing", "leaving", "over"}

------------------------------------------------------------------------------
LEMMA SpanParts ==
  /\ \A s \in Span : /\ s[1] \in Queries /\ s[2] \in Nat /\ s[2] \in 0..MaxWorkers[s[1]]
                     /\ s = <<s[1], s[2]>> /\ Orch(s[1]) \in Span
  /\ \A q \in Queries : /\ Orch(q) \in Span /\ Orch(q)[1] = q /\ ~IsWorker(Orch(q))
                        /\ MaxWorkers[q] \in Nat
                        /\ \A n \in 0..MaxWorkers[q] : <<q, n>> \in Span
  /\ \A s, t \in Span : s[1] = t[1] /\ s[2] = t[2] => s = t
  /\ \A s \in Span : ~IsWorker(s) <=> s = Orch(s[1])
<1>1. \A q \in Queries : MaxWorkers[q] \in Nat
  BY SessionAssumption DEF Queries
<1>2. \A q \in Queries : \A n \in 0..MaxWorkers[q] : <<q, n>> \in Span
  BY DEF Span
<1>3. ASSUME NEW s \in Span
      PROVE  s[1] \in Queries /\ s[2] \in 0..MaxWorkers[s[1]] /\ s = <<s[1], s[2]>>
  BY DEF Span
<1>4. \A q \in Queries : /\ Orch(q) \in Span /\ Orch(q)[1] = q /\ ~IsWorker(Orch(q))
  BY <1>1, <1>2 DEF Orch, IsWorker
<1>5. \A s \in Span : s[2] \in Nat
  BY <1>1, <1>3
<1>6. \A s, t \in Span : s[1] = t[1] /\ s[2] = t[2] => s = t
  BY <1>3
<1>7. \A s \in Span : ~IsWorker(s) <=> s = Orch(s[1])
  BY <1>3, <1>5 DEF IsWorker, Orch
<1> QED
  BY <1>1, <1>2, <1>3, <1>4, <1>5, <1>6, <1>7

LEMMA ActionsAreCalls ==
  \A a \in StepActions : /\ a \in Seq(Call) /\ a # <<>> /\ Len(a) \in Nat \ {0}
                         /\ DOMAIN a = 1..Len(a)
                         /\ \A i \in 1..Len(a) : a[i] \in Call /\ a[i] \in ToSet(a)
                         /\ \A i, j \in 1..Len(a) : a[i] = a[j] => i = j
<1> SUFFICES ASSUME NEW a \in StepActions
             PROVE  /\ a \in Seq(Call) /\ a # <<>> /\ Len(a) \in Nat \ {0}
                    /\ DOMAIN a = 1..Len(a)
                    /\ \A i \in 1..Len(a) : a[i] \in Call /\ a[i] \in ToSet(a)
                    /\ \A i, j \in 1..Len(a) : a[i] = a[j] => i = j
  OBVIOUS
<1>1. a \in Seq(ToSet(a)) /\ a # <<>> /\ IsInjective(a)
  BY SessionAssumption DEF StepActions
<1>2. ToSet(a) \subseteq Call
  BY DEF Call, StepActions
<1>3. /\ a \in Seq(Call) /\ Len(a) \in Nat \ {0} /\ DOMAIN a = 1..Len(a)
  BY <1>1, <1>2
<1>4. \A i \in 1..Len(a) : a[i] \in ToSet(a)
  BY <1>3 DEF ToSet
<1>5. \A i, j \in 1..Len(a) : a[i] = a[j] => i = j
  BY <1>1, <1>3 DEF IsInjective
<1> QED
  BY <1>1, <1>2, <1>3, <1>4, <1>5

\* The lines of a span in a file, whichever file it is.
Lines(file, s) ==
  LET own == Selected(file, {line \in ToSet(file) : line.span = s})
  IN  [i \in DOMAIN own |-> own[i].entry]

LEMMA LinesAppend ==
  ASSUME NEW q \in Queries, NEW file \in Seq(Line(q)), NEW x \in Line(q), NEW s
  PROVE  /\ Lines(file, s) \in Seq(Entry)
         /\ Lines(Append(file, x), s) =
              IF x.span = s THEN Append(Lines(file, s), x.entry) ELSE Lines(file, s)
<1> DEFINE T == {line \in ToSet(file) : line.span = s}
           U == {line \in ToSet(Append(file, x)) : line.span = s}
           own == Selected(file, T)
<1>1. Append(file, x) \in Seq(Line(q))
  OBVIOUS
<1>2. \A i \in DOMAIN file : file[i] \in T <=> file[i] \in U
  <2>1. \A i \in DOMAIN file : file[i] \in ToSet(file) /\ file[i] \in ToSet(Append(file, x))
    BY DEF ToSet
  <2> QED
    BY <2>1
<1>3. x \in U <=> x.span = s
  <2>1. x \in ToSet(Append(file, x))
    BY DEF ToSet
  <2> QED
    BY <2>1
<1>4. own \in Seq(Line(q))
  <2>1. own \in Seq(Line(q) \cap T)
    BY SelectedType
  <2> QED
    BY <2>1
<1>5. Selected(Append(file, x), U) = IF x.span = s THEN Append(own, x) ELSE own
  <2>1. Selected(file, U) = own
    BY <1>2, SelectedSame
  <2> QED
    BY <1>3, <2>1, SelectedAppend
<1>6. Lines(file, s) \in Seq(Entry) /\ Lines(file, s) = [i \in DOMAIN own |-> own[i].entry]
  <2> HIDE DEF own
  <2>0. \A l \in Line(q) : l.entry \in Entry
    BY DEF Line
  <2>1. \A i \in DOMAIN own : own[i].entry \in Entry
    <3>1. \A i \in DOMAIN own : own[i] \in Line(q)
      BY <1>4
    <3> QED
      BY <2>0, <3>1
  <2>2. [i \in DOMAIN own |-> own[i].entry] \in Seq(Entry)
    BY <1>4, <2>1
  <2> QED
    BY <2>2 DEF Lines, own
<1>7. Lines(Append(file, x), s) = [i \in DOMAIN Selected(Append(file, x), U) |->
                                     Selected(Append(file, x), U)[i].entry]
  BY DEF Lines
<1> HIDE DEF own, U
<1>8. CASE x.span = s
  <2>1. Lines(Append(file, x), s) = [i \in DOMAIN Append(own, x) |-> Append(own, x)[i].entry]
    BY <1>5, <1>7, <1>8
  <2>2. [i \in DOMAIN Append(own, x) |-> Append(own, x)[i].entry]
          = Append([i \in DOMAIN own |-> own[i].entry], x.entry)
    BY <1>4
  <2> QED
    BY <1>6, <1>8, <2>1, <2>2
<1>9. CASE x.span # s
  BY <1>5, <1>6, <1>7, <1>9
<1> QED
  BY <1>6, <1>8, <1>9

LEMMA LinesEmpty == \A s : Lines(<<>>, s) = <<>>
<1>1. \A s : Selected(<<>>, {line \in ToSet(<<>>) : line.span = s}) = <<>>
  BY SelectedEmpty
<1>2. \A s : [i \in DOMAIN <<>> |-> <<>>[i].entry] = <<>>
  OBVIOUS
<1> QED
  BY <1>1, <1>2 DEF Lines

\* A line that is persisted is the last of its own span's, and no other span
\* has a new one.
LEMMA LinesGrow ==
  ASSUME FilesTyped, NEW s \in Span, NEW e \in Entry, Persist(s, e)
  PROVE  /\ LinesOf(s)' = Append(LinesOf(s), e)
         /\ \A t \in Span \ {s} : LinesOf(t)' = LinesOf(t)
         /\ FilesTyped'
         /\ trace'[s[1]] = Append(trace[s[1]], [span |-> s, entry |-> e])
         /\ \A q \in Queries \ {s[1]} : trace'[q] = trace[q]
<1> DEFINE x == [span |-> s, entry |-> e]
<1>1. /\ s[1] \in Queries /\ x \in Line(s[1]) /\ x.span = s /\ x.entry = e
  BY SpanParts DEF Line
<1>2. /\ trace'[s[1]] = Append(trace[s[1]], x)
      /\ \A q \in Queries : q # s[1] => trace'[q] = trace[q]
      /\ DOMAIN trace' = Queries /\ trace' = [q \in Queries |-> trace'[q]]
  BY <1>1 DEF Persist, FilesTyped, LineSpan
<1>3. \A q \in Queries : trace[q] \in Seq(Line(q))
  BY DEF FilesTyped
<1>4. /\ \A t \in Span : LinesOf(t) = Lines(trace[t[1]], t)
      /\ \A t \in Span : LinesOf(t)' = Lines(trace'[t[1]], t)
  BY DEF LinesOf, Lines
<1> HIDE DEF x
<1>5. \A t : Lines(Append(trace[s[1]], x), t) =
               IF s = t THEN Append(Lines(trace[s[1]], t), e) ELSE Lines(trace[s[1]], t)
  <2>1. trace[s[1]] \in Seq(Line(s[1]))
    BY <1>1, <1>3
  <2> TAKE t
  <2>2. \A q \in Queries : \A file \in Seq(Line(q)) : \A l \in Line(q) :
          Lines(Append(file, l), t) =
            IF l.span = t THEN Append(Lines(file, t), l.entry) ELSE Lines(file, t)
    BY LinesAppend
  <2> QED
    BY <1>1, <2>1, <2>2
<1>6. \A q \in Queries : trace'[q] \in Seq(Line(q))
  <2>1. Append(trace[s[1]], x) \in Seq(Line(s[1]))
    BY <1>1, <1>3
  <2> QED
    BY <1>2, <1>3, <2>1
<1>7. LinesOf(s)' = Append(LinesOf(s), e)
  BY <1>1, <1>2, <1>4, <1>5
<1>8. ASSUME NEW t \in Span \ {s} PROVE LinesOf(t)' = LinesOf(t)
  <2>1. CASE t[1] = s[1]
    <3>1. Lines(Append(trace[s[1]], x), t) = Lines(trace[s[1]], t)
      BY <1>5
    <3>2. LinesOf(t)' = Lines(trace'[t[1]], t) /\ LinesOf(t) = Lines(trace[t[1]], t)
      BY <1>4
    <3> QED
      BY <1>2, <2>1, <3>1, <3>2
  <2>2. CASE t[1] # s[1]
    BY <1>2, <1>4, <2>2, SpanParts
  <2> QED
    BY <2>1, <2>2
<1>9. FilesTyped'
  BY <1>2, <1>6 DEF FilesTyped
<1> QED
  BY <1>2, <1>7, <1>8, <1>9 DEF x

LEMMA UsedIsNat ==
  \A q \in Queries : /\ IsFiniteSet({s \in Span : s[1] = q /\ IsWorker(s) /\ pc[s] # "off"})
                      /\ Used(q) \in Nat
<1> SUFFICES ASSUME NEW q \in Queries
             PROVE  IsFiniteSet({s \in Span : s[1] = q /\ IsWorker(s) /\ pc[s] # "off"})
  BY FS_CardinalityType DEF Used
<1> DEFINE S == {s \in Span : s[1] = q /\ IsWorker(s) /\ pc[s] # "off"}
           B == {q} \X (0..MaxWorkers[q])
<1>1. IsFiniteSet({q}) /\ IsFiniteSet(0..MaxWorkers[q])
  <2>1. MaxWorkers[q] \in Int /\ 0 \in Int
    BY SpanParts
  <2> QED
    BY <2>1, FS_Singleton, FS_Interval
<1>2. IsFiniteSet(B)
  BY <1>1, FS_Product
<1>3. S \subseteq B
  BY SpanParts
<1> QED
  BY <1>2, <1>3, FS_Subset

\* The entries runs write.
LEMMA EntriesOf ==
  ASSUME NEW s \in Span
  PROVE  /\ LogOf(s)!Query \in Entry /\ LogOf(s)!Answer \in Entry /\ LogOf(s)!Failure \in Entry
         /\ \A a \in StepActions : LogOf(s)!Action(a, ToSet(a)) \in Entry
         /\ \A c \in Call, got \in Outcome : LogOf(s)!Observation(c, got) \in Entry
<1>1. LogOf(s)!Query \in Entry /\ LogOf(s)!Answer \in Entry /\ LogOf(s)!Failure \in Entry
  BY DEF Entry, LogOf!Query, LogOf!Answer, LogOf!Failure
<1>2. \A a \in StepActions : LogOf(s)!Action(a, ToSet(a)) \in Entry
  BY DEF Entry, LogOf!Action
<1>3. ASSUME NEW c \in Call, NEW got \in Outcome PROVE LogOf(s)!Observation(c, got) \in Entry
  <2>1. LogOf(s)!Observation(c, got) \in [kind : {"observation"}, call : Call, got : Outcome]
    BY DEF LogOf!Observation
  <2> QED
    BY <2>1 DEF Entry
<1> QED
  BY <1>1, <1>2, <1>3

LEMMA EmitTyped ==
  ASSUME ScreenTyped, NEW s \in Span, NEW kind \in Kind, Emit(s, kind), UNCHANGED <<app, panels>>
  PROVE  ScreenTyped'
<1>1. [span |-> s, kind |-> kind] \in Event
  BY DEF Event
<1>2. inbox' \in Seq(Event)
  BY <1>1 DEF ScreenTyped, Emit
<1> QED
  BY <1>2 DEF ScreenTyped, panels

LEMMA FinishTyped ==
  ASSUME TypeOK, NEW s \in Span, NEW how \in {"answered", "failed"}, Finish(s, how),
         UNCHANGED <<action, results, observed, app, panels>>, steps' \in [Span -> Nat]
  PROVE  RunsTyped' /\ FilesTyped' /\ ScreenTyped'
<1>1. /\ Goto(s, "closing") /\ outcome' = [outcome EXCEPT ![s] = how]
      /\ Persist(s, IF how = "answered" THEN LogOf(s)!Answer ELSE LogOf(s)!Failure)
      /\ Emit(s, EndEvent(how))
  BY DEF Finish
<1>2. RunsTyped'
  BY <1>1 DEF TypeOK, RunsTyped, Goto, Place
<1>3. FilesTyped'
  BY <1>1, EntriesOf, LinesGrow DEF TypeOK
<1>4. EndEvent(how) \in Kind
  BY DEF EndEvent, Kind
<1>5. ScreenTyped'
  BY <1>1, <1>4, EmitTyped DEF TypeOK
<1> QED
  BY <1>2, <1>3, <1>5

\* What the rest of a step leaves alone.
LEMMA TypesStay ==
  /\ RunsTyped /\ UNCHANGED run => RunsTyped'
  /\ FilesTyped /\ UNCHANGED trace => FilesTyped'
  /\ RequestsTyped /\ UNCHANGED <<held, paused, stop, requests>> => RequestsTyped'
  /\ ScreenTyped /\ UNCHANGED <<inbox, app, panels>> => ScreenTyped'
BY DEF RunsTyped, FilesTyped, RequestsTyped, ScreenTyped, run, panels

LEMMA RunStepTyped ==
  ASSUME TypeOK, NEW s \in Span, RunStep(s)
  PROVE  TypeOK'
<1> USE DEF TypeOK
<1>1. CASE BeginRun(s)
  <2>1. Emit(s, "RunStarted") /\ "RunStarted" \in Kind
    BY <1>1 DEF BeginRun, Opening, Kind
  <2>2. ScreenTyped'
    BY <1>1, <2>1, EmitTyped DEF BeginRun
  <2>3. RunsTyped' /\ RequestsTyped'
    BY <1>1 DEF BeginRun, Goto, RunsTyped, Place, Forget, Forgotten, RequestsTyped
  <2> QED
    BY <1>1, <2>2, <2>3, TypesStay DEF BeginRun
<1>2. CASE OpenSpan(s)
  <2>1. Emit(s, "SpanOpened") /\ "SpanOpened" \in Kind
    BY <1>2 DEF OpenSpan, Opening, Kind
  <2>2. ScreenTyped'
    BY <1>2, <2>1, EmitTyped DEF OpenSpan
  <2>3. RunsTyped' /\ FilesTyped'
    BY <1>2, EntriesOf, LinesGrow DEF OpenSpan, Goto, RunsTyped, Place
  <2> QED
    BY <1>2, <2>2, <2>3, TypesStay DEF OpenSpan
<1>3. CASE Checkpoint(s)
  <2>1. RequestsTyped'
    BY <1>3, TypesStay DEF Checkpoint
  <2>2. CASE Finish(s, "failed") /\ UNCHANGED steps
    <3>1. steps' \in [Span -> Nat] /\ UNCHANGED <<action, results, observed, app, panels>>
      BY <1>3, <2>2 DEF Checkpoint, RunsTyped
    <3> QED
      BY <2>1, <2>2, <3>1, FinishTyped
  <2>3. CASE /\ Goto(s, "thinking") /\ steps' = [steps EXCEPT ![s] = @ + 1]
             /\ UNCHANGED <<outcome, trace, inbox>>
    <3>1. RunsTyped'
      BY <1>3, <2>3 DEF Checkpoint, Goto, RunsTyped, Place
    <3>2. UNCHANGED <<app, panels>>
      BY <1>3 DEF Checkpoint
    <3> QED
      BY <2>1, <2>3, <3>1, <3>2, TypesStay
  <2> QED
    BY <1>3, <2>2, <2>3 DEF Checkpoint
<1>4. CASE Think(s)
  <2>1. RequestsTyped' /\ steps' \in [Span -> Nat] /\ UNCHANGED <<app, panels>>
    BY <1>4, TypesStay DEF Think, RunsTyped
  <2>2. CASE Finish(s, "answered") /\ UNCHANGED <<action, results, observed>>
    BY <2>1, <2>2, FinishTyped
  <2>3. CASE /\ \E a \in MayDecide(s) : action' = [action EXCEPT ![s] = a]
                                       /\ Persist(s, LogOf(s)!Action(a, ToSet(a)))
             /\ results' = [results EXCEPT ![s] = <<>>] /\ observed' = [observed EXCEPT ![s] = 0]
             /\ Goto(s, "acting") /\ UNCHANGED <<outcome, inbox>>
    <3>1. PICK a \in MayDecide(s) : action' = [action EXCEPT ![s] = a]
                                   /\ Persist(s, LogOf(s)!Action(a, ToSet(a)))
      BY <2>3
    <3>2. a \in StepActions
      BY DEF MayDecide, StepActions
    <3>3. a \in Seq(Call) /\ LogOf(s)!Action(a, ToSet(a)) \in Entry
      BY <3>2, ActionsAreCalls, EntriesOf
    <3>4. FilesTyped'
      BY <3>1, <3>3, LinesGrow
    <3>5. RunsTyped'
      BY <2>1, <2>3, <3>1, <3>3 DEF Goto, RunsTyped, Place
    <3> QED
      BY <2>1, <2>3, <3>4, <3>5, TypesStay
  <2>4. CASE /\ Goto(s, "closing") /\ outcome' = [outcome EXCEPT ![s] = "raised"]
             /\ UNCHANGED <<action, results, observed, trace, inbox>>
    <3>1. RunsTyped'
      BY <2>1, <2>4 DEF Goto, RunsTyped, Place
    <3> QED
      BY <2>1, <2>4, <3>1, TypesStay
  <2> QED
    BY <1>4, <2>2, <2>3, <2>4 DEF Think
<1>5. CASE RunTool(s)
  <2>1. RunsTyped'
    <3>1. PICK got \in Outcome : ComesBack(s, got)
      BY <1>5 DEF RunTool, Outcome
    <3> QED
      BY <1>5, <3>1 DEF RunTool, ComesBack, RunsTyped
  <2> QED
    BY <1>5, <2>1, TypesStay DEF RunTool
<1>6. CASE Delegate(s)
  <2>1. RunsTyped'
    BY <1>6 DEF Delegate, Goto, RunsTyped, Place
  <2> QED
    BY <1>6, <2>1, TypesStay DEF Delegate
<1>7. CASE Observe(s)
  <2> DEFINE i == observed[s] + 1
  <2>1. PICK got \in {results[s][i], "failed"} :
           /\ Persist(s, LogOf(s)!Observation(action[s][i], got))
           /\ Emit(s, IF got = "ok" THEN "ToolCompleted" ELSE "ToolErrored")
           /\ observed' = [observed EXCEPT ![s] = i]
           /\ \/ Goto(s, IF i = Len(action[s]) THEN "ready" ELSE "acting")
              \/ got # "ok" /\ Goto(s, "tripped")
    BY <1>7 DEF Observe
  <2>2. i \in Nat /\ action[s][i] \in Call /\ got \in Outcome
    BY <1>7 DEF Observe, RunsTyped, Outcome
  <2>3. FilesTyped'
    <3>1. LogOf(s)!Observation(action[s][i], got) \in Entry
      BY <2>2, EntriesOf
    <3> QED
      BY <2>1, <3>1, LinesGrow
  <2>4. ScreenTyped'
    <3>1. (IF got = "ok" THEN "ToolCompleted" ELSE "ToolErrored") \in Kind
      BY DEF Kind
    <3>2. UNCHANGED <<app, panels>>
      BY <1>7 DEF Observe
    <3> QED
      BY <2>1, <3>1, <3>2, EmitTyped
  <2>5. RunsTyped'
    BY <1>7, <2>1, <2>2 DEF Observe, Goto, RunsTyped, Place
  <2> QED
    BY <1>7, <2>3, <2>4, <2>5, TypesStay DEF Observe
<1>8. CASE DropResults(s)
  <2>1. steps' \in [Span -> Nat] /\ RequestsTyped'
        /\ UNCHANGED <<action, results, observed, app, panels>>
    BY <1>8, TypesStay DEF DropResults, RunsTyped
  <2> QED
    BY <1>8, <2>1, FinishTyped DEF DropResults
<1>9. CASE BreakerTrips(s)
  <2>1. steps' \in [Span -> Nat] /\ RequestsTyped'
        /\ UNCHANGED <<action, results, observed, app, panels>>
    BY <1>9, TypesStay DEF BreakerTrips, RunsTyped
  <2> QED
    BY <1>9, <2>1, FinishTyped DEF BreakerTrips
<1>10. CASE CloseSpan(s)
  <2>1. ScreenTyped'
    BY <1>10, EmitTyped DEF CloseSpan, Kind
  <2>2. RunsTyped'
    BY <1>10 DEF CloseSpan, Goto, RunsTyped, Place
  <2> QED
    BY <1>10, <2>1, <2>2, TypesStay DEF CloseSpan
<1>11. CASE Leave(s)
  <2>1. results' \in [Span -> Seq(Outcome)]
    <3>1. Returned(outcome[s]) \in Outcome
      BY DEF Returned, Outcome
    <3>2. s[1] \in Queries /\ Orch(s[1]) \in Span
      BY SpanParts
    <3> DEFINE cleared == [results EXCEPT ![s] = <<>>]
    <3>3. cleared \in [Span -> Seq(Outcome)]
      BY DEF RunsTyped
    <3>4. results' = IF IsWorker(s)
                     THEN [cleared EXCEPT ![Orch(s[1])] = Append(@, Returned(outcome[s]))]
                     ELSE cleared
      BY <1>11 DEF Leave
    <3> HIDE DEF cleared
    <3> QED
      BY <3>1, <3>2, <3>3, <3>4
  <2>2. RunsTyped'
    <3>1. action' \in [Span -> Seq(Call)] /\ <<>> \in Seq(Call)
      BY <1>11 DEF Leave, RunsTyped
    <3>2. steps' \in [Span -> Nat] /\ observed' \in [Span -> Nat] /\ UNCHANGED outcome
      BY <1>11 DEF Leave, RunsTyped
    <3>3. pc' \in [Span -> Place]
      BY <1>11 DEF Leave, Goto, RunsTyped, Place
    <3> QED
      BY <2>1, <3>1, <3>2, <3>3 DEF RunsTyped
  <2>3. RequestsTyped'
    BY <1>11 DEF Leave, Forget, Forgotten, RequestsTyped
  <2> QED
    BY <1>11, <2>2, <2>3, TypesStay DEF Leave
<1> QED
  BY <1>1, <1>2, <1>3, <1>4, <1>5, <1>6, <1>7, <1>8, <1>9, <1>10, <1>11 DEF RunStep

LEMMA NextTyped ==
  ASSUME TypeOK, [Next]_vars
  PROVE  TypeOK'
<1> USE DEF TypeOK
<1>1. ASSUME NEW q \in Queries, Submit(q) PROVE TypeOK'
  <2>1. RunsTyped'
    BY <1>1 DEF Submit, Goto, RunsTyped, Place
  <2> QED
    BY <1>1, <2>1, TypesStay DEF Submit
<1>2. ASSUME NEW q \in Queries, Hold(q) PROVE TypeOK'
  <2>1. RunsTyped' /\ RequestsTyped'
    BY <1>2 DEF Hold, Goto, RunsTyped, Place, RequestsTyped
  <2> QED
    BY <1>2, <2>1, TypesStay DEF Hold
<1>3. CASE RequestPause \/ RequestResume \/ RequestInterrupt
  <2>1. RequestsTyped' /\ UNCHANGED <<run, trace, inbox, app, panels>>
    BY <1>3 DEF RequestPause, RequestResume, RequestInterrupt, Request, RequestsTyped
  <2> QED
    BY <2>1, TypesStay
<1>4. CASE Consume
  <2> DEFINE ev == Head(inbox)
  <2>1. ev \in Event /\ inbox' \in Seq(Event)
    BY <1>4 DEF Consume, ScreenTyped
  <2>2. ev.span \in Span /\ ev.span[1] \in Queries
    BY <2>1, SpanParts DEF Event
  <2> HIDE DEF ev
  <2>3. DOMAIN SpanTree(ev) \subseteq Span
    <3>1. DOMAIN HangNode(ev.span) = {ev.span} \cup DOMAIN nodes
      BY DEF HangNode
    <3> QED
      BY <2>2, <3>1 DEF SpanTree, ScreenTyped
  <2>4. Flame(ev) \in [opened : SUBSET Span, timed : SUBSET Span]
    BY <2>2 DEF Flame, Dark, ScreenTyped
  <2>5. Jobs(ev) \in [state : {"idle", "running", "completed", "failed"},
                      query : Queries \cup {0}]
    BY <2>2 DEF Jobs, ScreenTyped
  <2>6. ScreenTyped'
    BY <1>4, <2>1, <2>3, <2>4, <2>5 DEF Consume, ScreenTyped, ev
  <2> QED
    BY <1>4, <2>6, TypesStay DEF Consume
<1>5. CASE Quit
  <2>1. RequestsTyped'
    BY <1>5 DEF Quit, RequestsTyped
  <2>2. DOMAIN nodes' = {}
    BY <1>5 DEF Quit
  <2>3. ScreenTyped'
    <3>0. <<>> \in Seq(Event)
      OBVIOUS
    <3>1. inbox' \in Seq(Event) /\ app' \in BOOLEAN
      BY <1>5, <3>0, Zenon DEF Quit
    <3>2. flame' \in [opened : SUBSET Span, timed : SUBSET Span]
      BY <1>5 DEF Quit, Dark
    <3>3. jobs' \in [state : {"idle", "running", "completed", "failed"}, query : Queries \cup {0}]
      BY <1>5 DEF Quit, Quiet
    <3> QED
      BY <2>2, <3>1, <3>2, <3>3 DEF ScreenTyped
  <2> QED
    BY <1>5, <2>1, <2>3, TypesStay DEF Quit
<1>6. CASE UNCHANGED vars
  BY <1>6, TypesStay DEF vars
<1> QED
  BY <1>1, <1>2, <1>3, <1>4, <1>5, <1>6, RunStepTyped DEF Next, ScreenStep

LEMMA InitTyped == Init => TypeOK
BY DEF Init, TypeOK, RunsTyped, FilesTyped, RequestsTyped, ScreenTyped, Place, Dark, Quiet

------------------------------------------------------------------------------
(* Who runs: a run has an outcome once it has ended and not before; workers *)
(* are taken in their order, the latest alone may run, and only within an   *)
(* action of the orchestrator that is not through.                          *)
RunHolds(s) ==
  /\ pc[s] = "building" => ~IsWorker(s)
  /\ outcome[s] = "none" <=> pc[s] \notin Ended
  /\ pc[s] = "acting" =>
       /\ action[s] \in StepActions
       /\ Len(results[s]) <= Len(action[s]) /\ observed[s] < Len(action[s])
       /\ observed[s] > 0 => Len(results[s]) = Len(action[s])
WorkerInTurn(s) ==
  /\ pc[s] # "off" <=> s[2] <= Used(s[1])
  /\ Running(s) => /\ s[2] = Used(s[1]) /\ pc[Orch(s[1])] = "acting"
                   /\ Len(results[Orch(s[1])]) < Len(action[Orch(s[1])])
  /\ pc[s] # "off" => pc[Orch(s[1])] \notin Unstarted
RunsHold == \A s \in Span : RunHolds(s)
WorkersInTurn == \A s \in Span : IsWorker(s) => WorkerInTurn(s)
ControlHolds == TypeOK /\ RunsHold /\ WorkersInTurn

LEMMA UsedStays ==
  ASSUME \A t \in Span : IsWorker(t) => (pc'[t] = "off" <=> pc[t] = "off")
  PROVE  \A q \in Queries : Used(q)' = Used(q)
<1>1. \A q \in Queries : {s \in Span : s[1] = q /\ IsWorker(s) /\ pc'[s] # "off"}
                        = {s \in Span : s[1] = q /\ IsWorker(s) /\ pc[s] # "off"}
  OBVIOUS
<1> QED
  BY <1>1 DEF Used

\* A run that goes on leaves the order of the workers as it is.
GoesOn(s, p) ==
  /\ Goto(s, p) /\ p \in Place \ {"off", "over"} /\ pc[s] \notin {"off", "over"}
  /\ p \in Unstarted => pc[s] \in Unstarted
  /\ IsWorker(s) \/ PoolIdle(s[1])
  /\ \A t \in Span \ {s} : action'[t] = action[t] /\ results'[t] = results[t]
LEMMA TurnStays ==
  ASSUME TypeOK, WorkersInTurn, NEW s \in Span, NEW p, GoesOn(s, p)
  PROVE  WorkersInTurn'
<1> USE DEF GoesOn
<1>1. pc' = [pc EXCEPT ![s] = p] /\ pc \in [Span -> Place]
  BY DEF Goto, TypeOK, RunsTyped
<1>2. \A q \in Queries : Used(q)' = Used(q)
  BY <1>1, UsedStays
<1>3. ASSUME NEW t \in Span, IsWorker(t) PROVE WorkerInTurn(t)'
  <2> DEFINE o == Orch(t[1])
  <2>1. o \in Span /\ t[1] \in Queries /\ o # t /\ Used(t[1])' = Used(t[1]) /\ WorkerInTurn(t)
    BY <1>2, <1>3, SpanParts DEF WorkersInTurn
  <2>2. CASE s = t
    BY <1>1, <2>1, <2>2 DEF WorkerInTurn, Running
  <2>3. CASE s = o
    <3>1. ~Running(t)
      BY <1>3, <2>3, SpanParts DEF PoolIdle
    <3> QED
      BY <1>1, <2>1, <2>3, <3>1 DEF WorkerInTurn, Running
  <2>4. CASE s # t /\ s # o
    BY <1>1, <2>1, <2>4 DEF WorkerInTurn, Running
  <2> QED
    BY <2>2, <2>3, <2>4
<1> QED
  BY <1>3 DEF WorkersInTurn

\* A delegation starts the next worker.
NextWorker(s) == <<s[1], Used(s[1]) + 1>>
LEMMA DelegateStarts ==
  ASSUME ControlHolds, NEW s \in Span, Delegate(s)
  PROVE  /\ s = Orch(s[1]) /\ s[1] \in Queries /\ Used(s[1]) \in Nat
         /\ NextWorker(s) \in Span /\ NextWorker(s)[1] = s[1] /\ NextWorker(s)[2] = Used(s[1]) + 1
         /\ IsWorker(NextWorker(s)) /\ NextWorker(s) # s
         /\ pc[NextWorker(s)] = "off" /\ pc' = [pc EXCEPT ![NextWorker(s)] = "starting"]
         /\ pc[s] = "acting" /\ PoolIdle(s[1]) /\ Len(results[s]) < Len(action[s])
<1>1. /\ pc[s] = "acting" /\ Len(results[s]) < Len(action[s]) /\ ~IsWorker(s) /\ PoolIdle(s[1])
      /\ Used(s[1]) < MaxWorkers[s[1]] /\ Goto(NextWorker(s), "starting")
  BY DEF Delegate, Waiting, At, NextWorker
<1>2. Used(s[1]) \in Nat /\ s[1] \in Queries /\ s = Orch(s[1])
  BY <1>1, UsedIsNat, SpanParts
<1>3. /\ NextWorker(s) \in Span /\ NextWorker(s)[1] = s[1] /\ NextWorker(s)[2] = Used(s[1]) + 1
      /\ IsWorker(NextWorker(s)) /\ NextWorker(s) # s
  <2>1. Used(s[1]) + 1 \in 0..MaxWorkers[s[1]]
    BY <1>1, <1>2, SpanParts
  <2> QED
    BY <1>1, <1>2, <2>1, SpanParts DEF IsWorker, NextWorker
<1>4. pc[NextWorker(s)] = "off"
  BY <1>2, <1>3 DEF ControlHolds, WorkersInTurn, WorkerInTurn
<1> QED
  BY <1>1, <1>2, <1>3, <1>4 DEF Goto

LEMMA RunStepControlled ==
  ASSUME ControlHolds, NEW s \in Span, RunStep(s)
  PROVE  RunsHold' /\ WorkersInTurn'
<1> USE DEF ControlHolds
<1>0. /\ pc \in [Span -> Place] /\ outcome \in [Span -> {"none", "answered", "failed", "raised"}]
      /\ action \in [Span -> Seq(Call)] /\ results \in [Span -> Seq(Outcome)]
      /\ observed \in [Span -> Nat] /\ RunHolds(s)
      /\ \A p : At(s, p) => pc[s] = p /\ (IsWorker(s) \/ PoolIdle(s[1]))
  BY DEF TypeOK, RunsTyped, RunsHold, At
<1>1. CASE BeginRun(s)
  <2>1. At(s, "starting") /\ Goto(s, "opening") /\ UNCHANGED <<action, results, observed, outcome>>
    BY <1>1 DEF BeginRun
  <2>2. GoesOn(s, "opening")
    BY <1>0, <2>1 DEF GoesOn, Place, Unstarted
  <2>3. RunsHold'
    BY <1>0, <2>1 DEF RunsHold, RunHolds, Goto, Ended
  <2> QED
    BY <2>2, <2>3, TurnStays
<1>2. CASE OpenSpan(s)
  <2>1. At(s, "opening") /\ Goto(s, "ready") /\ UNCHANGED <<action, results, observed, outcome>>
    BY <1>2 DEF OpenSpan
  <2>2. GoesOn(s, "ready")
    BY <1>0, <2>1 DEF GoesOn, Place, Unstarted
  <2>3. RunsHold'
    BY <1>0, <2>1 DEF RunsHold, RunHolds, Goto, Ended
  <2> QED
    BY <2>2, <2>3, TurnStays
<1>3. CASE /\ \E how : Finish(s, how) /\ how # "none"
           /\ UNCHANGED <<action, results, observed>>
           /\ At(s, "ready") \/ At(s, "thinking") \/ At(s, "tripped") \/ At(s, "acting")
  <2>1. PICK how : Goto(s, "closing") /\ outcome' = [outcome EXCEPT ![s] = how] /\ how # "none"
    BY <1>3 DEF Finish
  <2>2. GoesOn(s, "closing")
    BY <1>0, <1>3, <2>1 DEF GoesOn, Place, Unstarted
  <2>3. RunsHold'
    BY <1>0, <1>3, <2>1 DEF RunsHold, RunHolds, Goto, Ended
  <2> QED
    BY <2>2, <2>3, TurnStays
<1>4. CASE Checkpoint(s) /\ ~Finish(s, "failed")
  <2>1. At(s, "ready") /\ Goto(s, "thinking") /\ UNCHANGED <<action, results, observed, outcome>>
    BY <1>4 DEF Checkpoint
  <2>2. GoesOn(s, "thinking")
    BY <1>0, <2>1 DEF GoesOn, Place, Unstarted
  <2>3. RunsHold'
    BY <1>0, <2>1 DEF RunsHold, RunHolds, Goto, Ended
  <2> QED
    BY <2>2, <2>3, TurnStays
<1>5. CASE Think(s) /\ ~Finish(s, "answered")
  <2>1. At(s, "thinking")
    BY <1>5 DEF Think
  <2>2. CASE \E a \in MayDecide(s) :
                /\ action' = [action EXCEPT ![s] = a] /\ results' = [results EXCEPT ![s] = <<>>]
                /\ observed' = [observed EXCEPT ![s] = 0]
                /\ Goto(s, "acting") /\ UNCHANGED outcome
    <3>1. PICK a \in MayDecide(s) : action' = [action EXCEPT ![s] = a]
      BY <2>2
    <3>2. a \in StepActions
      BY DEF MayDecide, StepActions
    <3>3. Len(a) \in Nat \ {0}
      BY <3>2, ActionsAreCalls
    <3>4. RunsHold'
      <4> SUFFICES ASSUME NEW t \in Span PROVE RunHolds(t)'
        BY DEF RunsHold
      <4>1. CASE t = s
        <5>1. action'[s] = a /\ results'[s] = <<>> /\ observed'[s] = 0 /\ pc'[s] = "acting"
              /\ outcome'[s] = outcome[s]
          BY <1>0, <2>2, <3>1 DEF Goto
        <5> QED
          BY <1>0, <2>1, <3>2, <3>3, <4>1, <5>1 DEF RunHolds, Ended
      <4>2. CASE t # s
        BY <1>0, <2>2, <3>1, <4>2 DEF RunsHold, RunHolds, Goto
      <4> QED
        BY <4>1, <4>2
    <3>5. GoesOn(s, "acting")
      BY <1>0, <2>1, <2>2 DEF GoesOn, Place, Unstarted
    <3> QED
      BY <3>4, <3>5, TurnStays
  <2>3. CASE /\ Goto(s, "closing") /\ outcome' = [outcome EXCEPT ![s] = "raised"]
             /\ UNCHANGED <<action, results, observed>>
    <3>1. GoesOn(s, "closing")
      BY <1>0, <2>1, <2>3 DEF GoesOn, Place, Unstarted
    <3>2. RunsHold'
      BY <1>0, <2>1, <2>3 DEF RunsHold, RunHolds, Goto, Ended
    <3> QED
      BY <3>1, <3>2, TurnStays
  <2> QED
    BY <1>5, <2>2, <2>3 DEF Think
<1>6. CASE RunTool(s)
  <2>1. PICK got \in Outcome : ComesBack(s, got)
    BY <1>6 DEF RunTool, Outcome
  <2>2. /\ Waiting(s) /\ results' = [results EXCEPT ![s] = Append(@, got)]
        /\ UNCHANGED <<pc, action, observed, outcome>>
    BY <1>6, <2>1 DEF RunTool, ComesBack
  <2>3. At(s, "acting") /\ Len(results[s]) < Len(action[s])
    BY <2>2 DEF Waiting
  <2>4. /\ Len(results'[s]) = Len(results[s]) + 1 /\ Len(results[s]) \in Nat /\ Len(action[s]) \in Nat
        /\ observed[s] \in Nat /\ \A t \in Span \ {s} : results'[t] = results[t]
    <3>1. results[s] \in Seq(Outcome) /\ action[s] \in Seq(Call)
      BY <1>0
    <3>2. results'[s] = Append(results[s], got)
      BY <1>0, <2>2
    <3> QED
      BY <1>0, <2>2, <3>1, <3>2
  <2>5. RunsHold'
    <3> SUFFICES ASSUME NEW t \in Span PROVE RunHolds(t)'
      BY DEF RunsHold
    <3>1. RunHolds(t)
      BY DEF RunsHold
    <3> QED
      BY <1>0, <2>2, <2>3, <2>4, <3>1 DEF RunHolds
  <2>6. GoesOn(s, "acting")
    BY <1>0, <2>2, <2>3, <2>4 DEF GoesOn, Place, Unstarted, Goto
  <2> QED
    BY <2>5, <2>6, TurnStays
<1>7. CASE Delegate(s)
  <2> DEFINE u == Used(s[1])
             w == NextWorker(s)
  <2>1. /\ pc[s] = "acting" /\ PoolIdle(s[1]) /\ Len(results[s]) < Len(action[s])
        /\ UNCHANGED <<action, results, observed, outcome>>
    BY <1>7, DelegateStarts DEF Delegate
  <2>2. u \in Nat /\ s[1] \in Queries /\ s = Orch(s[1])
    BY <1>7, DelegateStarts
  <2>3. w \in Span /\ w[1] = s[1] /\ w[2] = u + 1 /\ IsWorker(w) /\ w # s
    BY <1>7, DelegateStarts
  <2>4. pc[w] = "off"
    BY <1>7, DelegateStarts
  <2>5. pc' = [pc EXCEPT ![w] = "starting"]
    BY <1>7, DelegateStarts
  <2> HIDE DEF u, w
  <2>6. RunsHold'
    BY <1>0, <2>1, <2>3, <2>4, <2>5 DEF RunsHold, RunHolds, Ended
  <2>7. Used(s[1])' = u + 1 /\ \A q \in Queries \ {s[1]} : Used(q)' = Used(q)
    <3> DEFINE S(q) == {t \in Span : t[1] = q /\ IsWorker(t) /\ pc[t] # "off"}
    <3>1. S(s[1])' = S(s[1]) \cup {w} /\ w \notin S(s[1])
      BY <1>0, <2>3, <2>4, <2>5
    <3>2. \A q \in Queries \ {s[1]} : S(q)' = S(q)
      BY <1>0, <2>3, <2>5
    <3>3. \A q \in Queries : Used(q) = Cardinality(S(q)) /\ Used(q)' = Cardinality(S(q)') /\ IsFiniteSet(S(q))
      BY UsedIsNat DEF Used
    <3> HIDE DEF S
    <3> QED
      BY <2>2, <3>1, <3>2, <3>3, FS_AddElement DEF u
  <2>8. WorkersInTurn'
    <3> SUFFICES ASSUME NEW t \in Span, IsWorker(t) PROVE WorkerInTurn(t)'
      BY DEF WorkersInTurn
    <3>1. /\ t[1] \in Queries /\ t[2] \in Nat /\ Orch(t[1]) \in Span /\ Orch(t[1]) # w /\ WorkerInTurn(t)
      BY <2>3, SpanParts DEF WorkersInTurn
    <3>2. CASE t[1] # s[1]
      BY <1>0, <2>1, <2>3, <2>5, <2>7, <3>1, <3>2 DEF WorkerInTurn, Running
    <3>3. CASE t = w
      BY <1>0, <2>1, <2>2, <2>3, <2>5, <2>7, <3>1, <3>3 DEF WorkerInTurn, Running, Unstarted
    <3>4. CASE t[1] = s[1] /\ t # w
      <4>1. ~Running(t) /\ t[2] # u + 1
        BY <1>0, <2>1, <2>3, <3>4, SpanParts DEF PoolIdle
      <4> QED
        BY <1>0, <2>2, <2>3, <2>5, <2>7, <3>1, <3>4, <4>1 DEF WorkerInTurn, Running, u
    <3> QED
      BY <3>2, <3>3, <3>4
  <2> QED
    BY <2>6, <2>8
<1>8. CASE Observe(s)
  <2> DEFINE i == observed[s] + 1
  <2>1. /\ At(s, "acting") /\ Len(results[s]) = Len(action[s]) /\ observed[s] < Len(action[s])
        /\ observed' = [observed EXCEPT ![s] = i] /\ UNCHANGED <<action, results, outcome>>
        /\ \/ Goto(s, IF i = Len(action[s]) THEN "ready" ELSE "acting")
           \/ Goto(s, "tripped")
    BY <1>8 DEF Observe
  <2>2. PICK p \in {"ready", "acting", "tripped"} : Goto(s, p) /\ (p = "acting" => i # Len(action[s]))
    BY <2>1
  <2>3. Len(action[s]) \in Nat /\ i \in Nat
    BY <1>0
  <2>4. RunsHold'
    BY <1>0, <2>1, <2>2, <2>3 DEF RunsHold, RunHolds, Goto, Ended
  <2>5. GoesOn(s, p)
    BY <1>0, <2>1, <2>2 DEF GoesOn, Place, Unstarted
  <2> QED
    BY <2>4, <2>5, TurnStays
<1>9. CASE CloseSpan(s)
  <2>1. At(s, "closing") /\ Goto(s, "leaving") /\ UNCHANGED <<action, results, observed, outcome>>
    BY <1>9 DEF CloseSpan
  <2>2. GoesOn(s, "leaving")
    BY <1>0, <2>1 DEF GoesOn, Place, Unstarted
  <2>3. RunsHold'
    BY <1>0, <2>1 DEF RunsHold, RunHolds, Goto, Ended
  <2> QED
    BY <2>2, <2>3, TurnStays
<1>10. CASE Leave(s)
  <2>1. At(s, "leaving") /\ pc' = [pc EXCEPT ![s] = "over"] /\ action' = [action EXCEPT ![s] = <<>>]
        /\ observed' = [observed EXCEPT ![s] = 0] /\ UNCHANGED outcome
    BY <1>10 DEF Leave, Goto
  <2> DEFINE o == Orch(s[1])
             r == Append(results[o], Returned(outcome[s]))
  <2>2. o \in Span /\ (IsWorker(s) <=> s # o) /\ ~IsWorker(o)
    BY SpanParts
  <2>3. results' = IF IsWorker(s) THEN [results EXCEPT ![s] = <<>>, ![o] = r]
                                  ELSE [results EXCEPT ![s] = <<>>]
    BY <1>0, <1>10, <2>2 DEF Leave
  <2>4. Len(r) = Len(results[o]) + 1 /\ Len(results[o]) \in Nat /\ Len(action[o]) \in Nat
    <3>1. Returned(outcome[s]) \in Outcome
      BY DEF Returned, Outcome
    <3> QED
      BY <1>0, <2>2, <3>1
  <2> HIDE DEF o, r
  <2>5. IsWorker(s) => pc[o] = "acting" /\ Len(results[o]) < Len(action[o]) /\ s[2] = Used(s[1])
    <3>1. IsWorker(s) => WorkerInTurn(s)
      BY DEF WorkersInTurn
    <3>2. Running(s)
      BY <1>0, <2>1 DEF Running
    <3> QED
      BY <3>1, <3>2 DEF WorkerInTurn, o
  <2>6. RunsHold'
    <3> SUFFICES ASSUME NEW t \in Span PROVE RunHolds(t)'
      BY DEF RunsHold
    <3>1. RunHolds(t)
      BY DEF RunsHold
    <3>2. CASE t = s
      BY <1>0, <2>1, <3>2 DEF RunHolds, Ended
    <3>3. CASE t # s /\ t = o /\ IsWorker(s)
      <4>1. results'[t] = r /\ pc'[t] = pc[t] /\ action'[t] = action[t] /\ observed'[t] = observed[t]
            /\ outcome'[t] = outcome[t]
        BY <1>0, <2>1, <2>2, <2>3, <3>3
      <4>2. observed[t] \in Nat
        BY <1>0
      <4> QED
        BY <2>2, <2>4, <2>5, <3>1, <3>3, <4>1, <4>2 DEF RunHolds
    <3>4. CASE t # s /\ ~(t = o /\ IsWorker(s))
      <4>1. results'[t] = results[t] /\ pc'[t] = pc[t] /\ action'[t] = action[t] /\ observed'[t] = observed[t]
            /\ outcome'[t] = outcome[t]
        BY <1>0, <2>1, <2>2, <2>3, <3>4
      <4> QED
        BY <3>1, <4>1 DEF RunHolds
    <3> QED
      BY <3>2, <3>3, <3>4
  <2>7. \A q \in Queries : Used(q)' = Used(q)
    BY <1>0, <2>1, UsedStays
  <2>8. WorkersInTurn'
    <3> SUFFICES ASSUME NEW t \in Span, IsWorker(t) PROVE WorkerInTurn(t)'
      BY DEF WorkersInTurn
    <3>1. /\ t[1] \in Queries /\ Orch(t[1]) \in Span /\ Orch(t[1]) # t /\ WorkerInTurn(t)
          /\ (t[1] = s[1] <=> Orch(t[1]) = o) /\ Orch(t[1])[1] = t[1]
      BY SpanParts DEF WorkersInTurn, o
    <3>2. CASE t[1] # s[1]
      <4>1. Orch(t[1]) # s /\ Orch(t[1]) # o /\ t # s
        BY <3>1, <3>2
      <4> QED
        BY <1>0, <2>1, <2>3, <2>7, <3>1, <4>1 DEF WorkerInTurn, Running
    <3>3. CASE t[1] = s[1] /\ IsWorker(s)
      <4>1. Running(t) => t = s
        BY <2>5, <3>1, <3>3, SpanParts DEF WorkerInTurn
      <4> QED
        BY <1>0, <2>1, <2>2, <2>5, <2>7, <3>1, <3>3, <4>1 DEF WorkerInTurn, Running, Unstarted
    <3>4. CASE t[1] = s[1] /\ ~IsWorker(s)
      <4>1. ~Running(t)
        BY <1>0, <2>1, <3>4 DEF PoolIdle
      <4> QED
        BY <1>0, <2>1, <2>2, <2>7, <3>1, <3>4, <4>1 DEF WorkerInTurn, Running, Unstarted
    <3> QED
      BY <3>2, <3>3, <3>4
  <2> QED
    BY <2>6, <2>8
<1> QED
  <2>1. CASE Checkpoint(s) /\ Finish(s, "failed")
    BY <1>3, <2>1 DEF Checkpoint
  <2>2. CASE Think(s) /\ Finish(s, "answered")
    BY <1>0, <1>3, <2>2 DEF Think, Finish, Goto
  <2>3. CASE DropResults(s)
    BY <1>3, <2>3 DEF DropResults
  <2>4. CASE BreakerTrips(s)
    BY <1>3, <2>4 DEF BreakerTrips
  <2> QED
    BY <1>1, <1>2, <1>4, <1>5, <1>6, <1>7, <1>8, <1>9, <1>10, <2>1, <2>2, <2>3, <2>4 DEF RunStep

LEMMA NextControlled ==
  ASSUME ControlHolds, [Next]_vars
  PROVE  ControlHolds'
<1> USE DEF ControlHolds
<1>0. TypeOK' /\ pc \in [Span -> Place] /\ \A s \in Span : RunHolds(s)
  BY NextTyped DEF TypeOK, RunsTyped, RunsHold
<1>1. ASSUME NEW q \in Queries, Submit(q) PROVE RunsHold' /\ WorkersInTurn'
  <2> DEFINE o == Orch(q)
  <2>1. /\ pc[o] = "off" /\ pc' = [pc EXCEPT ![o] = "building"]
        /\ UNCHANGED <<action, results, observed, outcome>>
    BY <1>1 DEF Submit, Goto
  <2>2. o \in Span /\ ~IsWorker(o)
    BY SpanParts
  <2> HIDE DEF o
  <2>3. RunsHold'
    BY <1>0, <2>1, <2>2 DEF RunsHold, RunHolds, Ended
  <2>4. \A p \in Queries : Used(p)' = Used(p)
    BY <1>0, <2>1, <2>2, UsedStays
  <2>5. ASSUME NEW t \in Span, IsWorker(t) PROVE WorkerInTurn(t)'
    <3>1. WorkerInTurn(t) /\ t # o /\ t[1] \in Queries /\ Orch(t[1]) \in Span
      BY <2>2, <2>5, SpanParts DEF WorkersInTurn
    <3> QED
      BY <1>0, <2>1, <2>2, <2>4, <3>1 DEF WorkerInTurn, Running, Unstarted
  <2> QED
    BY <2>3, <2>5 DEF WorkersInTurn
<1>2. ASSUME NEW q \in Queries, Hold(q) PROVE RunsHold' /\ WorkersInTurn'
  <2> DEFINE o == Orch(q)
  <2>1. /\ At(o, "building") /\ Goto(o, "starting") /\ UNCHANGED <<action, results, observed, outcome>>
    BY <1>2 DEF Hold
  <2>2. o \in Span /\ ~IsWorker(o)
    BY SpanParts
  <2> HIDE DEF o
  <2>3. pc[o] = "building" /\ PoolIdle(o[1])
    BY <2>1, <2>2 DEF At
  <2>4. GoesOn(o, "starting")
    BY <2>1, <2>3 DEF GoesOn, Place, Unstarted
  <2>5. RunsHold'
    BY <1>0, <2>1, <2>2, <2>3 DEF RunsHold, RunHolds, Goto, Ended
  <2> QED
    BY <2>2, <2>4, <2>5, TurnStays
<1>3. CASE UNCHANGED run
  <2>1. UNCHANGED <<pc, action, results, observed, outcome>>
    BY <1>3 DEF run
  <2>2. RunsHold'
    BY <2>1 DEF RunsHold, RunHolds
  <2>3. WorkersInTurn'
    BY <2>1 DEF WorkersInTurn, WorkerInTurn, Running, Used
  <2> QED
    BY <1>0, <2>2, <2>3
<1>4. CASE RequestPause \/ RequestResume \/ RequestInterrupt \/ Consume \/ Quit \/ UNCHANGED vars
  BY <1>3, <1>4 DEF RequestPause, RequestResume, RequestInterrupt, Request, Consume, Quit, vars
<1> QED
  BY <1>0, <1>1, <1>2, <1>4, RunStepControlled DEF Next, ScreenStep

LEMMA InitControlled == Init => ControlHolds
<1> SUFFICES ASSUME Init PROVE RunsHold /\ WorkersInTurn
  BY InitTyped DEF ControlHolds
<1>1. RunsHold
  BY DEF Init, RunsHold, RunHolds, Ended
<1>2. \A q \in Queries : Used(q) = 0
  <2>1. \A q \in Queries : {s \in Span : s[1] = q /\ IsWorker(s) /\ pc[s] # "off"} = {}
    BY DEF Init
  <2> QED
    BY <2>1, FS_EmptySet DEF Used
<1>3. WorkersInTurn
  BY <1>2, SpanParts DEF Init, WorkersInTurn, WorkerInTurn, Running, IsWorker
<1> QED
  BY <1>1, <1>3

------------------------------------------------------------------------------
\* What RunTrace says of a span's lines, as predicates of a sequence of entries.
OpenLog(L) == L # <<>> /\ L[Len(L)].kind \notin {"answer", "failure"}
Left(L, c, k) ==
  /\ L[k].kind = "action" /\ c \in ToSet(L[k].calls)
  /\ \A j \in k + 1 .. Len(L) :
       L[j].kind # "action" /\ ~(L[j].kind = "observation" /\ L[j].call = c)
Answered(L) == \A c \in Call : \A k \in DOMAIN L : ~Left(L, c, k)
\* The latest action is `a`, and its first n calls have been answered.
Acting(L, a, n) ==
  /\ Len(L) - n > 0
  /\ L[Len(L) - n] = [kind |-> "action", calls |-> a, allowed |-> ToSet(a)]
  /\ \A j \in 1..n : L[Len(L) - n + j].kind = "observation" /\ L[Len(L) - n + j].call = a[j]

LEMMA ViewsAgree ==
  ASSUME NEW s \in Span
  PROVE  /\ LogOf(s)!Open <=> OpenLog(LinesOf(s))
         /\ LogOf(s)!AllAnswered <=> Answered(LinesOf(s))
<1>1. LogOf(s)!Open <=> OpenLog(LinesOf(s))
  BY DEF LogOf!Open, LogOf!Last, OpenLog
<1>2. LogOf(s)!AllAnswered <=> Answered(LinesOf(s))
  <2>1. /\ \A c : LogOf(s)!Waiting(c, TRUE) <=>
                   \E k \in DOMAIN LinesOf(s) : Left(LinesOf(s), c, k) /\ c \in LinesOf(s)[k].allowed
        /\ \A c : LogOf(s)!Waiting(c, FALSE) <=>
                   \E k \in DOMAIN LinesOf(s) : Left(LinesOf(s), c, k) /\ c \notin LinesOf(s)[k].allowed
    BY DEF LogOf!Waiting, LogOf!ToSet, LogOf!Observes, ToSet, Left
  <2>2. \A c : (LogOf(s)!Waiting(c, TRUE) \/ LogOf(s)!Waiting(c, FALSE)) <=>
                 \E k \in DOMAIN LinesOf(s) : Left(LinesOf(s), c, k)
    BY <2>1
  <2> QED
    BY <2>2 DEF LogOf!AllAnswered, Answered
<1> QED
  BY <1>1, <1>2

LEMMA OpenAfterwards ==
  ASSUME NEW L \in Seq(Entry), NEW e \in Entry, e.kind \notin {"answer", "failure"}
  PROVE  OpenLog(Append(L, e))
BY DEF OpenLog

LEMMA ActingBegins ==
  ASSUME NEW L \in Seq(Entry), NEW a \in StepActions
  PROVE  Acting(Append(L, [kind |-> "action", calls |-> a, allowed |-> ToSet(a)]), a, 0)
BY DEF Acting

LEMMA ActingGoesOn ==
  ASSUME NEW L \in Seq(Entry), NEW a, NEW n \in Nat, Acting(L, a, n),
         NEW e, e.kind = "observation" /\ e.call = a[n + 1]
  PROVE  Acting(Append(L, e), a, n + 1)
<1> DEFINE M == Append(L, e)
<1>1. /\ Len(M) = Len(L) + 1 /\ Len(L) \in Nat /\ M[Len(L) + 1] = e
      /\ \A i \in 1..Len(L) : M[i] = L[i]
  OBVIOUS
<1> HIDE DEF M
<1>2. Len(M) - (n + 1) = Len(L) - n /\ Len(L) - n \in 1..Len(L)
  BY <1>1 DEF Acting
<1>3. ASSUME NEW j \in 1..n + 1
      PROVE  M[Len(L) - n + j].kind = "observation" /\ M[Len(L) - n + j].call = a[j]
  <2>1. CASE j = n + 1
    <3>1. Len(L) - n + j = Len(L) + 1
      BY <1>1, <2>1
    <3> QED
      BY <1>1, <2>1, <3>1
  <2>2. CASE j \in 1..n
    <3>1. Len(L) - n + j \in 1..Len(L)
      BY <1>2, <2>2
    <3> QED
      BY <1>1, <2>2, <3>1 DEF Acting
  <2> QED
    BY <2>1, <2>2
<1> QED
  BY <1>1, <1>2, <1>3 DEF Acting, M

LEMMA ActingEnds ==
  ASSUME NEW L \in Seq(Entry), NEW a \in StepActions, Acting(L, a, Len(a))
  PROVE  Answered(L)
<1> DEFINE n == Len(a)
           m == Len(L) - n
<1>1. n \in Nat /\ Len(L) \in Nat /\ m \in 1..Len(L) /\ DOMAIN L = 1..Len(L)
  BY ActionsAreCalls DEF Acting
<1>2. SUFFICES ASSUME NEW c \in Call, NEW k \in DOMAIN L, Left(L, c, k) PROVE FALSE
  BY DEF Answered
<1>3. CASE k < m
  <2>1. m \in k + 1 .. Len(L)
    BY <1>1, <1>3
  <2>2. L[m].kind = "action"
    BY DEF Acting
  <2> QED
    BY <1>2, <2>1, <2>2 DEF Left
<1>4. CASE k = m
  <2>1. L[m].calls = a /\ \A j \in 1..n : L[m + j].kind = "observation" /\ L[m + j].call = a[j]
    BY DEF Acting
  <2>2. PICK i \in 1..n : a[i] = c
    <3>1. c \in ToSet(a) /\ DOMAIN a = 1..n
      BY <1>2, <1>4, <2>1, ActionsAreCalls DEF Left
    <3> QED
      BY <3>1 DEF ToSet
  <2>3. m + i \in k + 1 .. Len(L)
    BY <1>1, <1>4
  <2> QED
    BY <1>2, <2>1, <2>2, <2>3 DEF Left
<1>5. CASE k > m
  <2>1. k - m \in 1..n /\ m + (k - m) = k
    BY <1>1, <1>5
  <2>2. L[m + (k - m)].kind = "observation"
    BY <2>1 DEF Acting
  <2> QED
    BY <1>2, <2>1, <2>2 DEF Left
<1> QED
  BY <1>1, <1>3, <1>4, <1>5

\* The next call of the action has been allowed and is not answered yet.
LEMMA ActingWaits ==
  ASSUME NEW s \in Span, LinesOf(s) \in Seq(Entry), NEW a \in StepActions, NEW n \in Nat,
         n < Len(a), Acting(LinesOf(s), a, n)
  PROVE  LogOf(s)!Waiting(a[n + 1], TRUE)
<1> DEFINE L == LinesOf(s)
           k == Len(L) - n
<1>1. /\ Len(a) \in Nat /\ n + 1 \in 1..Len(a) /\ a[n + 1] \in ToSet(a)
      /\ \A i \in 1..n : a[i] # a[n + 1]
  <2>1. Len(a) \in Nat
    BY ActionsAreCalls
  <2>2. n + 1 \in 1..Len(a) /\ \A i \in 1..n : i \in 1..Len(a) /\ i # n + 1
    BY <2>1
  <2> QED
    BY <2>1, <2>2, ActionsAreCalls
<1>2. k \in DOMAIN L /\ L[k].kind = "action" /\ a[n + 1] \in ToSet(L[k].calls)
      /\ a[n + 1] \in L[k].allowed
  BY <1>1 DEF Acting
<1>3. ASSUME NEW j \in k + 1 .. Len(L)
      PROVE  L[j].kind # "action" /\ ~(L[j].kind = "observation" /\ L[j].call = a[n + 1])
  <2>1. j - k \in 1..n /\ k + (j - k) = j
    OBVIOUS
  <2>2. L[k + (j - k)].kind = "observation" /\ L[k + (j - k)].call = a[j - k]
    BY <2>1 DEF Acting
  <2> QED
    BY <1>1, <2>1, <2>2
<1> QED
  BY <1>2, <1>3 DEF LogOf!Waiting, LogOf!ToSet, LogOf!Observes, ToSet

(* Where a run is and what its lines say fit together.                      *)
SpanReady(s) ==
  /\ pc[s] \in Unstarted => LinesOf(s) = <<>>
  /\ pc[s] \in {"ready", "thinking", "acting", "tripped"} => OpenLog(LinesOf(s))
  /\ pc[s] \in {"ready", "thinking"} => Answered(LinesOf(s))
  /\ pc[s] = "acting" => Acting(LinesOf(s), action[s], observed[s])
SpansReady == \A s \in Span : SpanReady(s)
SpansHold == ControlHolds /\ SpansReady

LEMMA LinesTyped ==
  ASSUME FilesTyped
  PROVE  \A s \in Span : LinesOf(s) \in Seq(Entry)
<1> SUFFICES ASSUME NEW s \in Span PROVE LinesOf(s) \in Seq(Entry)
  OBVIOUS
<1>1. LinesOf(s) = Lines(trace[s[1]], s)
  BY DEF LinesOf, Lines
<1>2. s[1] \in Queries /\ trace[s[1]] \in Seq(Line(s[1]))
  BY SpanParts DEF FilesTyped
<1>3. [span |-> s, entry |-> [kind |-> "query"]] \in Line(s[1])
  BY DEF Line, Entry
<1>4. \A q \in Queries : \A file \in Seq(Line(q)) : \A x \in Line(q) : Lines(file, s) \in Seq(Entry)
  BY LinesAppend
<1> QED
  BY <1>1, <1>2, <1>3, <1>4

\* What a run that writes nothing, and what a run that writes, does to the lines.
Quiets == \A t \in Span : LinesOf(t)' = LinesOf(t)
Writes(s, e) ==
  LinesOf(s)' = Append(LinesOf(s), e) /\ \A t \in Span \ {s} : LinesOf(t)' = LinesOf(t)

LEMMA QuietStep == UNCHANGED trace => Quiets
BY DEF Quiets, LinesOf

LEMMA WritingStep ==
  \A s \in Span, e \in Entry : FilesTyped /\ Persist(s, e) => Writes(s, e)
<1> SUFFICES ASSUME NEW s \in Span, NEW e \in Entry, FilesTyped, Persist(s, e) PROVE Writes(s, e)
  OBVIOUS
<1> QED
  BY LinesGrow DEF Writes

\* The other runs stay where they are, or come up.
OthersStay(s) ==
  \A t \in Span \ {s} :
    /\ action'[t] = action[t] /\ observed'[t] = observed[t]
    /\ (pc'[t] = pc[t] \/ (pc[t] \in Unstarted /\ pc'[t] \in Unstarted))
OthersQuiet(s) == \A t \in Span \ {s} : LinesOf(t)' = LinesOf(t)

LEMMA OthersReady ==
  ASSUME SpansReady, NEW s \in Span, OthersStay(s), OthersQuiet(s), SpanReady(s)'
  PROVE  SpansReady'
<1> SUFFICES ASSUME NEW t \in Span \ {s} PROVE SpanReady(t)'
  BY DEF SpansReady
<1>1. SpanReady(t) /\ LinesOf(t)' = LinesOf(t) /\ action'[t] = action[t] /\ observed'[t] = observed[t]
      /\ (pc'[t] = pc[t] \/ (pc[t] \in Unstarted /\ pc'[t] \in Unstarted))
  BY DEF SpansReady, OthersStay, OthersQuiet
<1> QED
  BY <1>1 DEF SpanReady, Unstarted

LEMMA FinishIsAnEnd ==
  ASSUME SpansHold, NEW s \in Span, NEW how \in {"answered", "failed"}, Finish(s, how),
         UNCHANGED <<action, observed>>,
         pc[s] \in {"ready", "thinking", "acting", "tripped"}, how = "answered" => pc[s] = "thinking"
  PROVE  SpansReady' /\ LogOf(s)!Next /\ OthersQuiet(s)
<1> DEFINE e == IF how = "answered" THEN LogOf(s)!Answer ELSE LogOf(s)!Failure
<1>1. Goto(s, "closing") /\ Persist(s, e) /\ e \in Entry
  BY EntriesOf DEF Finish
<1>2. LinesOf(s)' = Append(LinesOf(s), e) /\ OthersQuiet(s)
  <2>1. FilesTyped
    BY DEF SpansHold, ControlHolds, TypeOK
  <2>2. Writes(s, e)
    BY <1>1, <2>1, WritingStep
  <2> QED
    BY <2>2 DEF Writes, OthersQuiet
<1>3. pc' = [pc EXCEPT ![s] = "closing"] /\ pc \in [Span -> Place]
  BY <1>1 DEF Goto, SpansHold, ControlHolds, TypeOK, RunsTyped
<1>4. SpanReady(s)'
  BY <1>3 DEF SpanReady, Unstarted
<1>5. OthersStay(s)
  BY <1>1, <1>3 DEF OthersStay
<1>6. SpansReady'
  BY <1>2, <1>4, <1>5, OthersReady DEF SpansHold
<1>7. SpanReady(s)
  BY DEF SpansHold, SpansReady
<1>8. LogOf(s)!Open /\ (how = "answered" => LogOf(s)!AllAnswered)
  BY <1>7, ViewsAgree DEF SpanReady
<1>9. LogOf(s)!Next
  <2>1. CASE how = "answered"
    BY <1>2, <1>8, <2>1 DEF LogOf!Next, LogOf!Finish
  <2>2. CASE how = "failed"
    BY <1>2, <1>8, <2>2 DEF LogOf!Next, LogOf!Fail
  <2> QED
    BY <2>1, <2>2
<1> QED
  BY <1>2, <1>6, <1>9

\* The steps of a run that write no line.
LEMMA QuietRunStepReady ==
  ASSUME SpansHold, NEW s \in Span,
         \/ BeginRun(s) \/ RunTool(s) \/ Delegate(s) \/ CloseSpan(s) \/ Leave(s)
         \/ Checkpoint(s) /\ ~Finish(s, "failed")
         \/ Think(s) /\ UNCHANGED trace /\ Goto(s, "closing")
  PROVE  SpansReady' /\ Quiets
<1>1. /\ pc \in [Span -> Place] /\ action \in [Span -> Seq(Call)] /\ observed \in [Span -> Nat]
      /\ SpanReady(s) /\ SpansReady /\ ControlHolds /\ \A p : At(s, p) => pc[s] = p
  BY DEF SpansHold, ControlHolds, TypeOK, RunsTyped, SpansReady, At
<1>2. Quiets
  <2>1. UNCHANGED trace
    BY DEF BeginRun, Checkpoint, RunTool, Delegate, CloseSpan, Leave
  <2> QED
    BY <2>1, QuietStep
<1>3. OthersStay(s)
  <2>1. CASE Delegate(s)
    BY <1>1, <2>1, DelegateStarts DEF Delegate, OthersStay, Unstarted
  <2>2. CASE ~Delegate(s)
    BY <1>1, <2>2 DEF BeginRun, Checkpoint, RunTool, CloseSpan, Leave, Goto, OthersStay, Think
  <2> QED
    BY <2>1, <2>2
<1>4. SpanReady(s)'
  <2>1. LinesOf(s)' = LinesOf(s)
    BY <1>2 DEF Quiets
  <2>2. CASE Delegate(s) \/ RunTool(s)
    <3>1. pc'[s] = pc[s] /\ UNCHANGED <<action, observed>>
      BY <1>1, <2>2, DelegateStarts DEF Delegate, RunTool
    <3> QED
      BY <1>1, <2>1, <3>1 DEF SpanReady
  <2>3. CASE BeginRun(s)
    <3>1. pc[s] = "starting" /\ pc'[s] = "opening"
      BY <1>1, <2>3 DEF BeginRun, Goto
    <3> QED
      BY <1>1, <2>1, <3>1 DEF SpanReady, Unstarted
  <2>4. CASE Checkpoint(s) /\ ~Finish(s, "failed")
    <3>1. pc[s] = "ready" /\ pc'[s] = "thinking"
      BY <1>1, <2>4 DEF Checkpoint, Goto
    <3> QED
      BY <1>1, <2>1, <3>1 DEF SpanReady, Unstarted
  <2>5. CASE CloseSpan(s) \/ Leave(s) \/ Goto(s, "closing")
    <3>1. pc'[s] \in Ended
      BY <1>1, <2>5 DEF CloseSpan, Leave, Goto, Ended
    <3> QED
      BY <3>1 DEF SpanReady, Unstarted, Ended
  <2> QED
    BY <2>2, <2>3, <2>4, <2>5
<1>5. OthersQuiet(s)
  BY <1>2 DEF Quiets, OthersQuiet
<1> QED
  BY <1>1, <1>2, <1>3, <1>4, <1>5, OthersReady

LEMMA RunStepReady ==
  ASSUME SpansHold, NEW s \in Span, RunStep(s)
  PROVE  /\ SpansReady'
         /\ Quiets \/ (LogOf(s)!Next /\ OthersQuiet(s))
<1>1. /\ pc \in [Span -> Place] /\ action \in [Span -> Seq(Call)] /\ observed \in [Span -> Nat]
      /\ SpanReady(s) /\ RunHolds(s) /\ SpansReady /\ FilesTyped /\ LinesOf(s) \in Seq(Entry)
      /\ \A p : At(s, p) => pc[s] = p
  BY LinesTyped DEF SpansHold, ControlHolds, TypeOK, RunsTyped, RunsHold, SpansReady, At
<1>2. CASE OpenSpan(s)
  <2> DEFINE e == LogOf(s)!Query
  <2>1. pc[s] = "opening" /\ Goto(s, "ready") /\ Persist(s, e) /\ UNCHANGED <<action, observed>>
    BY <1>1, <1>2 DEF OpenSpan
  <2>2. e = [kind |-> "query"] /\ e \in Entry
    BY EntriesOf DEF LogOf!Query
  <2>3. LinesOf(s)' = Append(LinesOf(s), e) /\ OthersQuiet(s)
    BY <1>1, <2>1, <2>2, WritingStep DEF Writes, OthersQuiet
  <2>4. LinesOf(s) = <<>> /\ LinesOf(s)' = <<e>>
    BY <1>1, <2>1, <2>3 DEF SpanReady, Unstarted
  <2>5. SpanReady(s)'
    <3>1. pc'[s] = "ready"
      BY <1>1, <2>1 DEF Goto
    <3>2. OpenLog(<<e>>) /\ Answered(<<e>>)
      BY <2>2 DEF OpenLog, Answered, Left
    <3> QED
      BY <2>4, <3>1, <3>2 DEF SpanReady, Unstarted
  <2>6. OthersStay(s)
    BY <1>1, <2>1 DEF OthersStay, Goto
  <2>7. LogOf(s)!Next
    BY <2>4 DEF LogOf!Next, LogOf!Ask
  <2> QED
    BY <1>1, <2>3, <2>5, <2>6, <2>7, OthersReady
<1>3. CASE /\ Think(s) /\ UNCHANGED outcome
           /\ \E a \in MayDecide(s) : action' = [action EXCEPT ![s] = a]
                                    /\ Persist(s, LogOf(s)!Action(a, ToSet(a)))
           /\ observed' = [observed EXCEPT ![s] = 0] /\ Goto(s, "acting")
  <2>1. PICK a \in MayDecide(s) : action' = [action EXCEPT ![s] = a]
                                 /\ Persist(s, LogOf(s)!Action(a, ToSet(a)))
    BY <1>3
  <2>2. a \in StepActions /\ pc[s] = "thinking"
    BY <1>1, <1>3 DEF MayDecide, StepActions, Think
  <2> DEFINE e == LogOf(s)!Action(a, ToSet(a))
  <2>3. e = [kind |-> "action", calls |-> a, allowed |-> ToSet(a)] /\ e \in Entry
    BY <2>2, EntriesOf DEF LogOf!Action
  <2>4. LinesOf(s)' = Append(LinesOf(s), e) /\ OthersQuiet(s)
    BY <1>1, <2>1, <2>3, WritingStep DEF Writes, OthersQuiet
  <2>5. SpanReady(s)'
    <3>1. pc'[s] = "acting" /\ action'[s] = a /\ observed'[s] = 0
      BY <1>1, <1>3, <2>1 DEF Goto
    <3>2. OpenLog(Append(LinesOf(s), e))
      BY <1>1, <2>3, OpenAfterwards
    <3>3. Acting(Append(LinesOf(s), e), a, 0)
      BY <1>1, <2>2, <2>3, ActingBegins
    <3> QED
      BY <2>4, <3>1, <3>2, <3>3 DEF SpanReady, Unstarted
  <2>6. OthersStay(s)
    BY <1>1, <1>3, <2>1 DEF OthersStay, Goto
  <2>7. LogOf(s)!Next
    <3>1. LogOf(s)!Open /\ LogOf(s)!AllAnswered
      BY <1>1, <2>2, ViewsAgree DEF SpanReady
    <3>2. ToSet(a) \in SUBSET LogOf(s)!ToSet(a)
      BY DEF ToSet, LogOf!ToSet
    <3>3. LogOf(s)!Act
      BY <2>2, <2>4, <3>1, <3>2 DEF LogOf!Act, StepActions
    <3> QED
      BY <3>3 DEF LogOf!Next
  <2> QED
    BY <1>1, <2>4, <2>5, <2>6, <2>7, OthersReady
<1>4. CASE Observe(s)
  <2> DEFINE n == observed[s]
             a == action[s]
             L == LinesOf(s)
  <2>1. PICK got \in {results[s][n + 1], "failed"} :
           /\ Persist(s, LogOf(s)!Observation(a[n + 1], got))
           /\ observed' = [observed EXCEPT ![s] = n + 1]
           /\ \/ Goto(s, IF n + 1 = Len(a) THEN "ready" ELSE "acting")
              \/ Goto(s, "tripped")
    BY <1>4 DEF Observe
  <2>2. pc[s] = "acting" /\ n < Len(a) /\ a \in StepActions /\ n \in Nat /\ Len(a) \in Nat /\ UNCHANGED action
    BY <1>1, <1>4, ActionsAreCalls DEF Observe, RunHolds
  <2>3. a[n + 1] \in Call /\ got \in Outcome
    <3>1. results[s] \in Seq(Outcome) /\ Len(results[s]) = Len(a)
      BY <1>4 DEF Observe, SpansHold, ControlHolds, TypeOK, RunsTyped
    <3> QED
      BY <2>2, <3>1, ActionsAreCalls DEF Outcome
  <2> DEFINE e == LogOf(s)!Observation(a[n + 1], got)
  <2>4. e = [kind |-> "observation", call |-> a[n + 1], got |-> got] /\ e \in Entry
    BY <2>3, EntriesOf DEF LogOf!Observation
  <2>5. LinesOf(s)' = Append(L, e) /\ OthersQuiet(s)
    BY <1>1, <2>1, <2>4, WritingStep DEF Writes, OthersQuiet
  <2>6. OpenLog(L) /\ Acting(L, a, n)
    BY <1>1, <2>2 DEF SpanReady
  <2>7. OpenLog(Append(L, e)) /\ Acting(Append(L, e), a, n + 1)
    <3>1. OpenLog(Append(L, e))
      BY <1>1, <2>4, OpenAfterwards
    <3>2. e.kind = "observation" /\ e.call = a[n + 1]
      BY <2>4
    <3> HIDE DEF e, a, n, L
    <3>3. Acting(Append(L, e), a, n + 1)
      BY <1>1, <2>2, <2>6, <3>2, ActingGoesOn DEF L
    <3> QED
      BY <3>1, <3>3
  <2>8. SpanReady(s)'
    <3>1. observed'[s] = n + 1 /\ action'[s] = a /\ LinesOf(s)' \in Seq(Entry)
      BY <1>1, <2>1, <2>2, <2>4, <2>5
    <3>2. CASE Goto(s, "tripped")
      BY <1>1, <2>5, <2>7, <3>1, <3>2 DEF SpanReady, Goto, Unstarted
    <3>3. CASE n + 1 # Len(a) /\ Goto(s, "acting")
      BY <1>1, <2>5, <2>7, <3>1, <3>3 DEF SpanReady, Goto, Unstarted
    <3>4. CASE n + 1 = Len(a) /\ Goto(s, "ready")
      <4>1. Answered(LinesOf(s)')
        BY <2>2, <2>5, <2>7, <3>1, <3>4, ActingEnds
      <4> QED
        BY <1>1, <2>5, <2>7, <3>1, <3>4, <4>1 DEF SpanReady, Goto, Unstarted
    <3> QED
      BY <2>1, <3>2, <3>3, <3>4
  <2>9. OthersStay(s)
    BY <1>1, <2>1, <2>2 DEF OthersStay, Goto
  <2>10. LogOf(s)!Next
    <3>1. LogOf(s)!Open /\ LogOf(s)!Waiting(a[n + 1], TRUE)
      BY <1>1, <2>2, <2>6, ViewsAgree, ActingWaits
    <3>2. LogOf(s)!Observe
      BY <2>3, <2>5, <3>1 DEF LogOf!Observe
    <3> QED
      BY <3>2 DEF LogOf!Next
  <2> QED
    BY <1>1, <2>5, <2>8, <2>9, <2>10, OthersReady
<1>5. CASE /\ (Checkpoint(s) \/ DropResults(s) \/ BreakerTrips(s)) /\ Finish(s, "failed")
  <2>1. pc[s] \in {"ready", "tripped", "acting"} /\ UNCHANGED <<action, observed>>
    BY <1>1, <1>5 DEF Checkpoint, DropResults, BreakerTrips
  <2> QED
    BY <1>5, <2>1, FinishIsAnEnd
<1>6. CASE Think(s) /\ Finish(s, "answered")
  <2>1. pc[s] = "thinking" /\ UNCHANGED <<action, observed>>
    BY <1>1, <1>6 DEF Think, Finish, Goto
  <2> QED
    BY <1>6, <2>1, FinishIsAnEnd
<1>7. CASE \/ BeginRun(s) \/ RunTool(s) \/ Delegate(s) \/ CloseSpan(s) \/ Leave(s)
           \/ Checkpoint(s) /\ ~Finish(s, "failed")
           \/ Think(s) /\ UNCHANGED trace /\ Goto(s, "closing")
  BY <1>7, QuietRunStepReady
<1> QED
  <2>1. CASE Think(s)
    BY <1>3, <1>6, <1>7, <2>1 DEF Think
  <2>2. CASE DropResults(s) \/ BreakerTrips(s)
    BY <1>5, <2>2 DEF DropResults, BreakerTrips
  <2> QED
    BY <1>2, <1>4, <1>5, <1>7, <2>1, <2>2 DEF RunStep

LEMMA NextReady ==
  ASSUME SpansHold, [Next]_vars
  PROVE  /\ SpansHold'
         /\ \A s \in Span : UNCHANGED LinesOf(s) \/ LogOf(s)!Next
<1>1. ControlHolds' /\ SpansReady /\ pc \in [Span -> Place]
  BY NextControlled DEF SpansHold, ControlHolds, TypeOK, RunsTyped
<1>2. ASSUME NEW s \in Span, RunStep(s)
      PROVE  SpansReady' /\ \A t \in Span : UNCHANGED LinesOf(t) \/ LogOf(t)!Next
  <2>1. SpansReady' /\ (Quiets \/ (LogOf(s)!Next /\ OthersQuiet(s)))
    BY <1>2, RunStepReady
  <2>2. CASE Quiets
    BY <2>1, <2>2 DEF Quiets
  <2>3. CASE LogOf(s)!Next /\ OthersQuiet(s)
    <3>1. ASSUME NEW t \in Span PROVE UNCHANGED LinesOf(t) \/ LogOf(t)!Next
      <4>1. CASE t = s
        BY <2>3, <4>1
      <4>2. CASE t # s
        BY <2>3, <4>2 DEF OthersQuiet
      <4> QED
        BY <4>1, <4>2
    <3> QED
      BY <2>1, <3>1
  <2> QED
    BY <2>1, <2>2, <2>3
<1>3. ASSUME Quiets, UNCHANGED <<action, observed>>,
             \A t \in Span : pc'[t] = pc[t] \/ (pc[t] \in Unstarted /\ pc'[t] \in Unstarted)
      PROVE  SpansReady' /\ \A t \in Span : UNCHANGED LinesOf(t) \/ LogOf(t)!Next
  <2>1. ASSUME NEW t \in Span PROVE SpanReady(t)'
    <3>1. /\ SpanReady(t) /\ LinesOf(t)' = LinesOf(t) /\ action'[t] = action[t] /\ observed'[t] = observed[t]
          /\ (pc'[t] = pc[t] \/ (pc[t] \in Unstarted /\ pc'[t] \in Unstarted))
      BY <1>1, <1>3 DEF SpansReady, Quiets
    <3> QED
      BY <3>1 DEF SpanReady, Unstarted
  <2> QED
    BY <1>3, <2>1 DEF SpansReady, Quiets
<1>4. CASE \E q \in Queries : Submit(q) \/ Hold(q)
  <2>1. PICK q \in Queries : Submit(q) \/ Hold(q)
    BY <1>4
  <2>2. UNCHANGED <<trace, action, observed>>
    BY <2>1 DEF Submit, Hold
  <2>3. \A t \in Span : pc'[t] = pc[t] \/ (pc[t] \in Unstarted /\ pc'[t] \in Unstarted)
    BY <1>1, <2>1 DEF Submit, Hold, At, Goto, Unstarted
  <2> QED
    BY <1>1, <1>3, <2>2, <2>3, QuietStep DEF SpansHold
<1>5. CASE RequestPause \/ RequestResume \/ RequestInterrupt \/ Consume \/ Quit \/ UNCHANGED vars
  <2>1. UNCHANGED <<run, trace>>
    BY <1>5 DEF RequestPause, RequestResume, RequestInterrupt, Request, Consume, Quit, vars
  <2>2. UNCHANGED <<pc, action, observed>>
    BY <2>1 DEF run
  <2> QED
    BY <1>1, <1>3, <2>1, <2>2, QuietStep DEF SpansHold
<1> QED
  BY <1>1, <1>2, <1>4, <1>5 DEF Next, ScreenStep, SpansHold

LEMMA InitReady == Init => SpansHold /\ \A s \in Span : LogOf(s)!Init
<1> SUFFICES ASSUME Init PROVE SpansHold /\ \A s \in Span : LogOf(s)!Init
  OBVIOUS
<1>1. \A s \in Span : LinesOf(s) = <<>>
  <2> SUFFICES ASSUME NEW s \in Span PROVE LinesOf(s) = <<>>
    OBVIOUS
  <2>1. LinesOf(s) = Lines(trace[s[1]], s)
    BY DEF LinesOf, Lines
  <2>2. trace[s[1]] = <<>>
    BY SpanParts DEF Init
  <2> QED
    BY <2>1, <2>2, LinesEmpty
<1>2. SpansReady
  BY <1>1 DEF Init, SpansReady, SpanReady, Unstarted
<1> QED
  BY <1>1, <1>2, InitControlled DEF SpansHold, LogOf!Init

(* Whatever the runs of a team write between one another's lines, those of  *)
(* one span are the trace of one run (delegation.py 79-94).                 *)
THEOREM SpansAreRuns == Spec => EverySpanIsARun
<1>1. Init => SpansHold /\ \A s \in Span : LogOf(s)!Init
  BY InitReady
<1>2. SpansHold /\ [Next]_vars => SpansHold'
  BY NextReady
<1>3. SpansHold /\ [Next]_vars =>
        [\A s \in Span : trace'[s[1]] # trace[s[1]] =>
                           UNCHANGED LinesOf(s) \/ LogOf(s)!Next]_trace
  BY NextReady
<1> QED
  BY <1>1, <1>2, <1>3, PTL DEF Spec, EverySpanIsARun

------------------------------------------------------------------------------
LEMMA LatestIs ==
  ASSUME NEW n \in Nat, NEW S \in SUBSET (1..n), S # {}
  PROVE  Latest(S) \in S /\ \A j \in S : j <= Latest(S)
<1> DEFINE T == {n - i : i \in S}
<1>1. \A i \in S : i \in 1..n /\ n - i \in 0..n /\ n - i \in T
  OBVIOUS
<1>2. T \in SUBSET (0..n) /\ T # {}
  BY <1>1
<1>3. PICK k \in T : \A j \in T : k <= j
  BY <1>2, Least
<1>4. PICK m \in S : k = n - m
  BY <1>3
<1>5. ASSUME NEW j \in S PROVE j <= m
  <2>1. n - j \in T /\ j \in 1..n /\ m \in 1..n
    BY <1>1
  <2>2. n - m <= n - j
    BY <1>3, <1>4, <2>1
  <2> QED
    BY <2>1, <2>2
<1> QED
  BY <1>5 DEF Latest

LEMMA LatestOnly ==
  ASSUME NEW n \in Nat, NEW S \in SUBSET (1..n), NEW k \in S, \A j \in S : j <= k
  PROVE  Latest(S) = k
<1>1. Latest(S) \in S /\ k <= Latest(S)
  BY LatestIs
<1>2. Latest(S) \in 1..n /\ k \in 1..n /\ Latest(S) <= k
  BY <1>1
<1> QED
  BY <1>1, <1>2

\* TraceNests of one line of a file, whichever file it is.
Owns(f, q, n) == {i \in 1..n : f[i].span = Orch(q)}
Acts(f, q, n) == {i \in Owns(f, q, n) : f[i].entry.kind = "action"}
Since(f, q, n) == Latest(Acts(f, q, n)) .. n
ToldOk(f, q, i) == /\ f[i].span = Orch(q)
                   /\ f[i].entry.kind = "observation"
                   /\ f[i].entry.got = "ok"
WorkerAnswer(f, i) == IsWorker(f[i].span) /\ f[i].entry.kind = "answer"
Told(f, q, n) == {i \in Since(f, q, n) : ToldOk(f, q, i)}
Answers(f, q, n) == {i \in Since(f, q, n) : WorkerAnswer(f, i)}
LineNests(f, q, n) ==
  /\ IsWorker(f[n].span) =>
       Owns(f, q, n) # {} /\ f[Latest(Owns(f, q, n))].entry.kind = "action"
  /\ f[n].span = Orch(q) /\ f[n].entry.kind = "observation" =>
       Cardinality(Told(f, q, n)) <= Cardinality(Answers(f, q, n))

LEMMA NestingOfLines ==
  /\ TraceNests <=> \A q \in Queries : \A n \in DOMAIN trace[q] : LineNests(trace[q], q, n)
  /\ TraceNests' <=> \A q \in Queries : \A n \in DOMAIN trace'[q] : LineNests(trace'[q], q, n)
BY DEF TraceNests, LineNests, Owns, Acts, Since, ToldOk, WorkerAnswer, Told, Answers,
       OwnLines, SinceAction

\* A line is told nothing of a past it does not have.
LineHolds(f, q, n) ==
  /\ LineNests(f, q, n)
  /\ f[n].span = Orch(q) /\ f[n].entry.kind = "observation" => Acts(f, q, n) # {}

\* Only the lines up to a line count.
LEMMA NestingSame ==
  ASSUME NEW q, NEW n \in Nat \ {0}, NEW f, NEW g, \A i \in 1..n : f[i] = g[i], LineHolds(f, q, n)
  PROVE  LineHolds(g, q, n)
<1>1. Owns(f, q, n) = Owns(g, q, n)
  BY DEF Owns
<1>2. Owns(f, q, n) \subseteq 1..n
  BY DEF Owns
<1>3. Acts(f, q, n) = Acts(g, q, n)
  BY <1>1, <1>2 DEF Acts
<1>4. Acts(f, q, n) # {} => Since(f, q, n) \subseteq 1..n /\ Since(g, q, n) = Since(f, q, n)
  <2>1. SUFFICES ASSUME Acts(f, q, n) # {} PROVE Latest(Acts(f, q, n)) \in 1..n
    BY <1>3 DEF Since
  <2>2. Acts(f, q, n) \in SUBSET (1..n)
    BY <1>2 DEF Acts
  <2> QED
    BY <2>1, <2>2, LatestIs
<1>5. Acts(f, q, n) # {} => Told(f, q, n) = Told(g, q, n) /\ Answers(f, q, n) = Answers(g, q, n)
  BY <1>4 DEF Told, Answers, ToldOk, WorkerAnswer
<1>6. Owns(f, q, n) # {} => Latest(Owns(f, q, n)) \in 1..n
  BY <1>2, LatestIs
<1>7. n \in 1..n /\ f[n] = g[n]
  OBVIOUS
<1> QED
  BY <1>1, <1>3, <1>5, <1>6, <1>7 DEF LineNests, LineHolds

\* One more line: what it adds to the sets.
Adds(g, q, f, x, n) ==
  q \in Queries /\ f \in Seq(Line(q)) /\ x \in Line(q) /\ g = Append(f, x) /\ n = Len(f)
Added(g, q, f, x, n) ==
  /\ n \in Nat /\ n + 1 \in Nat /\ Len(g) = n + 1 /\ g[n + 1] = x /\ g \in Seq(Line(q))
  /\ \A i \in 1..n : f[i] = g[i]
  /\ Owns(g, q, n + 1) = IF x.span = Orch(q) THEN Owns(f, q, n) \cup {n + 1} ELSE Owns(f, q, n)
  /\ Acts(g, q, n + 1) = IF x.span = Orch(q) /\ x.entry.kind = "action"
                         THEN Acts(f, q, n) \cup {n + 1} ELSE Acts(f, q, n)
  /\ Owns(f, q, n) \in SUBSET (1..n) /\ Acts(f, q, n) \in SUBSET (1..n)

LEMMA FileGrows ==
  ASSUME NEW q, NEW f, NEW x, NEW g, NEW n, Adds(g, q, f, x, n)
  PROVE  Added(g, q, f, x, n)
<1>1. /\ n \in Nat /\ n + 1 \in Nat /\ Len(g) = n + 1 /\ g[n + 1] = x /\ g \in Seq(Line(q))
      /\ \A i \in 1..n : f[i] = g[i]
  BY DEF Adds
<1>2. \A i \in 1..n + 1 : i \in 1..n \/ i = n + 1
  BY <1>1
<1>3. n + 1 \in 1..n + 1 /\ n + 1 \notin 1..n /\ 1..n \subseteq 1..n + 1
  BY <1>1
<1>4. Owns(g, q, n + 1) = IF x.span = Orch(q) THEN Owns(f, q, n) \cup {n + 1} ELSE Owns(f, q, n)
  BY <1>1, <1>2, <1>3 DEF Owns
<1>5. Owns(f, q, n) \in SUBSET (1..n)
  BY DEF Owns
<1>6. Acts(g, q, n + 1) = IF x.span = Orch(q) /\ x.entry.kind = "action"
                          THEN Acts(f, q, n) \cup {n + 1} ELSE Acts(f, q, n)
  BY <1>1, <1>3, <1>4, <1>5 DEF Acts
<1>7. Acts(f, q, n) \in SUBSET (1..n)
  BY <1>5 DEF Acts
<1> QED
  BY <1>1, <1>4, <1>5, <1>6, <1>7 DEF Added

Counts(g, q, f, x, n) ==
  Adds(g, q, f, x, n) /\ Acts(f, q, n) # {} /\ ~(x.span = Orch(q) /\ x.entry.kind = "action")
Counted(g, q, f, n) ==
  /\ Cardinality(Told(g, q, n + 1)) =
       IF ToldOk(g, q, n + 1) THEN Cardinality(Told(f, q, n)) + 1 ELSE Cardinality(Told(f, q, n))
  /\ Cardinality(Answers(g, q, n + 1)) =
       IF WorkerAnswer(g, n + 1) THEN Cardinality(Answers(f, q, n)) + 1
                                 ELSE Cardinality(Answers(f, q, n))
  /\ Cardinality(Told(f, q, n)) \in Nat /\ Cardinality(Answers(f, q, n)) \in Nat
LEMMA CountsGrow ==
  ASSUME NEW q, NEW f, NEW x, NEW g, NEW n, Counts(g, q, f, x, n)
  PROVE  Counted(g, q, f, n)
<1>0. Adds(g, q, f, x, n) /\ Acts(f, q, n) # {} /\ ~(x.span = Orch(q) /\ x.entry.kind = "action")
  BY DEF Counts
<1> DEFINE k == Latest(Acts(f, q, n))
<1>1. /\ n \in Nat /\ g[n + 1] = x /\ \A i \in 1..n : f[i] = g[i]
      /\ Acts(g, q, n + 1) = Acts(f, q, n)
      /\ Acts(f, q, n) \in SUBSET (1..n)
  <2>1. Added(g, q, f, x, n)
    BY <1>0, FileGrows
  <2> QED
    BY <1>0, <2>1 DEF Added
<1>2. k \in 1..n
  BY <1>0, <1>1, LatestIs
<1>3. Since(f, q, n) = k..n /\ Since(g, q, n + 1) = k..n + 1
  BY <1>1 DEF Since
<1> HIDE DEF k
<1>4. /\ k..n \subseteq 1..n /\ n + 1 \in k..n + 1 /\ n + 1 \notin k..n
      /\ k..n + 1 = (k..n) \cup {n + 1} /\ IsFiniteSet(k..n)
  <2>1. IsFiniteSet(k..n)
    BY <1>1, <1>2, FS_Interval
  <2> QED
    BY <1>1, <1>2, <2>1
<1>5. Told(g, q, n + 1) = IF ToldOk(g, q, n + 1) THEN Told(f, q, n) \cup {n + 1} ELSE Told(f, q, n)
  <2>1. \A i \in k..n : ToldOk(f, q, i) <=> ToldOk(g, q, i)
    BY <1>1, <1>4 DEF ToldOk
  <2> QED
    BY <1>3, <1>4, <2>1 DEF Told
<1>6. Answers(g, q, n + 1) = IF WorkerAnswer(g, n + 1) THEN Answers(f, q, n) \cup {n + 1}
                                                       ELSE Answers(f, q, n)
  <2>1. \A i \in k..n : WorkerAnswer(f, i) <=> WorkerAnswer(g, i)
    BY <1>1, <1>4 DEF WorkerAnswer
  <2> QED
    BY <1>3, <1>4, <2>1 DEF Answers
<1>7. /\ Told(f, q, n) \in SUBSET (k..n) /\ n + 1 \notin Told(f, q, n)
      /\ Answers(f, q, n) \in SUBSET (k..n) /\ n + 1 \notin Answers(f, q, n)
  BY <1>3, <1>4 DEF Told, Answers
<1>8. IsFiniteSet(Told(f, q, n)) /\ IsFiniteSet(Answers(f, q, n))
  BY <1>4, <1>7, FS_Subset
<1>9. /\ Cardinality(Told(f, q, n) \cup {n + 1}) = Cardinality(Told(f, q, n)) + 1
      /\ Cardinality(Answers(f, q, n) \cup {n + 1}) = Cardinality(Answers(f, q, n)) + 1
      /\ Cardinality(Told(f, q, n)) \in Nat /\ Cardinality(Answers(f, q, n)) \in Nat
  BY <1>7, <1>8, FS_AddElement, FS_CardinalityType
<1> QED
  BY <1>5, <1>6, <1>9 DEF Counted

\* The line of an action begins a new count.
Begins(g, q, f, x, n) == Adds(g, q, f, x, n) /\ x.span = Orch(q) /\ x.entry.kind = "action"
Begun(g, q, n) ==
  /\ Acts(g, q, n) # {} /\ Latest(Owns(g, q, n)) \in Acts(g, q, n)
  /\ Cardinality(Told(g, q, n)) = 0 /\ Cardinality(Answers(g, q, n)) = 0
LEMMA CountsBegin ==
  ASSUME NEW q, NEW f, NEW x, NEW g, NEW n, Begins(g, q, f, x, n)
  PROVE  Begun(g, q, n + 1)
<1>0. Adds(g, q, f, x, n) /\ x.span = Orch(q) /\ x.entry.kind = "action"
  BY DEF Begins
<1>1. /\ n \in Nat /\ g[n + 1] = x
      /\ Owns(g, q, n + 1) = Owns(f, q, n) \cup {n + 1} /\ Acts(g, q, n + 1) = Acts(f, q, n) \cup {n + 1}
      /\ Owns(f, q, n) \in SUBSET (1..n) /\ Acts(f, q, n) \in SUBSET (1..n)
  <2>1. Added(g, q, f, x, n)
    BY <1>0, FileGrows
  <2> QED
    BY <1>0, <2>1 DEF Added
<1>2. /\ Owns(g, q, n + 1) \in SUBSET (1..n + 1) /\ Acts(g, q, n + 1) \in SUBSET (1..n + 1)
      /\ \A j \in 1..n + 1 : j <= n + 1
  BY <1>1
<1>3. Latest(Owns(g, q, n + 1)) = n + 1 /\ Latest(Acts(g, q, n + 1)) = n + 1
  <2>1. n + 1 \in Nat /\ n + 1 \in Owns(g, q, n + 1) /\ n + 1 \in Acts(g, q, n + 1)
    BY <1>1
  <2>2. \A S \in SUBSET (1..n + 1) : n + 1 \in S => Latest(S) = n + 1
    BY <1>2, <2>1, LatestOnly
  <2> QED
    BY <1>2, <2>1, <2>2
<1>4. Since(g, q, n + 1) = {n + 1}
  BY <1>1, <1>3 DEF Since
<1>5. Told(g, q, n + 1) = {} /\ Answers(g, q, n + 1) = {}
  BY <1>0, <1>1, <1>4, SpanParts DEF Adds, Told, Answers, ToldOk, WorkerAnswer
<1> QED
  BY <1>1, <1>3, <1>5, FS_EmptySet DEF Begun

LEMMA AnswersAreCounted ==
  \A q, f : \A n \in Nat : Acts(f, q, n) # {} => Cardinality(Answers(f, q, n)) \in Nat
<1> SUFFICES ASSUME NEW q, NEW f, NEW n \in Nat, Acts(f, q, n) # {}
             PROVE  Cardinality(Answers(f, q, n)) \in Nat
  OBVIOUS
<1>1. Acts(f, q, n) \in SUBSET (1..n)
  BY DEF Acts, Owns
<1>2. Latest(Acts(f, q, n)) \in 1..n
  BY <1>1, LatestIs
<1>3. IsFiniteSet(Since(f, q, n))
  BY <1>2, FS_Interval DEF Since
<1>4. Answers(f, q, n) \in SUBSET Since(f, q, n)
  BY DEF Answers
<1> QED
  BY <1>3, <1>4, FS_Subset, FS_CardinalityType

OkAmong(r, n) == {i \in 1..n : r[i] = "ok"}

LEMMA OkCounts ==
  ASSUME NEW r, NEW n \in Nat
  PROVE  /\ IsFiniteSet(OkAmong(r, n)) /\ Cardinality(OkAmong(r, n)) \in Nat
         /\ Cardinality(OkAmong(r, n + 1)) = IF r[n + 1] = "ok" THEN Cardinality(OkAmong(r, n)) + 1
                                                                ELSE Cardinality(OkAmong(r, n))
         /\ \A t : (\A i \in 1..n : t[i] = r[i]) => OkAmong(t, n) = OkAmong(r, n)
         /\ \A m \in 0..n : Cardinality(OkAmong(r, m)) <= Cardinality(OkAmong(r, n))
<1>1. IsFiniteSet(1..n)
  BY FS_Interval
<1>2. OkAmong(r, n) \in SUBSET (1..n) /\ n + 1 \notin 1..n
  BY DEF OkAmong
<1>3. IsFiniteSet(OkAmong(r, n))
  BY <1>1, <1>2, FS_Subset
<1>4. Cardinality(OkAmong(r, n)) \in Nat
  BY <1>3, FS_CardinalityType
<1>5. Cardinality(OkAmong(r, n + 1)) = IF r[n + 1] = "ok" THEN Cardinality(OkAmong(r, n)) + 1
                                                          ELSE Cardinality(OkAmong(r, n))
  <2>1. \A i : i \in 1..n + 1 <=> i \in 1..n \/ i = n + 1
    OBVIOUS
  <2>2. OkAmong(r, n + 1) = IF r[n + 1] = "ok" THEN OkAmong(r, n) \cup {n + 1} ELSE OkAmong(r, n)
    BY <2>1 DEF OkAmong
  <2>3. Cardinality(OkAmong(r, n) \cup {n + 1}) = Cardinality(OkAmong(r, n)) + 1
    BY <1>2, <1>3, FS_AddElement
  <2> QED
    BY <2>2, <2>3
<1>6. \A t : (\A i \in 1..n : t[i] = r[i]) => OkAmong(t, n) = OkAmong(r, n)
  BY DEF OkAmong
<1>7. ASSUME NEW m \in 0..n PROVE Cardinality(OkAmong(r, m)) <= Cardinality(OkAmong(r, n))
  <2>1. OkAmong(r, m) \in SUBSET OkAmong(r, n)
    BY DEF OkAmong
  <2> QED
    BY <1>3, <2>1, FS_Subset
<1> QED
  BY <1>3, <1>4, <1>5, <1>6, <1>7

\* What a pool comes back with: one more result.
LEMMA OkAppended ==
  ASSUME NEW r \in Seq(Outcome), NEW x \in Outcome
  PROVE  /\ Cardinality(OkAmong(r, Len(r))) \in Nat
         /\ Cardinality(OkAmong(Append(r, x), Len(Append(r, x)))) =
              Cardinality(OkAmong(r, Len(r))) + (IF x = "ok" THEN 1 ELSE 0)
<1> DEFINE t == Append(r, x)
           n == Len(r)
<1>1. n \in Nat /\ Len(t) = n + 1 /\ t[n + 1] = x /\ \A i \in 1..n : t[i] = r[i]
  OBVIOUS
<1> HIDE DEF t, n
<1>2. OkAmong(t, n) = OkAmong(r, n) /\ Cardinality(OkAmong(r, n)) \in Nat
  BY <1>1, OkCounts
<1>3. Cardinality(OkAmong(t, n + 1)) = IF t[n + 1] = "ok" THEN Cardinality(OkAmong(t, n)) + 1
                                                          ELSE Cardinality(OkAmong(t, n))
  BY <1>1, OkCounts
<1> QED
  BY <1>1, <1>2, <1>3 DEF t, n

(* While an orchestrator's action runs, its latest line is that action       *)
(* until it records an observation; it has recorded no more successes than  *)
(* its pool has come back with, and these, with the one that a worker which *)
(* has answered is about to bring, are no more than the workers' answers.   *)
Carries(w) == IsWorker(w) /\ pc[w] \in {"closing", "leaving"} /\ outcome[w] = "answered"
Carried(q) == IF \E w \in Span : w[1] = q /\ Carries(w) THEN 1 ELSE 0
TeamActs(q, f, n, r) ==
  /\ Acts(f, q, n) # {}
  /\ observed[Orch(q)] = 0 => Latest(Owns(f, q, n)) \in Acts(f, q, n)
  /\ Cardinality(Told(f, q, n)) <= Cardinality(OkAmong(r, observed[Orch(q)]))
  /\ Cardinality(OkAmong(r, Len(r))) + Carried(q) <= Cardinality(Answers(f, q, n))
TeamReady(q) ==
  pc[Orch(q)] = "acting" => TeamActs(q, trace[q], Len(trace[q]), results[Orch(q)])
TeamsReady == \A q \in Queries : TeamReady(q)
LinesNest == \A q \in Queries : \A n \in 1..Len(trace[q]) : LineHolds(trace[q], q, n)
NestHolds == ControlHolds /\ TeamsReady /\ LinesNest

LEMMA NestIsNesting == NestHolds => TraceNests
<1>1. FilesTyped => \A q \in Queries : DOMAIN trace[q] = 1..Len(trace[q])
  BY DEF FilesTyped
<1> QED
  BY <1>1, NestingOfLines DEF NestHolds, ControlHolds, TypeOK, LinesNest, LineHolds

\* A team of which nothing changes but that a worker brings its answer no more.
LEMMA TeamStays ==
  ASSUME NEW q \in Queries, TeamReady(q), trace'[q] = trace[q],
         pc'[Orch(q)] = "acting" => /\ pc[Orch(q)] = "acting" /\ observed'[Orch(q)] = observed[Orch(q)]
                                    /\ results'[Orch(q)] = results[Orch(q)],
         \A w \in Span : w[1] = q => (Carries(w)' => Carries(w)),
         NestHolds
  PROVE  TeamReady(q)'
<1> DEFINE o == Orch(q)
           f == trace[q]
           n == Len(trace[q])
           r == results[o]
<1>1. SUFFICES ASSUME pc'[o] = "acting" PROVE TeamActs(q, f, n, r)'
  BY DEF TeamReady
<1>2. TeamActs(q, f, n, r) /\ observed'[o] = observed[o] /\ results'[o] = results[o]
  BY <1>1 DEF TeamReady
<1>3. Carried(q)' \in 0..1 /\ Carried(q) \in 0..1 /\ Carried(q)' <= Carried(q)
  BY DEF Carried
<1>4. /\ Cardinality(OkAmong(r, Len(r))) \in Nat
      /\ Cardinality(Answers(f, q, n)) \in Nat
  <2>1. o \in Span /\ r \in Seq(Outcome) /\ f \in Seq(Line(q))
    BY SpanParts DEF NestHolds, ControlHolds, TypeOK, RunsTyped, FilesTyped
  <2>2. Len(r) \in Nat /\ n \in Nat
    BY <2>1
  <2>3. Cardinality(OkAmong(r, Len(r))) \in Nat
    BY <2>2, OkCounts
  <2> QED
    BY <1>2, <2>2, <2>3, AnswersAreCounted DEF TeamActs
<1>5. Cardinality(OkAmong(r, Len(r))) + Carried(q)' <= Cardinality(Answers(f, q, n))
  BY <1>2, <1>3, <1>4 DEF TeamActs
<1>6. f' = f /\ n' = n /\ r' = r
  BY <1>2
<1> QED
  BY <1>2, <1>5, <1>6 DEF TeamActs

\* A line that is persisted: the file it is added to, and the other files.
Written(s, e) == s \in Span /\ e \in Entry /\ Persist(s, e) /\ NestHolds
Row(s, e) == [span |-> s, entry |-> e]
LEMMA PersistAdds ==
  \A s, e : Written(s, e) =>
    /\ Adds(trace'[s[1]], s[1], trace[s[1]], Row(s, e), Len(trace[s[1]]))
    /\ \A p \in Queries \ {s[1]} : trace'[p] = trace[p]
<1> SUFFICES ASSUME NEW s, NEW e, Written(s, e)
             PROVE  /\ Adds(trace'[s[1]], s[1], trace[s[1]], Row(s, e), Len(trace[s[1]]))
                    /\ \A p \in Queries \ {s[1]} : trace'[p] = trace[p]
  OBVIOUS
<1>1. s \in Span /\ e \in Entry /\ Persist(s, e) /\ FilesTyped
  BY DEF Written, NestHolds, ControlHolds, TypeOK
<1>2. /\ trace'[s[1]] = Append(trace[s[1]], Row(s, e))
      /\ \A p \in Queries \ {s[1]} : trace'[p] = trace[p]
  BY <1>1, LinesGrow DEF Row
<1>3. s[1] \in Queries /\ trace[s[1]] \in Seq(Line(s[1])) /\ Row(s, e) \in Line(s[1])
  BY <1>1, SpanParts DEF FilesTyped, Line, Row
<1> QED
  BY <1>2, <1>3 DEF Adds

LEMMA LinesGoOn ==
  ASSUME NEW s, NEW e, Written(s, e), LineHolds(trace'[s[1]], s[1], Len(trace[s[1]]) + 1)
  PROVE  LinesNest'
<1> DEFINE q == s[1]
           f == trace[q]
           g == trace'[q]
           n == Len(f)
<1>1. Adds(g, q, f, Row(s, e), n) /\ \A p \in Queries \ {q} : trace'[p] = trace[p]
  BY PersistAdds
<1>2. Added(g, q, f, Row(s, e), n)
  BY <1>1, FileGrows
<1>3. n \in Nat /\ Len(g) = n + 1 /\ \A i \in 1..n : f[i] = g[i]
  BY <1>2 DEF Added
<1>4. LinesNest
  BY DEF Written, NestHolds
<1>5. ASSUME NEW m \in 1..n PROVE LineHolds(g, q, m)
  <2>1. m \in Nat \ {0} /\ \A i \in 1..m : f[i] = g[i]
    BY <1>3
  <2>2. q \in Queries
    BY <1>1 DEF Adds
  <2>3. LineHolds(f, q, m)
    BY <1>4, <2>2 DEF LinesNest
  <2> HIDE DEF f, g, n, q
  <2> QED
    BY <2>1, <2>3, NestingSame
<1>6. \A m \in 1..Len(g) : LineHolds(g, q, m)
  <2>1. \A m \in 1..n + 1 : m \in 1..n \/ m = n + 1
    BY <1>3
  <2> QED
    BY <1>3, <1>5, <2>1
<1>7. ASSUME NEW p \in Queries \ {q}, NEW m \in 1..Len(trace'[p]) PROVE LineHolds(trace'[p], p, m)
  BY <1>1, <1>4, <1>7 DEF LinesNest
<1> QED
  BY <1>6, <1>7 DEF LinesNest

\* A worker's line.
WorkerWrites(s, e) ==
  /\ Written(s, e) /\ IsWorker(s) /\ Running(s)
  /\ pc'[Orch(s[1])] = pc[Orch(s[1])] /\ observed'[Orch(s[1])] = observed[Orch(s[1])]
  /\ results'[Orch(s[1])] = results[Orch(s[1])]
  /\ e.kind = "answer" \/ \A w \in Span : w[1] = s[1] => (Carries(w)' => Carries(w))
LEMMA WorkerLineNests ==
  ASSUME NEW s, NEW e, WorkerWrites(s, e)
  PROVE  LinesNest' /\ TeamReady(s[1])'
<1> DEFINE q == s[1]
           o == Orch(q)
           f == trace[q]
           g == trace'[q]
           n == Len(f)
           x == Row(s, e)
           r == results[o]
<1>1. Written(s, e) /\ s \in Span /\ NestHolds /\ q \in Queries /\ o \in Span /\ o # s
  BY SpanParts DEF WorkerWrites, Written
<1>2. Adds(g, q, f, x, n)
  BY <1>1, PersistAdds
<1>3. Added(g, q, f, x, n)
  BY <1>2, FileGrows
<1>4. pc[o] = "acting" /\ Len(r) < Len(action[o]) /\ observed[o] = 0
  <2>1. WorkerInTurn(s) /\ RunHolds(o) /\ observed[o] \in Nat /\ r \in Seq(Outcome)
        /\ action[o] \in Seq(Call)
    BY <1>1 DEF WorkerWrites, NestHolds, ControlHolds, WorkersInTurn, RunsHold, TypeOK, RunsTyped
  <2>2. pc[o] = "acting" /\ Len(r) < Len(action[o])
    BY <2>1 DEF WorkerInTurn, WorkerWrites
  <2>3. observed[o] > 0 => Len(r) = Len(action[o])
    BY <2>1, <2>2 DEF RunHolds
  <2> QED
    BY <2>1, <2>2, <2>3
<1>5. TeamActs(q, f, n, r)
  BY <1>1, <1>4 DEF NestHolds, TeamsReady, TeamReady
<1>6. /\ x.span = s /\ x.entry = e /\ x.span # o
      /\ n \in Nat /\ g[n + 1] = x /\ Len(g) = n + 1 /\ \A i \in 1..n : f[i] = g[i]
      /\ Owns(g, q, n + 1) = Owns(f, q, n) /\ Acts(g, q, n + 1) = Acts(f, q, n)
      /\ Acts(f, q, n) \in SUBSET (1..n) /\ Acts(f, q, n) # {}
      /\ Latest(Owns(f, q, n)) \in Acts(f, q, n)
  <2>1. x.span = s /\ x.entry = e /\ x.span # o
    BY <1>1 DEF Row
  <2> QED
    BY <1>3, <1>4, <1>5, <2>1 DEF Added, TeamActs
<1> HIDE DEF q, f, g, n, x, r, o
<1>7. LineHolds(g, q, n + 1)
  <2>1. Owns(g, q, n + 1) # {} /\ Latest(Owns(g, q, n + 1)) \in 1..n
    BY <1>6 DEF Acts
  <2>2. f[Latest(Owns(f, q, n))].entry.kind = "action"
    BY <1>6 DEF Acts
  <2>3. g[Latest(Owns(g, q, n + 1))].entry.kind = "action"
    BY <1>6, <2>1, <2>2
  <2> QED
    BY <1>6, <2>1, <2>3 DEF LineHolds, LineNests, o
<1>8. /\ Cardinality(Told(g, q, n + 1)) = Cardinality(Told(f, q, n))
      /\ Cardinality(Answers(g, q, n + 1)) =
           Cardinality(Answers(f, q, n)) + (IF e.kind = "answer" THEN 1 ELSE 0)
      /\ Cardinality(Told(f, q, n)) \in Nat /\ Cardinality(Answers(f, q, n)) \in Nat
  <2>1. ~(x.span = Orch(q) /\ x.entry.kind = "action")
    BY <1>6 DEF o
  <2>2. ~ToldOk(g, q, n + 1)
    BY <1>6 DEF ToldOk, o
  <2>3. WorkerAnswer(g, n + 1) <=> e.kind = "answer"
    BY <1>6 DEF WorkerAnswer, WorkerWrites
  <2>4. Counts(g, q, f, x, n)
    BY <1>2, <1>6, <2>1 DEF Counts
  <2>5. Counted(g, q, f, n)
    BY <2>4, CountsGrow
  <2> QED
    BY <2>2, <2>3, <2>5 DEF Counted
<1>9. Carried(q)' <= Carried(q) + (IF e.kind = "answer" THEN 1 ELSE 0)
  <2>1. Carried(q)' \in 0..1 /\ Carried(q) \in 0..1
    BY DEF Carried, q
  <2>2. e.kind # "answer" => (Carried(q)' = 1 => Carried(q) = 1)
    BY DEF WorkerWrites, Carried, q
  <2> QED
    BY <2>1, <2>2
<1>10. r' = r /\ observed'[o] = observed[o] /\ r \in Seq(Outcome)
  BY <1>1 DEF r, o, q, WorkerWrites, NestHolds, ControlHolds, TypeOK, RunsTyped
<1>11. Cardinality(OkAmong(r, Len(r))) \in Nat
  <2>1. Len(r) \in Nat
    BY <1>10
  <2> QED
    BY <2>1, OkCounts
<1>12. Cardinality(OkAmong(r, Len(r))) + Carried(q)' <= Cardinality(Answers(g, q, n + 1))
  <2>1. Cardinality(OkAmong(r, Len(r))) + Carried(q) <= Cardinality(Answers(f, q, n))
    BY <1>5 DEF TeamActs
  <2>2. Carried(q)' \in 0..1 /\ Carried(q) \in 0..1
    BY DEF Carried
  <2> QED
    BY <1>8, <1>9, <1>11, <2>1, <2>2
<1>13. TeamReady(q)'
  <2>1. /\ Acts(g, q, n + 1) # {}
        /\ observed'[o] = 0 => Latest(Owns(g, q, n + 1)) \in Acts(g, q, n + 1)
        /\ Cardinality(Told(g, q, n + 1)) <= Cardinality(OkAmong(r, observed'[o]))
    BY <1>5, <1>6, <1>8, <1>10 DEF TeamActs, o
  <2>2. q' = q /\ n + 1 = Len(g) /\ g = trace'[q] /\ r = results'[o]
    BY <1>6, <1>10 DEF q, g, r
  <2> QED
    BY <1>12, <2>1, <2>2 DEF TeamReady, TeamActs, o
<1>14. LinesNest'
  <2>1. LineHolds(trace'[s[1]], s[1], Len(trace[s[1]]) + 1)
    BY <1>7 DEF g, q, n, f
  <2> QED
    BY <1>1, <2>1, LinesGoOn
<1> QED
  BY <1>13, <1>14 DEF q

\* An orchestrator's line that records no observation.
LEMMA PlainLineNests ==
  ASSUME NEW s, NEW e, Written(s, e), ~IsWorker(s), e.kind # "observation"
  PROVE  LinesNest'
<1> DEFINE q == s[1]
           f == trace[q]
           g == trace'[q]
           n == Len(f)
<1>1. Added(g, q, f, Row(s, e), n)
  BY PersistAdds, FileGrows
<1>2. g[n + 1] = Row(s, e) /\ Row(s, e).span = s /\ Row(s, e).entry = e
  BY <1>1 DEF Added, Row
<1>3. LineHolds(g, q, n + 1)
  BY <1>2 DEF LineHolds, LineNests
<1> QED
  BY <1>3, LinesGoOn

\* An orchestrator decides on an action: its pool is idle, and comes back with
\* nothing yet.
OrchActs(s, e) ==
  /\ Written(s, e) /\ ~IsWorker(s) /\ e.kind = "action" /\ PoolIdle(s[1])
  /\ results'[s] = <<>> /\ observed'[s] = 0
  /\ \A w \in Span : IsWorker(w) => pc'[w] = pc[w]
LEMMA OrchActionNests ==
  ASSUME NEW s, NEW e, OrchActs(s, e)
  PROVE  LinesNest' /\ TeamReady(s[1])'
<1> DEFINE q == s[1]
           f == trace[q]
           g == trace'[q]
           n == Len(f)
<1>1. Written(s, e) /\ ~IsWorker(s) /\ e.kind = "action" /\ s \in Span /\ s = Orch(q) /\ q \in Queries
  BY SpanParts DEF OrchActs, Written
<1>2. LinesNest'
  BY <1>1, PlainLineNests
<1>3. Adds(g, q, f, Row(s, e), n)
  BY <1>1, PersistAdds
<1>4. Begins(g, q, f, Row(s, e), n)
  BY <1>1, <1>3 DEF Begins, Row
<1>5. Begun(g, q, n + 1)
  BY <1>4, CountsBegin
<1>6. Added(g, q, f, Row(s, e), n)
  BY <1>3, FileGrows
<1>7. Len(g) = n + 1
  BY <1>6 DEF Added
<1>8. Carried(q)' = 0
  <2>1. ASSUME NEW w \in Span, w[1] = q, Carries(w)' PROVE FALSE
    BY <2>1 DEF OrchActs, PoolIdle, Running, Carries
  <2> QED
    BY <2>1 DEF Carried
<1>9. Cardinality(OkAmong(<<>>, 0)) = 0
  BY FS_EmptySet DEF OkAmong
<1>10. TeamReady(q)'
  <2>1. results'[Orch(q)] = <<>> /\ observed'[Orch(q)] = 0 /\ Len(<<>>) = 0
    BY <1>1 DEF OrchActs
  <2> QED
    BY <1>5, <1>7, <1>8, <1>9, <2>1 DEF TeamReady, TeamActs, Begun
<1> QED
  BY <1>2, <1>10

\* An orchestrator records what its pool came back with, or a failure.
OrchObserves(s, e) ==
  /\ Written(s, e) /\ ~IsWorker(s) /\ pc[s] = "acting"
  /\ e.kind = "observation" /\ e.got \in {results[s][observed[s] + 1], "failed"}
  /\ Len(results[s]) = Len(action[s]) /\ observed[s] < Len(action[s])
  /\ observed'[s] = observed[s] + 1 /\ results'[s] = results[s]
  /\ \A w \in Span : IsWorker(w) => pc'[w] = pc[w] /\ outcome'[w] = outcome[w]
LEMMA OrchObservationNests ==
  ASSUME NEW s, NEW e, OrchObserves(s, e)
  PROVE  LinesNest' /\ TeamReady(s[1])'
<1> DEFINE q == s[1]
           f == trace[q]
           g == trace'[q]
           n == Len(f)
           r == results[s]
           k == observed[s]
<1>1. /\ Written(s, e) /\ e.kind = "observation" /\ s \in Span /\ s = Orch(q) /\ q \in Queries
      /\ NestHolds
  BY SpanParts DEF OrchObserves, Written
<1>2. k \in Nat /\ k + 1 \in Nat /\ Len(r) \in Nat /\ k + 1 <= Len(r) /\ r \in Seq(Outcome)
  <2>1. k \in Nat /\ r \in Seq(Outcome) /\ action[s] \in Seq(Call)
    BY <1>1 DEF NestHolds, ControlHolds, TypeOK, RunsTyped
  <2> QED
    BY <2>1 DEF OrchObserves
<1>3. Adds(g, q, f, Row(s, e), n)
  BY <1>1, PersistAdds
<1>4. Added(g, q, f, Row(s, e), n)
  BY <1>3, FileGrows
<1>5. TeamActs(q, f, n, r)
  BY <1>1 DEF NestHolds, TeamsReady, TeamReady, OrchObserves
<1>6. Counts(g, q, f, Row(s, e), n)
  BY <1>1, <1>3, <1>5 DEF Counts, TeamActs, Row
<1>7. Counted(g, q, f, n)
  BY <1>6, CountsGrow
<1>8. /\ g[n + 1] = Row(s, e) /\ Len(g) = n + 1 /\ Row(s, e).span = s /\ Row(s, e).entry = e
      /\ Acts(g, q, n + 1) = Acts(f, q, n)
  BY <1>1, <1>4 DEF Added, Row
<1>9. (ToldOk(g, q, n + 1) <=> e.got = "ok") /\ ~WorkerAnswer(g, n + 1)
  BY <1>1, <1>8 DEF ToldOk, WorkerAnswer
<1>10. /\ Cardinality(OkAmong(r, k)) \in Nat /\ Cardinality(OkAmong(r, k + 1)) \in Nat
       /\ Cardinality(OkAmong(r, k + 1)) = IF r[k + 1] = "ok" THEN Cardinality(OkAmong(r, k)) + 1
                                                              ELSE Cardinality(OkAmong(r, k))
       /\ Cardinality(OkAmong(r, k + 1)) <= Cardinality(OkAmong(r, Len(r)))
       /\ Cardinality(OkAmong(r, Len(r))) \in Nat
  <2>1. k + 1 \in 0..Len(r)
    BY <1>2
  <2> HIDE DEF r, k
  <2>2. /\ Cardinality(OkAmong(r, k)) \in Nat /\ Cardinality(OkAmong(r, k + 1)) \in Nat
        /\ Cardinality(OkAmong(r, Len(r))) \in Nat
    BY <1>2, OkCounts
  <2>3. Cardinality(OkAmong(r, k + 1)) = IF r[k + 1] = "ok" THEN Cardinality(OkAmong(r, k)) + 1
                                                              ELSE Cardinality(OkAmong(r, k))
    BY <1>2, OkCounts
  <2>4. Cardinality(OkAmong(r, k + 1)) <= Cardinality(OkAmong(r, Len(r)))
    BY <1>2, <2>1, OkCounts
  <2> QED
    BY <2>2, <2>3, <2>4
<1>11. Carried(q)' = Carried(q) /\ Carried(q) \in 0..1
  <2>1. \A w \in Span : Carries(w)' <=> Carries(w)
    BY DEF Carries, OrchObserves
  <2> QED
    BY <2>1 DEF Carried
<1>12. e.got = "ok" => r[k + 1] = "ok"
  BY DEF OrchObserves
<1>13. /\ Cardinality(Told(g, q, n + 1)) <= Cardinality(OkAmong(r, k + 1))
       /\ Cardinality(Answers(g, q, n + 1)) = Cardinality(Answers(f, q, n))
       /\ Cardinality(Answers(f, q, n)) \in Nat /\ Cardinality(Told(g, q, n + 1)) \in Nat
  <2>1. Cardinality(Told(f, q, n)) <= Cardinality(OkAmong(r, k))
    BY <1>1, <1>5 DEF TeamActs
  <2> HIDE DEF f, g, n, r, k, q
  <2> QED
    BY <1>7, <1>9, <1>10, <1>12, <2>1 DEF Counted
<1>14. Cardinality(OkAmong(r, Len(r))) + Carried(q) <= Cardinality(Answers(f, q, n))
  BY <1>5 DEF TeamActs
<1>15. Cardinality(Told(g, q, n + 1)) <= Cardinality(Answers(g, q, n + 1))
  BY <1>10, <1>11, <1>13, <1>14
<1>16. Acts(g, q, n + 1) # {}
  BY <1>5, <1>8 DEF TeamActs
<1>17. LinesNest'
  <2>1. ~IsWorker(g[n + 1].span)
    BY <1>8 DEF OrchObserves
  <2>2. LineHolds(g, q, n + 1)
    BY <1>15, <1>16, <2>1 DEF LineHolds, LineNests
  <2> QED
    BY <1>1, <2>2, LinesGoOn
<1>18. TeamReady(q)'
  <2>1. observed'[Orch(q)] = k + 1 /\ results'[Orch(q)] = r /\ k + 1 # 0
    BY <1>1, <1>2 DEF OrchObserves
  <2>2. Cardinality(OkAmong(r, Len(r))) + Carried(q)' <= Cardinality(Answers(g, q, n + 1))
    BY <1>11, <1>13, <1>14
  <2> QED
    BY <1>8, <1>13, <1>16, <2>1, <2>2 DEF TeamReady, TeamActs
<1> QED
  BY <1>17, <1>18

\* What a step leaves of the teams it is not about.
TeamQuiet(q) ==
  /\ trace'[q] = trace[q]
  /\ pc'[Orch(q)] = "acting" => /\ pc[Orch(q)] = "acting" /\ observed'[Orch(q)] = observed[Orch(q)]
                                /\ results'[Orch(q)] = results[Orch(q)]
  /\ \A w \in Span : w[1] = q => (Carries(w)' => Carries(w))
LEMMA QuietTeams ==
  ASSUME NestHolds
  PROVE  \A q \in Queries : TeamQuiet(q) => TeamReady(q)'
<1> SUFFICES ASSUME NEW q \in Queries, TeamQuiet(q) PROVE TeamReady(q)'
  OBVIOUS
<1>1. TeamReady(q)
  BY DEF NestHolds, TeamsReady
<1> QED
  BY <1>1, TeamStays DEF TeamQuiet

\* A step of a run touches no span of another query.
LEMMA StepsOfOneQuery ==
  ASSUME TypeOK, NEW s \in Span, RunStep(s)
  PROVE  \A t \in Span : t[1] # s[1] => /\ pc'[t] = pc[t] /\ outcome'[t] = outcome[t]
                                       /\ observed'[t] = observed[t] /\ results'[t] = results[t]
<1> SUFFICES ASSUME NEW t \in Span, t[1] # s[1]
             PROVE  /\ pc'[t] = pc[t] /\ outcome'[t] = outcome[t]
                    /\ observed'[t] = observed[t] /\ results'[t] = results[t]
  OBVIOUS
<1>1. /\ pc \in [Span -> Place] /\ results \in [Span -> Seq(Outcome)] /\ observed \in [Span -> Nat]
      /\ outcome \in [Span -> {"none", "answered", "failed", "raised"}]
      /\ t # s /\ Orch(s[1]) # t
  BY SpanParts DEF TypeOK, RunsTyped
<1>2. CASE Delegate(s)
  <2>1. <<s[1], Used(s[1]) + 1>> # t
    OBVIOUS
  <2> QED
    BY <1>1, <1>2, <2>1 DEF Delegate, Goto
<1>3. CASE Leave(s)
  BY <1>1, <1>3 DEF Leave, Goto
<1>4. CASE BeginRun(s) \/ OpenSpan(s) \/ CloseSpan(s) \/ Observe(s) \/ RunTool(s)
  BY <1>1, <1>4 DEF BeginRun, OpenSpan, CloseSpan, Observe, RunTool, ComesBack, Goto
<1>5. CASE Checkpoint(s) \/ BreakerTrips(s) \/ Think(s) \/ DropResults(s)
  BY <1>1, <1>5 DEF Checkpoint, BreakerTrips, Think, DropResults, Finish, Goto
<1> QED
  BY <1>2, <1>3, <1>4, <1>5 DEF RunStep

LEMMA StepWritesOneFile ==
  ASSUME NestHolds, NEW s \in Span, RunStep(s)
  PROVE  \A p \in Queries \ {s[1]} : trace'[p] = trace[p]
<1> SUFFICES ASSUME NEW p \in Queries \ {s[1]} PROVE trace'[p] = trace[p]
  OBVIOUS
<1>1. s[1] \in Queries /\ trace = [q \in Queries |-> trace[q]]
  BY SpanParts DEF NestHolds, ControlHolds, TypeOK, FilesTyped
<1>2. UNCHANGED trace \/ \E e : Persist(s, e)
  BY DEF RunStep, BeginRun, OpenSpan, Checkpoint, Think, RunTool, Delegate, Observe, DropResults,
         BreakerTrips, CloseSpan, Leave, Finish
<1> QED
  BY <1>1, <1>2 DEF Persist

\* What is left to show of a step of a run.
TeamGoesOn(s) == LinesNest' /\ TeamReady(s[1])'
LEMMA QuietRunNests ==
  ASSUME NestHolds, NEW s \in Span, UNCHANGED trace, TeamQuiet(s[1])
  PROVE  TeamGoesOn(s)
<1>1. TeamReady(s[1])'
  BY QuietTeams, SpanParts
<1>2. LinesNest'
  BY DEF NestHolds, LinesNest
<1> QED
  BY <1>1, <1>2 DEF TeamGoesOn

LEMMA FinishNests ==
  ASSUME NestHolds, NEW s \in Span, NEW how \in {"answered", "failed"}, Finish(s, how), Running(s),
         UNCHANGED <<results, observed>>
  PROVE  TeamGoesOn(s)
<1> DEFINE e == IF how = "answered" THEN LogOf(s)!Answer ELSE LogOf(s)!Failure
<1>1. /\ Persist(s, e) /\ e \in Entry /\ pc \in [Span -> Place]
      /\ outcome \in [Span -> {"none", "answered", "failed", "raised"}]
      /\ pc' = [pc EXCEPT ![s] = "closing"] /\ outcome' = [outcome EXCEPT ![s] = how]
  BY EntriesOf DEF Finish, Goto, NestHolds, ControlHolds, TypeOK, RunsTyped
<1>2. Written(s, e)
  BY <1>1 DEF Written
<1>3. e.kind = IF how = "answered" THEN "answer" ELSE "failure"
  BY DEF LogOf!Answer, LogOf!Failure
<1>4. CASE ~IsWorker(s)
  <2>1. LinesNest'
    BY <1>2, <1>3, <1>4, PlainLineNests
  <2>2. pc'[Orch(s[1])] # "acting"
    BY <1>1, <1>4, SpanParts
  <2> QED
    BY <2>1, <2>2 DEF TeamGoesOn, TeamReady
<1>5. CASE IsWorker(s)
  <2>1. Orch(s[1]) # s /\ Orch(s[1]) \in Span
    BY <1>5, SpanParts
  <2>2. e.kind = "answer" \/ \A w \in Span : w[1] = s[1] => (Carries(w)' => Carries(w))
    BY <1>1, <1>3 DEF Carries
  <2>3. WorkerWrites(s, e)
    BY <1>1, <1>2, <1>5, <2>1, <2>2 DEF WorkerWrites
  <2> QED
    BY <2>3, WorkerLineNests DEF TeamGoesOn
<1> QED
  BY <1>4, <1>5

\* A pool comes back with one more result; a worker that has answered brings it.
ComesToOrch(q, got) ==
  /\ NestHolds /\ q \in Queries /\ pc[Orch(q)] = "acting" /\ observed[Orch(q)] = 0
  /\ got \in Outcome /\ results'[Orch(q)] = Append(results[Orch(q)], got)
  /\ observed'[Orch(q)] = 0 /\ trace'[q] = trace[q]
  /\ Carried(q)' + (IF got = "ok" THEN 1 ELSE 0) <= Carried(q)
LEMMA ResultComesBack ==
  ASSUME NEW q, NEW got, ComesToOrch(q, got)
  PROVE  TeamReady(q)'
<1> DEFINE o == Orch(q)
           f == trace[q]
           n == Len(f)
           r == results[o]
           t == results'[o]
<1>1. TeamActs(q, f, n, r) /\ o \in Span /\ r \in Seq(Outcome) /\ got \in Outcome /\ t = Append(r, got)
  BY SpanParts DEF ComesToOrch, NestHolds, TeamsReady, TeamReady, ControlHolds, TypeOK, RunsTyped
<1>2. /\ Cardinality(OkAmong(r, Len(r))) \in Nat
      /\ Cardinality(OkAmong(t, Len(t))) =
           Cardinality(OkAmong(r, Len(r))) + (IF got = "ok" THEN 1 ELSE 0)
  BY <1>1, OkAppended
<1>3. OkAmong(t, 0) = {} /\ OkAmong(r, 0) = {}
  BY DEF OkAmong
<1>4. Carried(q)' \in 0..1 /\ Carried(q) \in 0..1
  BY DEF Carried
<1>7. n \in Nat
  BY DEF ComesToOrch, NestHolds, ControlHolds, TypeOK, FilesTyped
<1>5. Cardinality(Answers(f, q, n)) \in Nat
  BY <1>1, <1>7, AnswersAreCounted DEF TeamActs
<1>6. Cardinality(OkAmong(t, Len(t))) + Carried(q)' <= Cardinality(Answers(f, q, n))
  <2>1. Cardinality(OkAmong(r, Len(r))) + Carried(q) <= Cardinality(Answers(f, q, n))
    BY <1>1 DEF TeamActs
  <2> QED
    BY <1>2, <1>4, <1>5, <2>1 DEF ComesToOrch
<1> QED
  BY <1>1, <1>3, <1>6 DEF TeamReady, TeamActs, ComesToOrch

LEMMA RunStepNests ==
  ASSUME NestHolds, NEW s \in Span, RunStep(s)
  PROVE  TeamGoesOn(s)
<1> DEFINE o == Orch(s[1])
<1>1. /\ pc \in [Span -> Place] /\ results \in [Span -> Seq(Outcome)] /\ observed \in [Span -> Nat]
      /\ outcome \in [Span -> {"none", "answered", "failed", "raised"}]
      /\ action \in [Span -> Seq(Call)]
      /\ ControlHolds /\ TeamsReady /\ RunHolds(s) /\ RunHolds(o) /\ s[1] \in Queries /\ o \in Span
      /\ (IsWorker(s) <=> s # o) /\ (IsWorker(s) => WorkerInTurn(s))
  BY SpanParts DEF NestHolds, ControlHolds, TypeOK, RunsTyped, RunsHold, WorkersInTurn
<1>2. \A p : At(s, p) => pc[s] = p /\ (IsWorker(s) \/ PoolIdle(s[1]))
  BY DEF At
<1>3. \A p \in Place \ {"off", "over"} : At(s, p) => Running(s)
  BY DEF At, Running
<1>4. CASE BeginRun(s) \/ CloseSpan(s) \/ (Checkpoint(s) /\ ~Finish(s, "failed"))
  <2>1. UNCHANGED <<trace, results, observed, outcome>>
    BY <1>4, <1>1 DEF BeginRun, CloseSpan, Checkpoint
  <2>2. PICK p \in {"opening", "leaving", "thinking"} :
          pc' = [pc EXCEPT ![s] = p] /\ (p = "leaving" => pc[s] = "closing")
    BY <1>4, <1>2 DEF BeginRun, CloseSpan, Checkpoint, Opening, Goto
  <2>3. TeamQuiet(s[1])
    BY <1>1, <2>1, <2>2 DEF TeamQuiet, Carries
  <2> QED
    BY <2>1, <2>3, QuietRunNests
<1>5. CASE OpenSpan(s)
  <2> DEFINE e == LogOf(s)!Query
  <2>1. e \in Entry /\ e.kind = "query"
    BY EntriesOf DEF LogOf!Query
  <2>2. /\ Written(s, e) /\ pc' = [pc EXCEPT ![s] = "ready"] /\ UNCHANGED <<results, observed, outcome>>
        /\ Running(s)
    BY <1>5, <1>3, <2>1 DEF OpenSpan, Written, Goto, Place
  <2> HIDE DEF e
  <2>3. CASE ~IsWorker(s)
    BY <1>1, <2>1, <2>2, <2>3, PlainLineNests DEF TeamGoesOn, TeamReady
  <2>4. CASE IsWorker(s)
    <3>1. WorkerWrites(s, e)
      BY <1>1, <2>2, <2>4 DEF WorkerWrites, Carries
    <3> QED
      BY <3>1, WorkerLineNests DEF TeamGoesOn
  <2> QED
    BY <2>3, <2>4
<1>6. CASE \/ Checkpoint(s) /\ Finish(s, "failed")
           \/ Think(s) /\ Finish(s, "answered")
           \/ DropResults(s) \/ BreakerTrips(s)
  <2>1. Running(s) /\ UNCHANGED <<results, observed>>
    BY <1>1, <1>3, <1>6 DEF Checkpoint, Think, DropResults, BreakerTrips, Place, Finish, Goto
  <2>2. Finish(s, "failed") \/ Finish(s, "answered")
    BY <1>6 DEF DropResults, BreakerTrips
  <2> QED
    BY <2>1, <2>2, FinishNests
<1>7. CASE Think(s) /\ ~Finish(s, "answered") /\ ~Goto(s, "acting")
  <2>1. /\ pc' = [pc EXCEPT ![s] = "closing"] /\ outcome' = [outcome EXCEPT ![s] = "raised"]
        /\ UNCHANGED <<results, observed, trace>>
    BY <1>7 DEF Think, Goto
  <2>2. TeamQuiet(s[1])
    BY <1>1, <2>1 DEF TeamQuiet, Carries
  <2> QED
    BY <2>1, <2>2, QuietRunNests
<1>8. CASE Think(s) /\ Goto(s, "acting")
  <2>1. PICK a \in MayDecide(s) : Persist(s, LogOf(s)!Action(a, ToSet(a)))
    BY <1>1, <1>8 DEF Think, Finish, Goto
  <2> DEFINE e == LogOf(s)!Action(a, ToSet(a))
  <2>2. a \in StepActions
    BY <2>1 DEF MayDecide, StepActions
  <2>3. e \in Entry /\ e.kind = "action"
    BY <2>2, EntriesOf DEF LogOf!Action
  <2>4. /\ pc' = [pc EXCEPT ![s] = "acting"] /\ results' = [results EXCEPT ![s] = <<>>]
        /\ observed' = [observed EXCEPT ![s] = 0] /\ outcome' = outcome
        /\ Running(s) /\ (IsWorker(s) \/ PoolIdle(s[1]))
    BY <1>1, <1>2, <1>3, <1>8 DEF Think, Finish, Goto, Place
  <2>5. Written(s, e)
    BY <2>1, <2>3 DEF Written
  <2> HIDE DEF e
  <2>6. CASE ~IsWorker(s)
    <3>1. OrchActs(s, e)
      BY <1>1, <2>3, <2>4, <2>5, <2>6 DEF OrchActs
    <3> QED
      BY <3>1, OrchActionNests DEF TeamGoesOn
  <2>7. CASE IsWorker(s)
    <3>1. WorkerWrites(s, e)
      BY <1>1, <2>4, <2>5, <2>7 DEF WorkerWrites, Carries
    <3> QED
      BY <3>1, WorkerLineNests DEF TeamGoesOn
  <2> QED
    BY <2>6, <2>7
<1>9. CASE Delegate(s)
  <2>1. /\ IsWorker(NextWorker(s)) /\ pc[NextWorker(s)] = "off" /\ NextWorker(s) \in Span
        /\ pc' = [pc EXCEPT ![NextWorker(s)] = "starting"] /\ NextWorker(s) # s
        /\ s = o
    BY <1>1, <1>9, DelegateStarts
  <2>2. UNCHANGED <<trace, results, observed, outcome>>
    BY <1>9 DEF Delegate
  <2> HIDE DEF NextWorker
  <2>3. TeamQuiet(s[1])
    BY <1>1, <2>1, <2>2 DEF TeamQuiet, Carries
  <2> QED
    BY <2>2, <2>3, QuietRunNests
<1>10. CASE Observe(s)
  <2>1. PICK got \in {results[s][observed[s] + 1], "failed"} :
          Persist(s, LogOf(s)!Observation(action[s][observed[s] + 1], got))
    BY <1>10 DEF Observe
  <2> DEFINE e == LogOf(s)!Observation(action[s][observed[s] + 1], got)
  <2>2. /\ pc[s] = "acting" /\ Len(results[s]) = Len(action[s]) /\ observed[s] < Len(action[s])
        /\ observed' = [observed EXCEPT ![s] = @ + 1] /\ UNCHANGED <<results, outcome>> /\ Running(s)
        /\ \E p \in {"ready", "acting", "tripped"} : pc' = [pc EXCEPT ![s] = p]
    BY <1>10, <1>1, <1>2 DEF Observe, Goto, Running
  <2>3. action[s][observed[s] + 1] \in Call /\ got \in Outcome
    BY <1>1, <2>1, <2>2 DEF Outcome
  <2>4. e \in Entry /\ e.kind = "observation" /\ e.got = got
    BY <2>3, EntriesOf DEF LogOf!Observation
  <2>5. Written(s, e)
    BY <2>1, <2>4 DEF Written
  <2> HIDE DEF e
  <2>6. CASE ~IsWorker(s)
    <3>1. OrchObserves(s, e)
      BY <1>1, <2>1, <2>2, <2>4, <2>5, <2>6 DEF OrchObserves
    <3> QED
      BY <3>1, OrchObservationNests DEF TeamGoesOn
  <2>7. CASE IsWorker(s)
    <3>1. WorkerWrites(s, e)
      BY <1>1, <2>2, <2>5, <2>7 DEF WorkerWrites, Carries
    <3> QED
      BY <3>1, WorkerLineNests DEF TeamGoesOn
  <2> QED
    BY <2>6, <2>7
<1>11. CASE RunTool(s)
  <2>1. PICK got \in (IF IsWorker(s) THEN Outcome ELSE {"failed"}) : ComesBack(s, got)
    BY <1>11 DEF RunTool
  <2>2. /\ UNCHANGED <<pc, observed, outcome, trace, action>> /\ got \in Outcome
        /\ results' = [results EXCEPT ![s] = Append(@, got)]
        /\ pc[s] = "acting" /\ Len(results[s]) < Len(action[s])
    BY <1>11, <1>2, <2>1 DEF RunTool, Outcome, ComesBack, Waiting
  <2>3. CASE IsWorker(s)
    <3>1. TeamQuiet(s[1])
      BY <1>1, <2>2, <2>3 DEF TeamQuiet, Carries
    <3> QED
      BY <2>2, <3>1, QuietRunNests
  <2>4. CASE ~IsWorker(s)
    <3> DEFINE q == s[1]
               r == results[s]
    <3>1. got = "failed" /\ r \in Seq(Outcome) /\ results'[Orch(q)] = Append(r, got) /\ s = Orch(q)
      BY <1>1, <2>1, <2>2, <2>4
    <3>2. observed[s] = 0
      <4>1. observed[s] \in Nat /\ (observed[s] > 0 => Len(r) = Len(action[s]))
            /\ Len(r) \in Nat /\ Len(action[s]) \in Nat
        BY <1>1, <2>2, <3>1 DEF RunHolds
      <4> QED
        BY <2>2, <4>1
    <3>3. Carried(q)' = Carried(q) /\ Carried(q) \in 0..1
      BY <2>2 DEF Carried, Carries
    <3>4. ComesToOrch(q, got)
      BY <1>1, <2>2, <3>1, <3>2, <3>3 DEF ComesToOrch
    <3>6. TeamReady(q)'
      BY <3>4, ResultComesBack
    <3>5. LinesNest'
      BY <2>2 DEF NestHolds, LinesNest
    <3> QED
      BY <3>5, <3>6 DEF TeamGoesOn
  <2> QED
    BY <2>3, <2>4
<1>12. CASE Leave(s)
  <2>1. /\ pc[s] = "leaving" /\ pc' = [pc EXCEPT ![s] = "over"] /\ UNCHANGED <<outcome, trace>>
        /\ observed' = [observed EXCEPT ![s] = 0] /\ Running(s)
    BY <1>2, <1>12 DEF Leave, Goto, Running
  <2>2. CASE ~IsWorker(s)
    <3>1. TeamQuiet(s[1])
      BY <1>1, <2>1, <2>2 DEF TeamQuiet, Carries
    <3> QED
      BY <2>1, <3>1, QuietRunNests
  <2>3. CASE IsWorker(s)
    <3> DEFINE q == s[1]
               r == results[o]
               got == Returned(outcome[s])
    <3>1. /\ results'[o] = Append(r, got) /\ got \in Outcome
          /\ (got = "ok" <=> outcome[s] = "answered")
      BY <1>1, <1>12, <2>3 DEF Leave, Returned, Outcome
    <3>2. pc[o] = "acting" /\ Len(r) < Len(action[o]) /\ s[2] = Used(q)
      BY <1>1, <2>1, <2>3 DEF WorkerInTurn
    <3>3. observed[o] = 0
      <4>1. observed[o] \in Nat /\ (observed[o] > 0 => Len(r) = Len(action[o]))
            /\ Len(r) \in Nat /\ Len(action[o]) \in Nat
        BY <1>1, <3>2 DEF RunHolds
      <4> QED
        BY <3>2, <4>1
    <3>4. Carried(q)' = 0
      <4>1. ASSUME NEW w \in Span, w[1] = q, Carries(w)' PROVE FALSE
        <5>1. w # s /\ Carries(w) /\ IsWorker(w) /\ Running(w)
          BY <1>1, <2>1, <4>1 DEF Carries, Running
        <5>2. w[2] = Used(q)
          BY <1>1, <4>1, <5>1 DEF ControlHolds, WorkersInTurn, WorkerInTurn
        <5> QED
          BY <3>2, <4>1, <5>1, <5>2, SpanParts
      <4> QED
        BY <4>1 DEF Carried
    <3>5. got = "ok" => Carried(q) = 1
      BY <2>1, <2>3, <3>1 DEF Carried, Carries
    <3>6. observed'[o] = 0
      BY <1>1, <2>1, <2>3, <3>3
    <3>7. Carried(q) \in 0..1
      BY DEF Carried
    <3>8. ComesToOrch(q, got)
      BY <1>1, <2>1, <3>1, <3>2, <3>3, <3>4, <3>5, <3>6, <3>7 DEF ComesToOrch
    <3>9. TeamReady(q)'
      BY <3>8, ResultComesBack
    <3>10. LinesNest'
      BY <2>1 DEF NestHolds, LinesNest
    <3> QED
      BY <3>9, <3>10 DEF TeamGoesOn
  <2> QED
    BY <2>2, <2>3
<1> QED
  BY <1>4, <1>5, <1>6, <1>7, <1>8, <1>9, <1>10, <1>11, <1>12 DEF RunStep, Checkpoint, Think

LEMMA NextNests ==
  ASSUME NestHolds, [Next]_vars
  PROVE  NestHolds'
<1>1. ControlHolds' /\ pc \in [Span -> Place] /\ ControlHolds /\ TeamsReady
  BY NextControlled DEF NestHolds, ControlHolds, TypeOK, RunsTyped
<1>2. ASSUME NEW s \in Span, RunStep(s) PROVE LinesNest' /\ TeamsReady'
  <2>1. LinesNest' /\ TeamReady(s[1])'
    BY <1>2, RunStepNests DEF TeamGoesOn
  <2>2. ASSUME NEW p \in Queries \ {s[1]} PROVE TeamReady(p)'
    <3>1. trace'[p] = trace[p]
      BY <1>2, StepWritesOneFile
    <3>2. \A t \in Span : t[1] = p =>
            /\ pc'[t] = pc[t] /\ outcome'[t] = outcome[t]
            /\ observed'[t] = observed[t] /\ results'[t] = results[t]
      BY <1>1, <1>2, StepsOfOneQuery DEF ControlHolds
    <3>3. TeamQuiet(p)
      BY <3>1, <3>2, SpanParts DEF TeamQuiet, Carries
    <3> QED
      BY <3>3, QuietTeams
  <2> QED
    BY <2>1, <2>2 DEF TeamsReady
<1>3. ASSUME UNCHANGED <<trace, outcome, observed, results>>,
             \A t \in Span : pc'[t] # pc[t] => pc'[t] \in {"building", "starting"}
      PROVE  LinesNest' /\ TeamsReady'
  <2>1. \A q \in Queries : TeamQuiet(q)
    BY <1>3, SpanParts DEF TeamQuiet, Carries
  <2> QED
    BY <1>3, <2>1, QuietTeams DEF NestHolds, LinesNest, TeamsReady
<1>4. CASE \E q \in Queries : Submit(q) \/ Hold(q)
  <2>1. PICK q \in Queries : Submit(q) \/ Hold(q)
    BY <1>4
  <2>2. \A t \in Span : pc'[t] # pc[t] => pc'[t] \in {"building", "starting"}
    BY <1>1, <2>1 DEF Submit, Hold, Goto
  <2>3. UNCHANGED <<trace, outcome, observed, results>>
    BY <2>1 DEF Submit, Hold
  <2> QED
    BY <1>1, <1>3, <2>2, <2>3 DEF NestHolds
<1>5. CASE RequestPause \/ RequestResume \/ RequestInterrupt \/ Consume \/ Quit \/ UNCHANGED vars
  <2>1. UNCHANGED <<run, trace>>
    BY <1>5 DEF RequestPause, RequestResume, RequestInterrupt, Request, Consume, Quit, vars
  <2>2. UNCHANGED <<trace, outcome, observed, results>> /\ \A t \in Span : pc'[t] = pc[t]
    BY <2>1 DEF run
  <2> QED
    BY <1>1, <1>3, <2>2 DEF NestHolds
<1> QED
  BY <1>1, <1>2, <1>4, <1>5 DEF Next, ScreenStep, NestHolds

LEMMA InitNests == Init => NestHolds
<1> SUFFICES ASSUME Init PROVE NestHolds
  OBVIOUS
<1>1. TeamsReady
  BY SpanParts DEF Init, TeamsReady, TeamReady
<1>2. LinesNest
  BY DEF Init, LinesNest
<1> QED
  BY <1>1, <1>2, InitControlled DEF NestHolds

(* A worker writes only while the orchestrator's latest line is the action  *)
(* that called it, and the orchestrator is told "ok" no more often than     *)
(* workers have answered since that action, however many queries overlap    *)
(* and however the waits time out (delegation.py 94-123, scheduler.py       *)
(* 100-102).                                                                *)
THEOREM TracesNest == Spec => []TraceNests
<1>1. Init => NestHolds
  BY InitNests
<1>2. NestHolds /\ [Next]_vars => NestHolds'
  BY NextNests
<1>3. NestHolds => TraceNests
  BY NestIsNesting
<1> QED
  BY <1>1, <1>2, <1>3, PTL DEF Spec

------------------------------------------------------------------------------
\* What is on its way to the panels.
Mail == {inbox[i] : i \in DOMAIN inbox}
News(s, kind) == [span |-> s, kind |-> kind]

LEMMA MailOf ==
  ASSUME ScreenTyped
  PROVE  /\ Mail \subseteq Event
         /\ inbox = <<>> <=> Mail = {}
         /\ inbox # <<>> => Head(inbox) \in Mail
         /\ \A q : Free(q) <=> \A ev \in Mail : ev.span[1] # q
<1>1. inbox \in Seq(Event)
  BY DEF ScreenTyped
<1>2. DOMAIN inbox = 1..Len(inbox) /\ Len(inbox) \in Nat
  BY <1>1
<1>3. inbox # <<>> => 1 \in DOMAIN inbox /\ Head(inbox) = inbox[1]
  BY <1>1, <1>2
<1>4. inbox = <<>> => DOMAIN inbox = {}
  BY <1>2
<1>5. Mail \subseteq Event
  BY <1>1, <1>2 DEF Mail
<1> QED
  BY <1>3, <1>4, <1>5 DEF Mail, Free

LEMMA MailSent ==
  ASSUME ScreenTyped, NEW s, NEW kind, Emit(s, kind)
  PROVE  /\ app => Mail' = Mail \cup {News(s, kind)}
         /\ ~app => Mail' = Mail
<1>1. inbox \in Seq(Event)
  BY DEF ScreenTyped
<1>2. CASE app
  <2> DEFINE ev == News(s, kind)
             n == Len(inbox)
  <2>1. inbox' = Append(inbox, ev)
    BY <1>2 DEF Emit, News
  <2>2. /\ n \in Nat /\ DOMAIN inbox = 1..n /\ DOMAIN inbox' = 1..n + 1
        /\ inbox'[n + 1] = ev /\ \A i \in 1..n : inbox'[i] = inbox[i]
    BY <1>1, <2>1
  <2>3. \A i : i \in 1..n + 1 <=> i \in 1..n \/ i = n + 1
    BY <2>2
  <2> HIDE DEF ev, n
  <2>4. Mail' = Mail \cup {ev}
    BY <2>2, <2>3 DEF Mail
  <2> QED
    BY <1>2, <2>4 DEF ev
<1>3. CASE ~app
  BY <1>3 DEF Emit, Mail
<1> QED
  BY <1>2, <1>3

\* Each query has at most one event on its way, and its thread waits for it.
OneEach == \A i, j \in DOMAIN inbox : inbox[i].span[1] = inbox[j].span[1] => i = j
TellsOf(ev) ==
  /\ ev.kind = "RunStarted" => pc[ev.span] = "opening"
  /\ ev.kind = "SpanOpened" => pc[ev.span] = "ready"
  /\ ev.kind = "SpanClosed" => pc[ev.span] = "leaving"
InboxHolds == (~app => inbox = <<>>) /\ OneEach /\ \A ev \in Mail : TellsOf(ev)

LEMMA MailTaken ==
  ASSUME ScreenTyped, OneEach, inbox # <<>>, inbox' = Tail(inbox)
  PROVE  Mail' = Mail \ {Head(inbox)} /\ OneEach'
<1> DEFINE n == Len(inbox)
<1>1. inbox \in Seq(Event) /\ n \in Nat /\ n # 0
  BY DEF ScreenTyped
<1>2. /\ DOMAIN inbox = 1..n /\ DOMAIN inbox' = 1..n - 1 /\ Head(inbox) = inbox[1]
      /\ \A i \in 1..n - 1 : inbox'[i] = inbox[i + 1]
  BY <1>1
<1>3. \A i \in 1..n : i = 1 \/ (i - 1 \in 1..n - 1 /\ (i - 1) + 1 = i)
  BY <1>1
<1>4. \A i \in 1..n - 1 : i + 1 \in 1..n /\ i + 1 # 1
  BY <1>1
<1>5. 1 \in 1..n
  BY <1>1
<1> HIDE DEF n
<1>6. OneEach'
  <2>1. \A i, j \in 1..n - 1 : i + 1 = j + 1 => i = j
    BY <1>1
  <2>2. ASSUME NEW i \in 1..n - 1, NEW j \in 1..n - 1, inbox'[i].span[1] = inbox'[j].span[1]
        PROVE  i = j
    <3>1. /\ i + 1 \in DOMAIN inbox /\ j + 1 \in DOMAIN inbox
          /\ inbox[i + 1].span[1] = inbox[j + 1].span[1]
      BY <1>2, <1>4, <2>2
    <3>2. i + 1 = j + 1
      BY <3>1 DEF OneEach
    <3> QED
      BY <2>1, <3>2
  <2> QED
    BY <1>2, <2>2 DEF OneEach
<1>7. \A i \in 1..n : inbox[i] = inbox[1] => i = 1
  BY <1>2, <1>5 DEF OneEach
<1>8. ASSUME NEW ev \in Mail' PROVE ev \in Mail \ {Head(inbox)}
  <2>1. PICK i \in 1..n - 1 : ev = inbox'[i]
    BY <1>2 DEF Mail
  <2> QED
    BY <1>2, <1>4, <1>7, <2>1 DEF Mail
<1>9. ASSUME NEW ev \in Mail \ {Head(inbox)} PROVE ev \in Mail'
  <2>1. PICK i \in 1..n : ev = inbox[i] /\ i # 1
    BY <1>2 DEF Mail
  <2>2. i - 1 \in 1..n - 1 /\ inbox'[i - 1] = ev
    BY <1>2, <1>3, <2>1
  <2> QED
    BY <1>2, <2>2 DEF Mail
<1> QED
  BY <1>6, <1>8, <1>9

\* What a step of a run tells, and where it goes with it.
Tells(s, kind) ==
  /\ Emit(s, kind) /\ kind \in Kind
  /\ kind = "RunStarted" => pc'[s] = "opening"
  /\ kind = "SpanOpened" => pc'[s] = "ready"
  /\ kind = "SpanClosed" => pc'[s] = "leaving"
Speaks(s) ==
  /\ UNCHANGED <<app, panels>> /\ Free(s[1])
  /\ \A t \in Span \ {s} : /\ (pc'[t] = pc[t] \/ (pc[t] = "off" /\ pc'[t] = "starting"))
                           /\ outcome'[t] = outcome[t]
  /\ pc[s] \notin {"off", "over"} /\ pc'[s] \notin {"off", "building", "starting"}
  /\ inbox' = inbox \/ \E kind : Tells(s, kind)
  /\ pc'[s] \in Inside /\ pc[s] \notin Inside => Tells(s, "SpanOpened")
  /\ pc'[s] = "leaving" => pc[s] = "closing" /\ Tells(s, "SpanClosed")
  /\ pc'[s] = "over" => pc[s] = "leaving"
  /\ \/ outcome'[s] = outcome[s]
     \/ /\ pc[s] \notin Ended
        /\ (outcome'[s] = "raised" \/ Tells(s, "RunCompleted") \/ Tells(s, "RunFailed"))
\* ... and which run is the latest then.
IsLatest(s) ==
  /\ pc'[s] = "opening" => Tells(s, "RunStarted")
  /\ latest' = IF pc'[s] = "opening" THEN s ELSE latest

LEMMA RunStepSpeaks ==
  ASSUME ControlHolds, NEW s \in Span, RunStep(s)
  PROVE  Speaks(s)
<1>1. /\ pc \in [Span -> Place] /\ outcome \in [Span -> {"none", "answered", "failed", "raised"}]
  BY DEF ControlHolds, TypeOK, RunsTyped
<1>2. \A p : At(s, p) => pc[s] = p /\ Free(s[1])
  BY DEF At
<1>3. CASE BeginRun(s)
  <2>1. /\ pc[s] = "starting" /\ Free(s[1]) /\ pc' = [pc EXCEPT ![s] = "opening"]
        /\ Emit(s, "RunStarted") /\ UNCHANGED <<app, panels, outcome>>
    BY <1>2, <1>3 DEF BeginRun, Goto, Opening
  <2>2. Tells(s, "RunStarted")
    BY <1>1, <2>1 DEF Tells, Kind
  <2> QED
    BY <1>1, <2>1, <2>2 DEF Speaks, Inside
<1>4. CASE OpenSpan(s)
  <2>1. /\ pc[s] = "opening" /\ Free(s[1]) /\ pc' = [pc EXCEPT ![s] = "ready"]
        /\ Emit(s, "SpanOpened") /\ UNCHANGED <<app, panels, outcome>>
    BY <1>2, <1>4 DEF OpenSpan, Goto, Opening
  <2>2. Tells(s, "SpanOpened")
    BY <1>1, <2>1 DEF Tells, Kind
  <2> QED
    BY <1>1, <2>1, <2>2 DEF Speaks, Inside
<1>5. CASE CloseSpan(s)
  <2>1. /\ pc[s] = "closing" /\ Free(s[1]) /\ pc' = [pc EXCEPT ![s] = "leaving"]
        /\ Emit(s, "SpanClosed") /\ UNCHANGED <<app, panels, outcome>>
    BY <1>2, <1>5 DEF CloseSpan, Goto
  <2>2. Tells(s, "SpanClosed")
    BY <1>1, <2>1 DEF Tells, Kind
  <2> QED
    BY <1>1, <2>1, <2>2 DEF Speaks, Inside
<1>6. ASSUME NEW how \in {"answered", "failed"}, Finish(s, how), UNCHANGED <<app, panels>>,
             NEW p \in Inside \ {"closing"}, At(s, p)
      PROVE  Speaks(s)
  <2>1. /\ pc[s] \in Inside \ {"closing"} /\ Free(s[1]) /\ pc' = [pc EXCEPT ![s] = "closing"]
        /\ outcome' = [outcome EXCEPT ![s] = how]
        /\ Emit(s, EndEvent(how)) /\ EndEvent(how) \in {"RunCompleted", "RunFailed"}
    BY <1>2, <1>6 DEF Finish, Goto, EndEvent
  <2>2. Tells(s, EndEvent(how))
    BY <1>1, <2>1 DEF Tells, Kind
  <2>3. Tells(s, "RunCompleted") \/ Tells(s, "RunFailed")
    BY <2>1, <2>2
  <2> QED
    BY <1>1, <1>6, <2>1, <2>2, <2>3 DEF Speaks, Inside, Ended
<1>7. ASSUME NEW p \in Inside \ {"closing"}, At(s, p), NEW there \in Inside \ {"closing"}, Goto(s, there),
             UNCHANGED <<app, panels, outcome>>, inbox' = inbox \/ \E kind : Tells(s, kind)
      PROVE  Speaks(s)
  <2>1. /\ pc[s] \in Inside \ {"closing"} /\ Free(s[1]) /\ pc' = [pc EXCEPT ![s] = there]
    BY <1>2, <1>7 DEF Goto
  <2> QED
    BY <1>1, <1>7, <2>1 DEF Speaks, Inside
<1>8. CASE Checkpoint(s) \/ BreakerTrips(s) \/ DropResults(s)
  <2>1. CASE Finish(s, "failed")
    BY <1>6, <1>8, <2>1 DEF Checkpoint, BreakerTrips, DropResults, Inside
  <2>2. CASE ~Finish(s, "failed")
    BY <1>7, <1>8, <2>2 DEF Checkpoint, BreakerTrips, DropResults, Inside
  <2> QED
    BY <2>1, <2>2
<1>9. CASE Think(s)
  <2>1. At(s, "thinking") /\ UNCHANGED <<app, panels>>
    BY <1>9 DEF Think
  <2>2. CASE Finish(s, "answered")
    BY <1>6, <2>1, <2>2 DEF Inside
  <2>3. CASE Goto(s, "acting") /\ UNCHANGED <<outcome, inbox>>
    BY <1>7, <2>1, <2>3 DEF Inside
  <2>4. CASE /\ Goto(s, "closing") /\ outcome' = [outcome EXCEPT ![s] = "raised"]
             /\ UNCHANGED inbox
    <3>1. pc[s] = "thinking" /\ Free(s[1]) /\ pc' = [pc EXCEPT ![s] = "closing"]
      BY <1>2, <2>1, <2>4 DEF Goto
    <3> QED
      BY <1>1, <2>1, <2>4, <3>1 DEF Speaks, Inside, Ended
  <2> QED
    BY <1>9, <2>2, <2>3, <2>4 DEF Think
<1>10. CASE RunTool(s)
  <2>1. pc[s] = "acting" /\ Free(s[1]) /\ UNCHANGED <<pc, app, panels, outcome, inbox>>
    BY <1>2, <1>10 DEF RunTool, Waiting
  <2> QED
    BY <1>1, <2>1 DEF Speaks, Inside
<1>11. CASE Delegate(s)
  <2>1. /\ pc[NextWorker(s)] = "off" /\ NextWorker(s) \in Span /\ NextWorker(s) # s
        /\ pc' = [pc EXCEPT ![NextWorker(s)] = "starting"]
    BY <1>11, DelegateStarts
  <2>2. pc[s] = "acting" /\ Free(s[1]) /\ UNCHANGED <<app, panels, outcome, inbox>>
    BY <1>2, <1>11 DEF Delegate, Waiting
  <2> QED
    BY <1>1, <2>1, <2>2 DEF Speaks, Inside
<1>12. CASE Observe(s)
  <2>1. /\ At(s, "acting") /\ UNCHANGED <<app, panels, outcome>>
        /\ \E kind \in {"ToolCompleted", "ToolErrored"} : Emit(s, kind)
        /\ \E p \in {"ready", "acting", "tripped"} : Goto(s, p)
    BY <1>12 DEF Observe
  <2>2. \E kind : Tells(s, kind)
    BY <2>1 DEF Tells, Kind
  <2> QED
    BY <1>7, <2>1, <2>2 DEF Inside
<1>13. CASE Leave(s)
  <2>1. /\ pc[s] = "leaving" /\ Free(s[1]) /\ pc' = [pc EXCEPT ![s] = "over"]
        /\ UNCHANGED <<app, panels, outcome, inbox>>
    BY <1>2, <1>13 DEF Leave, Goto
  <2> QED
    BY <1>1, <2>1 DEF Speaks, Inside
<1> QED
  BY <1>3, <1>4, <1>5, <1>8, <1>9, <1>10, <1>11, <1>12, <1>13 DEF RunStep

LEMMA RunStepBegins ==
  ASSUME ControlHolds, NEW s \in Span, RunStep(s)
  PROVE  IsLatest(s)
<1>1. pc \in [Span -> Place] /\ \A p : At(s, p) => pc[s] = p
  BY DEF ControlHolds, TypeOK, RunsTyped, At
<1>2. CASE BeginRun(s) /\ latest' = s
  <2>1. Emit(s, "RunStarted") /\ pc'[s] = "opening"
    BY <1>1, <1>2 DEF BeginRun, Goto, Opening
  <2> QED
    BY <1>2, <2>1 DEF IsLatest, Tells, Kind
<1>3. ASSUME UNCHANGED latest, NEW p \in Place \ {"opening"}, Goto(s, p) PROVE IsLatest(s)
  BY <1>1, <1>3 DEF IsLatest, Goto
<1>4. ASSUME UNCHANGED latest, pc'[s] = pc[s], pc[s] # "opening" PROVE IsLatest(s)
  BY <1>4 DEF IsLatest
<1>5. CASE (OpenSpan(s) \/ CloseSpan(s) \/ Leave(s)) /\ UNCHANGED latest
  BY <1>3, <1>5 DEF OpenSpan, CloseSpan, Leave, Place
<1>6. CASE (Checkpoint(s) \/ BreakerTrips(s) \/ DropResults(s) \/ Think(s)) /\ UNCHANGED latest
  BY <1>3, <1>6 DEF Checkpoint, BreakerTrips, DropResults, Think, Finish, Place
<1>7. CASE Observe(s) /\ UNCHANGED latest
  <2>1. \E p \in {"ready", "acting", "tripped"} : Goto(s, p)
    BY <1>7 DEF Observe
  <2> QED
    BY <1>3, <1>7, <2>1 DEF Place
<1>8. CASE RunTool(s) /\ UNCHANGED latest
  BY <1>1, <1>4, <1>8 DEF RunTool, Waiting
<1>9. CASE Delegate(s) /\ UNCHANGED latest
  <2>1. /\ pc[NextWorker(s)] = "off" /\ pc[s] = "acting"
        /\ pc' = [pc EXCEPT ![NextWorker(s)] = "starting"]
    BY <1>1, <1>9, DelegateStarts DEF Delegate, Waiting
  <2> QED
    BY <1>1, <1>4, <1>9, <2>1
<1> QED
  BY <1>2, <1>5, <1>6, <1>7, <1>8, <1>9 DEF RunStep
(* The invariant of the screen.                                             *)
Hangs == \A q \in Queries :
  app /\ pc[Orch(q)] \in Inside => Orch(q) \in DOMAIN nodes \/ News(Orch(q), "SpanOpened") \in Mail
Timed(s) ==
  /\ pc[s] \in Inside => s \in flame.opened \/ News(s, "SpanOpened") \in Mail
  /\ pc[s] = "leaving" =>
       s \in flame.timed \/ (s \in flame.opened /\ News(s, "SpanClosed") \in Mail)
  /\ pc[s] = "over" => s \in flame.timed
FlameHolds == app /\ latest # <<>> => Timed(latest)
(* Of the starts on their way the last is that of the latest run.           *)
LatestHolds ==
  /\ latest \in Span \cup {<<>>}
  /\ \A i \in DOMAIN inbox : inbox[i].kind = "RunStarted" =>
       \E j \in DOMAIN inbox : i <= j /\ inbox[j] = News(latest, "RunStarted")
Working(s) ==
  \/ outcome[s] = "raised" \/ (outcome[s] = "none" /\ Running(s))
  \/ News(s, "RunCompleted") \in Mail \/ News(s, "RunFailed") \in Mail
JobsHold ==
  jobs.state = "running" => app /\ \E s \in Span : s[1] = jobs.query /\ Working(s)
ScreenHolds ==
  /\ ControlHolds /\ InboxHolds /\ Hangs /\ TreeHangsWorkers /\ LatestHolds /\ FlameHolds
  /\ JobsHold

\* An event of a span is the only one of its query.
LEMMA OneNews ==
  ASSUME ScreenTyped, OneEach
  PROVE  \A e, f \in Mail : e.span[1] = f.span[1] => e = f
BY DEF OneEach, Mail

LEMMA RunStepInbox ==
  ASSUME ScreenHolds, NEW s \in Span, Speaks(s)
  PROVE  InboxHolds' /\ Mail \subseteq Mail'
<1>1. /\ ScreenTyped /\ inbox \in Seq(Event) /\ InboxHolds /\ app' = app
      /\ \A ev \in Mail : ev.span \in Span /\ ev.span # s
  <2>1. ScreenTyped /\ Free(s[1])
    BY DEF ScreenHolds, ControlHolds, TypeOK, Speaks
  <2>2. Mail \subseteq Event /\ \A ev \in Mail : ev.span[1] # s[1]
    BY <2>1, MailOf
  <2> QED
    BY <2>1, <2>2 DEF ScreenTyped, ScreenHolds, Speaks, Event
<1>2. \A ev \in Mail : TellsOf(ev)'
  <2>1. \A ev \in Mail : pc'[ev.span] = pc[ev.span] \/ pc[ev.span] = "off"
    BY <1>1 DEF Speaks
  <2> QED
    BY <1>1, <2>1 DEF InboxHolds, TellsOf
<1>3. CASE inbox' = inbox
  BY <1>1, <1>2, <1>3 DEF InboxHolds, OneEach, Mail
<1>4. ASSUME NEW kind, Tells(s, kind) PROVE InboxHolds' /\ Mail \subseteq Mail'
  <2>1. (app => Mail' = Mail \cup {News(s, kind)}) /\ (~app => Mail' = Mail)
    BY <1>1, <1>4, MailSent DEF Tells
  <2>2. TellsOf(News(s, kind))'
    BY <1>4 DEF Tells, TellsOf, News
  <2>3. ~app => inbox' = <<>>
    BY <1>1, <1>4 DEF InboxHolds, Tells, Emit
  <2>4. OneEach'
    <3>1. CASE ~app
      BY <2>3, <3>1 DEF OneEach
    <3>2. CASE app
      <4> DEFINE n == Len(inbox)
      <4>1. /\ n \in Nat /\ DOMAIN inbox = 1..n /\ DOMAIN inbox' = 1..n + 1
            /\ inbox'[n + 1].span = s /\ \A i \in 1..n : inbox'[i] = inbox[i]
        BY <1>1, <1>4, <3>2 DEF Tells, Emit
      <4>2. \A i : i \in 1..n + 1 <=> i \in 1..n \/ i = n + 1
        BY <4>1
      <4>3. \A i \in 1..n : inbox[i].span[1] # s[1]
        BY <4>1 DEF Speaks, Free
      <4> HIDE DEF n
      <4> QED
        BY <1>1, <4>1, <4>2, <4>3 DEF OneEach, InboxHolds
    <3> QED
      BY <3>1, <3>2
  <2> QED
    BY <1>1, <1>2, <2>1, <2>2, <2>3, <2>4 DEF InboxHolds
<1> QED
  BY <1>3, <1>4 DEF Speaks

LEMMA RunStepLatest ==
  ASSUME ScreenHolds, NEW s \in Span, Speaks(s), IsLatest(s)
  PROVE  LatestHolds'
<1> DEFINE n == Len(inbox)
<1>1. /\ inbox \in Seq(Event) /\ n \in Nat /\ DOMAIN inbox = 1..n /\ LatestHolds
      /\ (~app => inbox = <<>>)
  BY DEF ScreenHolds, ControlHolds, TypeOK, ScreenTyped, InboxHolds
<1>2. latest' \in Span \cup {<<>>}
  BY <1>1 DEF LatestHolds, IsLatest
<1>3. CASE inbox' = inbox /\ pc'[s] # "opening"
  BY <1>1, <1>2, <1>3 DEF LatestHolds, IsLatest
<1>4. ASSUME NEW kind, Tells(s, kind), ~app PROVE LatestHolds'
  <2>1. inbox' = <<>>
    BY <1>1, <1>4 DEF Tells, Emit
  <2> QED
    BY <1>2, <2>1 DEF LatestHolds
<1>5. ASSUME NEW kind, Tells(s, kind), app
      PROVE  /\ DOMAIN inbox' = 1..n + 1 /\ inbox'[n + 1] = News(s, kind)
             /\ \A i \in 1..n : inbox'[i] = inbox[i] /\ i \in 1..n + 1 /\ i <= n + 1
             /\ \A i \in 1..n + 1 : i \in 1..n \/ i = n + 1
             /\ n + 1 \in 1..n + 1 /\ n + 1 <= n + 1
  BY <1>1, <1>5 DEF Tells, Emit, News
<1> HIDE DEF n
<1>6. CASE pc'[s] = "opening" /\ app
  <2>1. Tells(s, "RunStarted") /\ latest' = s
    BY <1>6 DEF IsLatest
  <2> QED
    BY <1>2, <1>5, <1>6, <2>1 DEF LatestHolds
<1>7. ASSUME NEW kind, Tells(s, kind), app, pc'[s] # "opening" PROVE LatestHolds'
  <2>1. kind # "RunStarted" /\ latest' = latest
    BY <1>7 DEF Tells, IsLatest
  <2>2. inbox'[n + 1].kind # "RunStarted"
    <3>1. inbox'[n + 1] = News(s, kind)
      BY <1>5, <1>7
    <3> QED
      BY <2>1, <3>1 DEF News
  <2>3. SUFFICES ASSUME NEW i \in DOMAIN inbox', inbox'[i].kind = "RunStarted"
                 PROVE  \E j \in DOMAIN inbox' : i <= j /\ inbox'[j] = News(latest, "RunStarted")
    BY <1>2, <2>1 DEF LatestHolds
  <2>4. i \in 1..n /\ inbox[i].kind = "RunStarted"
    BY <1>5, <1>7, <2>2, <2>3
  <2>5. PICK j \in 1..n : i <= j /\ inbox[j] = News(latest, "RunStarted")
    BY <1>1, <2>4 DEF LatestHolds
  <2> QED
    BY <1>5, <1>7, <2>5
<1> QED
  BY <1>3, <1>4, <1>6, <1>7 DEF Speaks, IsLatest

LEMMA RunStepScreen ==
  ASSUME ScreenHolds, NEW s \in Span, Speaks(s), IsLatest(s)
  PROVE  Hangs' /\ TreeHangsWorkers' /\ FlameHolds' /\ JobsHold'
<1>1. /\ InboxHolds' /\ Mail \subseteq Mail' /\ UNCHANGED <<app, nodes, flame, jobs>>
      /\ \A kind : Tells(s, kind) /\ app => News(s, kind) \in Mail'
      /\ \A kind : News(s, kind) \notin Mail
  <2>1. ScreenTyped /\ Free(s[1])
    BY DEF ScreenHolds, ControlHolds, TypeOK, Speaks
  <2>2. \A kind : News(s, kind) \notin Mail
    BY <2>1, MailOf DEF News
  <2>3. \A kind : Tells(s, kind) /\ app => News(s, kind) \in Mail'
    BY <2>1, MailSent DEF Tells
  <2> QED
    BY <2>2, <2>3, RunStepInbox DEF Speaks, panels
<1>2. TreeHangsWorkers'
  BY <1>1 DEF ScreenHolds, TreeHangsWorkers
<1>3. Hangs'
  <2> SUFFICES ASSUME NEW q \in Queries, app, pc'[Orch(q)] \in Inside
               PROVE  Orch(q) \in DOMAIN nodes \/ News(Orch(q), "SpanOpened") \in Mail'
    BY <1>1 DEF Hangs
  <2>1. Orch(q) \in Span
    BY SpanParts
  <2>2. CASE pc[Orch(q)] \in Inside
    BY <1>1, <2>2 DEF ScreenHolds, Hangs
  <2>3. CASE pc[Orch(q)] \notin Inside
    <3>1. Orch(q) = s
      BY <2>1, <2>3 DEF Speaks, Inside
    <3> QED
      BY <1>1, <2>3, <3>1 DEF Speaks
  <2> QED
    BY <2>2, <2>3
<1>4. FlameHolds'
  <2> SUFFICES ASSUME app, latest' # <<>>, NEW t, t = latest' PROVE Timed(t)'
    BY <1>1 DEF FlameHolds, Timed
  <2>1. CASE pc'[s] = "opening"
    BY <2>1 DEF IsLatest, Timed, Inside
  <2>2. CASE pc'[s] # "opening"
    <3>1. t = latest /\ t \in Span /\ Timed(t)
      BY <2>2 DEF IsLatest, ScreenHolds, LatestHolds, FlameHolds
    <3>2. CASE t # s
      <4>1. pc'[t] = pc[t] \/ pc'[t] = "starting"
        BY <3>1, <3>2 DEF Speaks
      <4> QED
        BY <1>1, <3>1, <4>1 DEF Timed, Inside
    <3>3. CASE t = s
      <4>1. pc'[s] \in Inside => s \in flame.opened \/ News(s, "SpanOpened") \in Mail'
        BY <1>1, <3>1, <3>3 DEF Speaks, Timed
      <4>2. pc'[s] = "leaving" => s \in flame.opened /\ News(s, "SpanClosed") \in Mail'
        BY <1>1, <3>1, <3>3 DEF Speaks, Timed, Inside
      <4>3. pc'[s] = "over" => s \in flame.timed
        BY <1>1, <3>1, <3>3 DEF Speaks, Timed
      <4> QED
        BY <1>1, <3>3, <4>1, <4>2, <4>3 DEF Timed
    <3> QED
      BY <3>2, <3>3
  <2> QED
    BY <2>1, <2>2
<1>5. JobsHold'
  <2> SUFFICES ASSUME jobs.state = "running"
               PROVE  app /\ \E t \in Span : t[1] = jobs.query /\ Working(t)'
    BY <1>1 DEF JobsHold
  <2>1. PICK t \in Span : app /\ t[1] = jobs.query /\ Working(t)
    BY DEF ScreenHolds, JobsHold
  <2>2. RunHolds(t)
    BY DEF ScreenHolds, ControlHolds, RunsHold
  <2>3. CASE t # s
    <3>1. (pc'[t] = pc[t] \/ (pc[t] = "off" /\ pc'[t] = "starting")) /\ outcome'[t] = outcome[t]
      BY <2>3 DEF Speaks
    <3>2. Working(t)'
      BY <1>1, <2>1, <3>1 DEF Working, Running
    <3> QED
      BY <2>1, <3>2
  <2>4. CASE t = s
    <3>1. outcome[s] = "raised" \/ (outcome[s] = "none" /\ Running(s))
      BY <1>1, <2>1, <2>4 DEF Working
    <3>2. CASE outcome'[s] = outcome[s]
      <4>1. outcome[s] = "none" => pc'[s] \notin {"off", "over"}
        BY <2>2, <2>4 DEF RunHolds, Speaks, Ended
      <4> QED
        BY <2>1, <2>4, <3>1, <3>2, <4>1 DEF Working, Running
    <3>3. CASE outcome'[s] # outcome[s]
      <4>1. outcome'[s] = "raised" \/ News(s, "RunCompleted") \in Mail' \/ News(s, "RunFailed") \in Mail'
        BY <1>1, <2>1, <3>3 DEF Speaks
      <4> QED
        BY <2>1, <2>4, <4>1 DEF Working
    <3> QED
      BY <3>2, <3>3
  <2> QED
    BY <2>3, <2>4
<1> QED
  BY <1>2, <1>3, <1>4, <1>5
LEMMA ConsumeScreen ==
  ASSUME ScreenHolds, Consume, UNCHANGED latest
  PROVE  InboxHolds' /\ Hangs' /\ TreeHangsWorkers' /\ LatestHolds' /\ FlameHolds' /\ JobsHold'
<1> DEFINE ev == Head(inbox)
           u == ev.span
<1>1. /\ app /\ inbox # <<>> /\ inbox' = Tail(inbox) /\ UNCHANGED <<run, app>>
      /\ nodes' = SpanTree(ev) /\ flame' = Flame(ev) /\ jobs' = Jobs(ev)
  BY DEF Consume
<1>2. /\ ScreenTyped /\ OneEach /\ InboxHolds /\ ControlHolds /\ pc' = pc /\ outcome' = outcome
      /\ \A s \in Span : RunHolds(s)
      /\ \A s \in Span : IsWorker(s) => WorkerInTurn(s)
  BY <1>1 DEF ScreenHolds, ControlHolds, TypeOK, InboxHolds, run, RunsHold, WorkersInTurn
<1>3. /\ Mail' = Mail \ {ev} /\ OneEach' /\ ev \in Mail /\ ev \in Event /\ u \in Span
      /\ \A e \in Mail : e.span[1] = u[1] => e = ev
  <2>1. Mail' = Mail \ {ev} /\ OneEach'
    BY <1>1, <1>2, MailTaken
  <2>2. ev \in Mail /\ ev \in Event
    BY <1>1, <1>2, MailOf
  <2> QED
    BY <1>2, <2>1, <2>2, OneNews DEF Event
<1>4. TellsOf(ev) /\ ev = News(u, ev.kind)
  BY <1>2, <1>3 DEF InboxHolds, News, Event
<1> HIDE DEF ev, u
<1>5. \A s, kind : News(s, kind) \in Mail /\ (s # u \/ kind # ev.kind) => News(s, kind) \in Mail'
  BY <1>3 DEF News, u
<1>6. InboxHolds'
  BY <1>1, <1>2, <1>3 DEF InboxHolds, TellsOf
<1>7. Hangs'
  <2> SUFFICES ASSUME NEW q \in Queries, pc[Orch(q)] \in Inside
               PROVE  Orch(q) \in DOMAIN nodes' \/ News(Orch(q), "SpanOpened") \in Mail'
    BY <1>2 DEF Hangs
  <2>1. Orch(q) \in DOMAIN nodes \/ News(Orch(q), "SpanOpened") \in Mail
    BY <1>1 DEF ScreenHolds, Hangs
  <2>2. CASE ev.kind = "SpanOpened"
    <3>1. nodes' = HangNode(u)
      BY <1>1, <2>2 DEF SpanTree, u
    <3>2. DOMAIN nodes' = DOMAIN nodes \cup {u}
      BY <3>1 DEF HangNode
    <3> QED
      BY <1>5, <2>1, <2>2, <3>2
  <2>3. CASE ev.kind = "SpanClosed"
    <3>1. nodes' = [s \in DOMAIN nodes \ {u} |-> nodes[s]]
      BY <1>1, <2>3 DEF SpanTree, u
    <3>2. u # Orch(q)
      BY <1>4, <2>3 DEF TellsOf, Inside, u
    <3> QED
      BY <1>5, <2>1, <2>3, <3>1, <3>2
  <2>4. CASE ev.kind \notin {"SpanOpened", "SpanClosed"}
    <3>1. nodes' = nodes
      BY <1>1, <2>4 DEF SpanTree
    <3> QED
      BY <1>5, <2>1, <2>4, <3>1
  <2> QED
    BY <2>2, <2>3, <2>4
<1>8. TreeHangsWorkers'
  <2>1. \A s \in DOMAIN nodes : nodes[s] = Parent(s)
    BY DEF ScreenHolds, TreeHangsWorkers
  <2>2. CASE ev.kind = "SpanOpened"
    <3>1. nodes' = HangNode(u) /\ pc[u] = "ready"
      BY <1>1, <1>4, <2>2 DEF SpanTree, u, TellsOf
    <3>2. IsWorker(u) => Parent(u) \in DOMAIN nodes
      <4> SUFFICES ASSUME IsWorker(u) PROVE Orch(u[1]) \in DOMAIN nodes
        BY DEF Parent
      <4>1. pc[Orch(u[1])] = "acting" /\ u[1] \in Queries /\ Orch(u[1])[1] = u[1] /\ Orch(u[1]) # u
        BY <1>2, <1>3, <3>1, SpanParts DEF WorkerInTurn, Running
      <4>2. Orch(u[1]) \in DOMAIN nodes \/ News(Orch(u[1]), "SpanOpened") \in Mail
        BY <1>1, <4>1 DEF ScreenHolds, Hangs, Inside
      <4>3. News(Orch(u[1]), "SpanOpened") \notin Mail
        BY <1>3, <4>1 DEF News, u
      <4> QED
        BY <4>2, <4>3
    <3>3. ~IsWorker(u) => Parent(u) = <<>>
      BY DEF Parent
    <3>4. (IF Parent(u) \in DOMAIN nodes THEN Parent(u) ELSE <<>>) = Parent(u)
      BY <3>2, <3>3
    <3>5. nodes' = [t \in DOMAIN nodes \cup {u} |-> IF t # u THEN nodes[t] ELSE Parent(u)]
      BY <3>1, <3>4 DEF HangNode
    <3> QED
      BY <2>1, <3>5 DEF TreeHangsWorkers
  <2>3. CASE ev.kind = "SpanClosed"
    <3>1. nodes' = [s \in DOMAIN nodes \ {u} |-> nodes[s]]
      BY <1>1, <2>3 DEF SpanTree, u
    <3> QED
      BY <2>1, <3>1 DEF TreeHangsWorkers
  <2>4. CASE ev.kind \notin {"SpanOpened", "SpanClosed"}
    <3>1. nodes' = nodes
      BY <1>1, <2>4 DEF SpanTree
    <3> QED
      BY <2>1, <3>1 DEF TreeHangsWorkers
  <2> QED
    BY <2>2, <2>3, <2>4
<1>9. FlameHolds'
  <2> SUFFICES ASSUME latest # <<>>, NEW s, s = latest PROVE Timed(s)'
    BY <1>2 DEF FlameHolds, Timed
  <2>1. Timed(s) /\ flame \in [opened : SUBSET Span, timed : SUBSET Span]
    BY <1>1, <1>2 DEF ScreenHolds, FlameHolds, ScreenTyped
  <2>2. CASE ev.kind = "RunStarted"
    <3>1. News(s, "RunStarted") \in Mail
      <4>1. 1 \in DOMAIN inbox /\ inbox[1] = ev
        BY <1>1, <1>2 DEF ScreenTyped, ev
      <4> QED
        BY <2>2, <4>1 DEF ScreenHolds, LatestHolds, Mail
    <3>2. pc[s] = "opening"
      BY <1>2, <3>1 DEF InboxHolds, TellsOf, News
    <3> QED
      BY <1>2, <3>2 DEF Timed, Inside
  <2>3. CASE ev.kind = "SpanOpened"
    <3>1. flame' = [flame EXCEPT !.opened = @ \cup {u}]
      BY <1>1, <2>3 DEF Flame, u
    <3>2. flame'.opened = flame.opened \cup {u} /\ flame'.timed = flame.timed
      BY <2>1, <3>1
    <3> QED
      BY <1>2, <1>5, <2>1, <2>3, <3>2 DEF Timed
  <2>4. CASE ev.kind = "SpanClosed"
    <3>1. /\ flame'.opened = flame.opened \ {u}
          /\ flame'.timed = flame.timed \cup (flame.opened \cap {u})
          /\ pc[u] = "leaving"
      BY <1>1, <1>4, <2>4 DEF Flame, u, TellsOf
    <3> QED
      BY <1>2, <1>5, <2>1, <2>4, <3>1 DEF Timed, Inside
  <2>5. CASE ev.kind \notin {"RunStarted", "SpanOpened", "SpanClosed"}
    <3>1. flame' = flame
      BY <1>1, <2>5 DEF Flame
    <3> QED
      BY <1>2, <1>5, <2>1, <2>5, <3>1 DEF Timed
  <2> QED
    BY <2>2, <2>3, <2>4, <2>5
<1>10. JobsHold'
  <2> SUFFICES ASSUME jobs'.state = "running"
               PROVE  \E s \in Span : s[1] = jobs'.query /\ Working(s)'
    BY <1>1 DEF JobsHold
  <2>1. CASE ev.kind = "RunStarted"
    <3>1. jobs'.query = u[1] /\ pc[u] = "opening"
      BY <1>1, <1>4, <2>1 DEF Jobs, u, TellsOf
    <3>2. outcome[u] = "none" /\ Running(u)
      BY <1>2, <1>3, <3>1 DEF RunHolds, Running, Ended
    <3> QED
      BY <1>2, <1>3, <3>1, <3>2 DEF Working, Running
  <2>2. CASE ev.kind \in {"RunCompleted", "RunFailed"}
    BY <1>1, <2>2 DEF Jobs
  <2>3. CASE ev.kind \notin {"RunStarted", "RunCompleted", "RunFailed"}
    <3>1. jobs' = jobs
      BY <1>1, <2>3 DEF Jobs
    <3>2. PICK s \in Span : s[1] = jobs.query /\ Working(s)
      BY <3>1 DEF ScreenHolds, JobsHold
    <3>3. Working(s)'
      BY <1>2, <1>5, <2>3, <3>2 DEF Working, Running
    <3> QED
      BY <3>1, <3>2, <3>3
  <2> QED
    BY <2>1, <2>2, <2>3
<1>11. LatestHolds'
  <2> DEFINE n == Len(inbox)
  <2>1. inbox \in Seq(Event) /\ n \in Nat /\ n # 0 /\ LatestHolds
    BY <1>1, <1>2 DEF ScreenTyped, ScreenHolds
  <2>2. /\ DOMAIN inbox = 1..n /\ DOMAIN inbox' = 1..n - 1
        /\ \A i \in 1..n - 1 : inbox'[i] = inbox[i + 1] /\ i + 1 \in 1..n
    BY <1>1, <2>1
  <2>3. \A i \in 1..n - 1 : \A j \in 1..n : i + 1 <= j =>
           /\ j - 1 \in 1..n - 1 /\ i <= j - 1 /\ (j - 1) + 1 = j
    BY <2>1
  <2> HIDE DEF n
  <2>4. ASSUME NEW i \in 1..n - 1, inbox'[i].kind = "RunStarted"
        PROVE  \E j \in 1..n - 1 : i <= j /\ inbox'[j] = News(latest, "RunStarted")
    <3>1. PICK j \in 1..n : i + 1 <= j /\ inbox[j] = News(latest, "RunStarted")
      BY <2>1, <2>2, <2>4 DEF LatestHolds
    <3>2. j - 1 \in 1..n - 1 /\ i <= j - 1 /\ inbox'[j - 1] = News(latest, "RunStarted")
      BY <2>2, <2>3, <3>1
    <3> QED
      BY <3>2
  <2> QED
    BY <2>1, <2>2, <2>4 DEF LatestHolds
<1> QED
  BY <1>6, <1>7, <1>8, <1>9, <1>10, <1>11

LEMMA NextScreen ==
  ASSUME ScreenHolds, [Next]_vars
  PROVE  ScreenHolds'
<1>1. ControlHolds' /\ ControlHolds /\ pc \in [Span -> Place] /\ ScreenTyped
  BY NextControlled DEF ScreenHolds, ControlHolds, TypeOK, RunsTyped
<1>2. ASSUME NEW s \in Span, RunStep(s) PROVE ScreenHolds'
  <2>1. Speaks(s) /\ IsLatest(s)
    BY <1>1, <1>2, RunStepSpeaks, RunStepBegins
  <2> QED
    BY <1>1, <2>1, RunStepInbox, RunStepLatest, RunStepScreen DEF ScreenHolds
<1>3. CASE Consume /\ UNCHANGED latest
  BY <1>1, <1>3, ConsumeScreen DEF ScreenHolds
<1>4. CASE Quit /\ UNCHANGED latest
  <2>1. app' = FALSE /\ inbox' = <<>> /\ DOMAIN nodes' = {} /\ jobs'.state = "idle"
    BY <1>4 DEF Quit, Quiet
  <2>2. Mail' = {} /\ OneEach'
    BY <2>1 DEF Mail, OneEach
  <2> QED
    BY <1>1, <1>4, <2>1, <2>2
    DEF ScreenHolds, InboxHolds, Hangs, TreeHangsWorkers, LatestHolds, FlameHolds, JobsHold
<1>5. ASSUME UNCHANGED <<outcome, inbox, app, panels, latest>>,
             \A t \in Span : \/ pc'[t] = pc[t]
                             \/ pc[t] \in {"off", "building"} /\ pc'[t] \in {"building", "starting"}
      PROVE  ScreenHolds'
  <2>1. /\ Mail' = Mail /\ UNCHANGED <<outcome, app, nodes, flame, jobs, inbox>>
        /\ \A ev \in Mail : ev.span \in Span
    BY <1>1, <1>5, MailOf DEF Mail, panels, Event
  <2>2. InboxHolds'
    BY <1>5, <2>1 DEF ScreenHolds, InboxHolds, OneEach, TellsOf
  <2>3. Hangs' /\ TreeHangsWorkers'
    BY <1>5, <2>1, SpanParts DEF ScreenHolds, Hangs, TreeHangsWorkers, Inside
  <2>4. LatestHolds' /\ FlameHolds'
    <3>1. LatestHolds'
      BY <1>5, <2>1 DEF ScreenHolds, LatestHolds
    <3>2. app /\ latest # <<>> => latest \in Span /\ Timed(latest)
      BY DEF ScreenHolds, LatestHolds, FlameHolds
    <3>3. FlameHolds'
      BY <1>5, <2>1, <3>2 DEF FlameHolds, Timed, Inside
    <3> QED
      BY <3>1, <3>3
  <2>5. JobsHold'
    BY <1>5, <2>1 DEF ScreenHolds, JobsHold, Working, Running
  <2> QED
    BY <1>1, <2>2, <2>3, <2>4, <2>5 DEF ScreenHolds
<1>6. CASE (\E q \in Queries : Submit(q) \/ Hold(q)) /\ UNCHANGED latest
  <2>1. PICK q \in Queries : Submit(q) \/ Hold(q)
    BY <1>6
  <2>2. \A t \in Span : \/ pc'[t] = pc[t]
                        \/ pc[t] \in {"off", "building"} /\ pc'[t] \in {"building", "starting"}
    BY <1>1, <2>1 DEF Submit, Hold, At, Goto
  <2>3. UNCHANGED <<outcome, inbox, app, panels, latest>>
    BY <1>6, <2>1 DEF Submit, Hold
  <2> QED
    BY <1>5, <2>2, <2>3
<1>7. CASE \/ (RequestPause \/ RequestResume \/ RequestInterrupt) /\ UNCHANGED latest
           \/ UNCHANGED vars
  <2>1. UNCHANGED <<run, inbox, app, panels, latest>>
    BY <1>7 DEF RequestPause, RequestResume, RequestInterrupt, Request, vars
  <2>2. UNCHANGED <<outcome, inbox, app, panels, latest>> /\ \A t \in Span : pc'[t] = pc[t]
    BY <2>1 DEF run
  <2> QED
    BY <1>5, <2>2
<1> QED
  BY <1>2, <1>3, <1>4, <1>6, <1>7 DEF Next, ScreenStep

LEMMA InitScreen == Init => ScreenHolds
<1> SUFFICES ASSUME Init PROVE ScreenHolds
  OBVIOUS
<1>1. Mail = {} /\ OneEach /\ DOMAIN nodes = {} /\ jobs.state = "idle"
      /\ \A s \in Span : pc[s] = "off"
  BY DEF Init, Mail, OneEach, Quiet
<1> QED
  BY <1>1, InitControlled, SpanParts
  DEF ScreenHolds, InboxHolds, Hangs, TreeHangsWorkers, LatestHolds, FlameHolds, JobsHold, Timed,
      Inside, Init

LEMMA ScreenIsRight == ScreenHolds => FlameTimesTheLast /\ IdlePanelIsIdle
<1> SUFFICES ASSUME ScreenHolds PROVE FlameTimesTheLast /\ IdlePanelIsIdle
  OBVIOUS
<1>1. FlameTimesTheLast
  BY DEF ScreenHolds, FlameHolds, FlameTimesTheLast, Timed
<1>2. IdlePanelIsIdle
  <2>1. inbox = <<>> => Mail = {}
    BY DEF Mail
  <2> QED
    BY <2>1 DEF ScreenHolds, JobsHold, IdlePanelIsIdle, Working
<1> QED
  BY <1>1, <1>2

(* A worker hangs under the orchestrator of its own query however the events *)
(* of overlapping queries reach the panel (span_tree.py 47-68).             *)
THEOREM TreeIsRight == Spec => []TreeHangsWorkers
<1>1. Init => ScreenHolds
  BY InitScreen
<1>2. ScreenHolds /\ [Next]_vars => ScreenHolds'
  BY NextScreen
<1>3. ScreenHolds => TreeHangsWorkers
  BY DEF ScreenHolds
<1> QED
  BY <1>1, <1>2, <1>3, PTL DEF Spec

(* The run whose start came last is timed once it is over, however the      *)
(* threads of overlapping queries and the UI thread take turns (flame.py    *)
(* 40-58).                                                                  *)
THEOREM FlameTimes == Spec => []FlameTimesTheLast
<1>1. Init => ScreenHolds
  BY InitScreen
<1>2. ScreenHolds /\ [Next]_vars => ScreenHolds'
  BY NextScreen
<1>3. ScreenHolds => FlameTimesTheLast
  BY ScreenIsRight
<1> QED
  BY <1>1, <1>2, <1>3, PTL DEF Spec

(* The jobs panel does not go on showing a job when nothing runs, but for a *)
(* run that ended by an exception (command_center.py 549-570).              *)
THEOREM PanelIsIdle == Spec => []IdlePanelIsIdle
<1>1. Init => ScreenHolds
  BY InitScreen
<1>2. ScreenHolds /\ [Next]_vars => ScreenHolds'
  BY NextScreen
<1>3. ScreenHolds => IdlePanelIsIdle
  BY ScreenIsRight
<1> QED
  BY <1>1, <1>2, <1>3, PTL DEF Spec
==============================================================================

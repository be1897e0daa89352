------------------------- MODULE DurableMemoryProofs -------------------------
(* What a memory port keeps and recalls, for any processes, projects, runs, *)
(* observations and budgets, wherever a process dies or a statement raises. *)
EXTENDS DurableMemory, SelectionProofs, FunctionTheorems

Seen == Tool \X Note
Told == (Tool \cup {"answer"}) \X Note
RowType == [project : Project, ts : Nat, note : Note, run : Nat, tool : Tool \cup {"answer"}]
Past == [project : Project, tried : Nat, saw : Seq(Seen), answer : Note \cup {NoAnswer},
         over : {"no", "kept", "stored"}]

PortsTyped ==
  /\ kind \in [Port -> {"simplemem", "inmemory"}] /\ project \in [Port -> Project]
  /\ pc \in [Port -> {"idle", "open", "writing"}] /\ run \in [Port -> Nat]
  /\ pending \in [Port -> Seq(Seen)] /\ records \in [Port -> Seq(RowType)]
WritesTyped ==
  /\ answer \in [Port -> Note \cup {NoAnswer}] /\ stamp \in [Port -> Nat] /\ now \in Nat
  /\ at \in [Port -> Nat] /\ tx \in [Port -> Seq(RowType)]
RowsTyped == db \in Seq(RowType) /\ history \in Seq(Past)
TypeOK == PortsTyped /\ WritesTyped /\ RowsTyped

LEMMA Changed ==
  \A S : \A s \in Seq(S) : \A i \in DOMAIN s : \A x \in S :
    LET t == [s EXCEPT ![i] = x]
    IN  /\ t \in Seq(S) /\ Len(t) = Len(s) /\ DOMAIN t = DOMAIN s /\ t[i] = x
        /\ \A j \in DOMAIN s : j # i => t[j] = s[j]
  OBVIOUS

LEMMA Appended ==
  \A S : \A s \in Seq(S), x \in S :
    /\ Append(s, x) \in Seq(S) /\ Len(Append(s, x)) = Len(s) + 1
    /\ DOMAIN Append(s, x) = DOMAIN s \cup {Len(s) + 1} /\ Len(s) + 1 \notin DOMAIN s
    /\ Append(s, x)[Len(s) + 1] = x
    /\ \A i \in DOMAIN s : Append(s, x)[i] = s[i]
  OBVIOUS

\* What a run's past becomes.
Saw(p, o) ==
  history' = [history EXCEPT ![run[p]].tried = @ + 1,
                ![run[p]].saw = IF o[3] THEN Append(@, <<o[1], o[2]>>) ELSE @]
Answered(p, n) == history' = [history EXCEPT ![run[p]].answer = n]
Over(p, how) == history' = [history EXCEPT ![run[p]].over = how]

\* Only the past of run r changes, and of that only what field names.
PastGrows(r) ==
  /\ history' \in Seq(Past) /\ DOMAIN history' = DOMAIN history /\ r \in DOMAIN history
  /\ \A k \in DOMAIN history : k # r => history'[k] = history[k]
  /\ history'[r].project = history[r].project

LEMMA RunSaw ==
  ASSUME RowsTyped, NEW p, run[p] \in DOMAIN history, NEW o \in Observations, Saw(p, o)
  PROVE  /\ PastGrows(run[p])
         /\ history'[run[p]].over = history[run[p]].over
         /\ history'[run[p]].answer = history[run[p]].answer
         /\ history'[run[p]].saw = IF o[3] THEN Append(history[run[p]].saw, <<o[1], o[2]>>)
                                   ELSE history[run[p]].saw
<1> DEFINE r == run[p]
           h == history[r]
           saw == IF o[3] THEN Append(h.saw, <<o[1], o[2]>>) ELSE h.saw
           g == [h EXCEPT !.tried = @ + 1, !.saw = saw]
<1>1. h \in Past /\ history \in Seq(Past)
  BY DEF RowsTyped
<1>2. saw \in Seq(Seen)
  <2>1. <<o[1], o[2]>> \in Seen /\ h.saw \in Seq(Seen)
    BY <1>1, MemoryAssumption DEF Seen, Past
  <2> QED
    BY <2>1
<1>3. g \in Past /\ g.saw = saw /\ g.over = h.over /\ g.answer = h.answer /\ g.project = h.project
  <2>1. h.tried + 1 \in Nat
    BY <1>1 DEF Past
  <2>2. \A x \in Past, n \in Nat, y \in Seq(Seen) :
          LET z == [x EXCEPT !.tried = n, !.saw = y]
          IN  z \in Past /\ z.saw = y /\ z.over = x.over /\ z.answer = x.answer
              /\ z.project = x.project
    BY DEF Past
  <2> HIDE DEF saw, h
  <2> QED
    BY <1>1, <1>2, <2>1, <2>2
<1>4. history' = [history EXCEPT ![r] = g]
  BY DEF Saw
<1> HIDE DEF r, g, saw, h
<1>5. r \in DOMAIN history
  BY DEF r
<1> QED
  BY <1>1, <1>3, <1>4, <1>5, Changed DEF PastGrows, r, h, saw

LEMMA RunAnswered ==
  ASSUME RowsTyped, NEW p, run[p] \in DOMAIN history, NEW n \in Note \cup {NoAnswer}, Answered(p, n)
  PROVE  /\ PastGrows(run[p])
         /\ history'[run[p]].over = history[run[p]].over
         /\ history'[run[p]].answer = n
         /\ history'[run[p]].saw = history[run[p]].saw
<1> DEFINE r == run[p]
           h == history[r]
           g == [h EXCEPT !.answer = n]
<1>1. h \in Past /\ history \in Seq(Past)
  BY DEF RowsTyped
<1>2. g \in Past /\ g.saw = h.saw /\ g.over = h.over /\ g.answer = n /\ g.project = h.project
  <2> HIDE DEF h
  <2> QED
    BY <1>1 DEF Past
<1>3. history' = [history EXCEPT ![r] = g]
  BY DEF Answered
<1> HIDE DEF r, g, h
<1>4. r \in DOMAIN history
  BY DEF r
<1> QED
  BY <1>1, <1>2, <1>3, <1>4, Changed DEF PastGrows, r, h

LEMMA RunOver ==
  ASSUME RowsTyped, NEW p, run[p] \in DOMAIN history, NEW how \in {"kept", "stored"}, Over(p, how)
  PROVE  /\ PastGrows(run[p])
         /\ history'[run[p]].over = how
         /\ history'[run[p]].answer = history[run[p]].answer
         /\ history'[run[p]].saw = history[run[p]].saw
<1> DEFINE r == run[p]
           h == history[r]
           g == [h EXCEPT !.over = how]
<1>1. h \in Past /\ history \in Seq(Past)
  BY DEF RowsTyped
<1>2. g \in Past /\ g.saw = h.saw /\ g.over = how /\ g.answer = h.answer /\ g.project = h.project
  <2> HIDE DEF h
  <2> QED
    BY <1>1 DEF Past
<1>3. history' = [history EXCEPT ![r] = g]
  BY DEF Over
<1> HIDE DEF r, g, h
<1>4. r \in DOMAIN history
  BY DEF r
<1> QED
  BY <1>1, <1>2, <1>3, <1>4, Changed DEF PastGrows, r, h

Step(p) ==
  \/ StartRun(p) \/ Retrieve(p) \/ Record(p) \/ FinishInMemory(p)
  \/ BeginFinish(p) \/ InsertNext(p) \/ Commit(p) \/ FinishRaises(p) \/ Die(p)

\* Every run under way is one of the history that is not over, and no two
\* ports are at the same one.
Owned ==
  /\ \A p \in Port : pc[p] # "idle" =>
       /\ run[p] \in DOMAIN history
       /\ history[run[p]].over = "no" /\ history[run[p]].project = project[p]
  /\ \A p, q \in Port : p # q /\ pc[p] # "idle" /\ pc[q] # "idle" => run[p] # run[q]

NewPast(p) == [project |-> project[p], tried |-> 0, saw |-> <<>>, answer |-> NoAnswer, over |-> "no"]
HistoryMoves(p) ==
  \/ history' = history
  \/ pc[p] # "idle" /\ PastGrows(run[p])
  \/ pc[p] = "idle" /\ history' = Append(history, NewPast(p))

LEMMA StepMovesHistory ==
  ASSUME TypeOK, Owned, NEW p \in Port, Step(p) PROVE HistoryMoves(p)
<1> USE DEF HistoryMoves
<1>1. CASE StartRun(p)
  BY <1>1 DEF StartRun, NewPast
<1>2. CASE Record(p)
  <2>1. PICK o \in Observations : Saw(p, o)
    BY <1>2 DEF Record, Saw
  <2>2. pc[p] # "idle"
    BY <1>2 DEF Record
  <2> QED
    BY <2>1, <2>2, RunSaw DEF Owned, TypeOK
<1>3. CASE FinishInMemory(p)
  <2>1. pc[p] # "idle" /\ Over(p, "kept")
    BY <1>3 DEF FinishInMemory, Over
  <2> QED
    BY <2>1, RunOver DEF Owned, TypeOK
<1>4. CASE BeginFinish(p)
  <2>1. PICK n \in Answers : Answered(p, n)
    BY <1>4 DEF BeginFinish, Answered
  <2>2. n \in Note \cup {NoAnswer} /\ pc[p] # "idle"
    BY <1>4, MemoryAssumption DEF BeginFinish
  <2> QED
    BY <2>1, <2>2, RunAnswered DEF Owned, TypeOK
<1>5. CASE Commit(p)
  <2>1. pc[p] # "idle" /\ Over(p, "stored")
    BY <1>5 DEF Commit, Over
  <2> QED
    BY <2>1, RunOver DEF Owned, TypeOK
<1>6. CASE Retrieve(p) \/ InsertNext(p) \/ FinishRaises(p) \/ Die(p)
  BY <1>6 DEF Retrieve, InsertNext, FinishRaises, Die
<1> QED
  BY <1>1, <1>2, <1>3, <1>4, <1>5, <1>6 DEF Step

\* What a step of one port leaves alone: the other ports and their runs.
LEMMA OthersKept ==
  ASSUME TypeOK, NEW p \in Port, Step(p)
  PROVE  /\ UNCHANGED port
         /\ \A q \in Port \ {p} :
              /\ pc'[q] = pc[q] /\ run'[q] = run[q] /\ pending'[q] = pending[q]
              /\ answer'[q] = answer[q] /\ at'[q] = at[q] /\ tx'[q] = tx[q]
              /\ records'[q] = records[q] /\ stamp'[q] = stamp[q]
<1> USE DEF TypeOK, PortsTyped, WritesTyped, port, finishing, Reset
<1>1. CASE StartRun(p)
  BY <1>1 DEF StartRun
<1>2. CASE Record(p)
  BY <1>2 DEF Record
<1>3. CASE FinishInMemory(p) \/ Retrieve(p)
  BY <1>3 DEF FinishInMemory, Retrieve
<1>4. CASE BeginFinish(p)
  BY <1>4 DEF BeginFinish
<1>5. CASE InsertNext(p)
  BY <1>5 DEF InsertNext, Insert
<1>6. CASE Commit(p)
  BY <1>6 DEF Commit, EndTransaction
<1>7. CASE FinishRaises(p)
  BY <1>7 DEF FinishRaises, EndTransaction
<1>8. CASE Die(p)
  BY <1>8 DEF Die, EndTransaction
<1> QED
  BY <1>1, <1>2, <1>3, <1>4, <1>5, <1>6, <1>7, <1>8 DEF Step

LEMMA OtherRunsKept ==
  ASSUME TypeOK, Owned, NEW p \in Port, Step(p), NEW r \in DOMAIN history,
         pc[p] # "idle" => r # run[p]
  PROVE  r \in DOMAIN history' /\ history'[r] = history[r]
<1>1. history \in Seq(Past) /\ HistoryMoves(p)
  BY StepMovesHistory DEF TypeOK, RowsTyped
<1>2. CASE history' = Append(history, NewPast(p))
  BY <1>1, <1>2
<1> QED
  BY <1>1, <1>2 DEF HistoryMoves, PastGrows

LEMMA NextTyped ==
  ASSUME TypeOK, Owned, NEW p \in Port, Step(p) PROVE TypeOK'
<1>1. history' \in Seq(Past)
  <2>1. history \in Seq(Past) /\ HistoryMoves(p) /\ NewPast(p) \in Past
    BY StepMovesHistory DEF TypeOK, RowsTyped, PortsTyped, NewPast, Past
  <2> QED
    BY <2>1 DEF HistoryMoves, PastGrows
<1>2. db' \in Seq(RowType)
  <2>1. db \in Seq(RowType) /\ tx[p] \in Seq(RowType)
    BY DEF TypeOK, RowsTyped, WritesTyped
  <2>2. db' = db \/ db' = db \o tx[p]
    BY DEF Step, StartRun, Retrieve, Record, FinishInMemory, BeginFinish, InsertNext, Commit,
           FinishRaises, Rollback, Die
  <2>3. \A S : \A a, b \in Seq(S) : a \o b \in Seq(S)
    OBVIOUS
  <2> QED
    BY <2>1, <2>2, <2>3
<1>3. kind' = kind /\ project' = project
  BY OthersKept DEF port
<1>4. /\ pc' \in [Port -> {"idle", "open", "writing"}] /\ run' \in [Port -> Nat]
      /\ stamp' \in [Port -> Nat] /\ at' \in [Port -> Nat] /\ now' \in Nat
      /\ answer' \in [Port -> Note \cup {NoAnswer}]
  <2> USE DEF TypeOK, PortsTyped, WritesTyped, Reset, EndTransaction, finishing
  <2>1. CASE StartRun(p)
    <3>1. Len(history) + 1 \in Nat
      BY DEF RowsTyped
    <3> QED
      BY <2>1, <3>1 DEF StartRun
  <2>2. CASE Record(p) \/ FinishInMemory(p) \/ Retrieve(p)
    BY <2>2 DEF Record, FinishInMemory, Retrieve
  <2>3. CASE BeginFinish(p)
    <3>1. now' \in Nat
      BY <2>3 DEF BeginFinish
    <3>2. answer' \in [Port -> Note \cup {NoAnswer}]
      BY <2>3, MemoryAssumption DEF BeginFinish
    <3> QED
      BY <2>3, <3>1, <3>2 DEF BeginFinish
  <2>4. CASE InsertNext(p)
    BY <2>4 DEF InsertNext
  <2>5. CASE Commit(p)
    BY <2>5 DEF Commit
  <2>6. CASE FinishRaises(p)
    BY <2>6 DEF FinishRaises
  <2>7. CASE Die(p)
    BY <2>7 DEF Die
  <2> QED
    BY <2>1, <2>2, <2>3, <2>4, <2>5, <2>6, <2>7 DEF Step
<1>5. pending' \in [Port -> Seq(Seen)] /\ records' \in [Port -> Seq(RowType)]
  <2>1. pending \in [Port -> Seq(Seen)] /\ records \in [Port -> Seq(RowType)]
    BY DEF TypeOK, PortsTyped
  <2>2. CASE Record(p)
    <3>1. PICK o \in Observations :
            /\ \/ pending' = pending
               \/ pending' = [pending EXCEPT ![p] = IF o[3] THEN Append(@, <<o[1], o[2]>>) ELSE @]
            /\ \/ records' = records
               \/ LET row == [project |-> project[p], ts |-> 0, note |-> o[2], run |-> run[p],
                              tool |-> o[1]]
                  IN  records' = [records EXCEPT ![p] = IF o[3] THEN Append(@, row) ELSE @]
      BY <2>2 DEF Record
    <3>2. /\ <<o[1], o[2]>> \in Seen
          /\ [project |-> project[p], ts |-> 0, note |-> o[2], run |-> run[p], tool |-> o[1]]
               \in RowType
      BY MemoryAssumption DEF TypeOK, PortsTyped, Seen, RowType
    <3>3. \A S : \A f \in [Port -> Seq(S)], x \in S :
            [f EXCEPT ![p] = IF o[3] THEN Append(@, x) ELSE @] \in [Port -> Seq(S)]
      OBVIOUS
    <3> DEFINE row == [project |-> project[p], ts |-> 0, note |-> o[2], run |-> run[p],
                       tool |-> o[1]]
    <3>4. [pending EXCEPT ![p] = IF o[3] THEN Append(@, <<o[1], o[2]>>) ELSE @]
            \in [Port -> Seq(Seen)]
      BY <2>1, <3>2, <3>3
    <3>5. [records EXCEPT ![p] = IF o[3] THEN Append(@, row) ELSE @] \in [Port -> Seq(RowType)]
      <4> HIDE DEF row
      <4> QED
        BY <2>1, <3>2, <3>3 DEF row
    <3> QED
      BY <2>1, <3>1, <3>4, <3>5
  <2>3. CASE ~Record(p)
    <3>1. \A S : <<>> \in Seq(S)
      OBVIOUS
    <3>2. pending' = pending \/ pending' = [pending EXCEPT ![p] = <<>>]
      BY <2>3 DEF Step, StartRun, PendingAtStart, Retrieve, FinishInMemory,
         BeginFinish, InsertNext, Commit, FinishRaises, Die, Reset
    <3>3. records' = records \/ records' = [records EXCEPT ![p] = <<>>]
      BY <2>3 DEF Step, StartRun, Retrieve, FinishInMemory,
         BeginFinish, InsertNext, Commit, FinishRaises, Die, Reset
    <3> QED
      BY <2>1, <3>1, <3>2, <3>3
  <2> QED
    BY <2>2, <2>3
<1>6. tx' \in [Port -> Seq(RowType)]
  <2>1. tx \in [Port -> Seq(RowType)] /\ \A S : <<>> \in Seq(S)
    BY DEF TypeOK, WritesTyped
  <2>2. CASE InsertNext(p)
    <3>1. PICK tool, note : Insert(p, tool, note)
                             /\ \/ /\ at[p] < Len(pending[p]) 
                                   /\ tool = pending[p][at[p] + 1][1] /\ note = pending[p][at[p] + 1][2]
                                \/ tool = "answer" /\ note = answer[p]
      BY <2>2 DEF InsertNext
    <3>2. tool \in Tool \cup {"answer"} /\ note \in Note \cup {NoAnswer}
      <4>1. CASE tool = "answer" /\ note = answer[p]
        BY <4>1 DEF TypeOK, WritesTyped
      <4>2. CASE at[p] < Len(pending[p]) /\ tool = pending[p][at[p] + 1][1]
                   /\ note = pending[p][at[p] + 1][2]
        <5>1. at[p] \in Nat /\ pending[p] \in Seq(Seen)
          BY DEF TypeOK, WritesTyped, PortsTyped
        <5>2. pending[p][at[p] + 1] \in Seen
          BY <4>2, <5>1
        <5> QED
          BY <4>2, <5>2 DEF Seen
      <4> QED
        BY <3>1, <4>1, <4>2
    <3>3. note \notin {Blank, NoAnswer} => Row(p, tool, note) \in RowType
      BY <3>2 DEF Row, RowType, TypeOK, PortsTyped, WritesTyped
    <3> QED
      BY <2>1, <3>1, <3>3 DEF Insert
  <2>3. CASE ~InsertNext(p)
    BY <2>1, <2>3 DEF Step, StartRun, Retrieve, Record, FinishInMemory, BeginFinish, Commit,
       FinishRaises, Die, Reset, EndTransaction, finishing
  <2> QED
    BY <2>2, <2>3
<1> QED
  BY <1>1, <1>2, <1>3, <1>4, <1>5, <1>6 DEF TypeOK, PortsTyped, WritesTyped, RowsTyped

LEMMA NextOwned ==
  ASSUME TypeOK, Owned, NEW p \in Port, Step(p) PROVE Owned'
<1>1. history \in Seq(Past) /\ DOMAIN history = 1..Len(history) /\ Len(history) \in Nat
  BY DEF TypeOK, RowsTyped
<1>2. project' = project /\ \A q \in Port \ {p} : pc'[q] = pc[q] /\ run'[q] = run[q]
  BY OthersKept DEF port
<1>3. ASSUME NEW q \in Port \ {p}, pc[q] # "idle"
      PROVE  run[q] \in DOMAIN history' /\ history'[run[q]] = history[run[q]]
  BY <1>3, OtherRunsKept DEF Owned
<1>4. \/ pc'[p] = "idle"
      \/ /\ pc[p] # "idle" /\ run'[p] = run[p] /\ run[p] \in DOMAIN history'
         /\ history'[run[p]].over = history[run[p]].over
         /\ history'[run[p]].project = history[run[p]].project
      \/ /\ run'[p] = Len(history) + 1 /\ run'[p] \in DOMAIN history'
         /\ history'[run'[p]] = NewPast(p)
  <2> USE DEF TypeOK, PortsTyped, Reset
  <2>1. CASE StartRun(p)
    <3>1. history' = Append(history, NewPast(p)) /\ run'[p] = Len(history) + 1
      BY <2>1 DEF StartRun, NewPast
    <3> QED
      BY <1>1, <3>1
  <2>2. CASE Record(p)
    <3>1. pc[p] # "idle" /\ UNCHANGED <<pc, run>> /\ \E o \in Observations : Saw(p, o)
      BY <2>2 DEF Record, Saw
    <3> QED
      BY <3>1, RunSaw DEF Owned, PastGrows
  <2>3. CASE BeginFinish(p)
    <3>1. /\ pc[p] # "idle" /\ UNCHANGED run
          /\ \E n \in Note \cup {NoAnswer} : Answered(p, n)
      BY <2>3, MemoryAssumption DEF BeginFinish, Answered
    <3> QED
      BY <3>1, RunAnswered DEF Owned, PastGrows
  <2>4. CASE FinishInMemory(p) \/ Commit(p) \/ FinishRaises(p) \/ Die(p)
    BY <2>4 DEF FinishInMemory, Commit, FinishRaises, Die
  <2>5. CASE Retrieve(p) \/ InsertNext(p)
    BY <2>5 DEF Retrieve, InsertNext, Owned
  <2> QED
    BY <2>1, <2>2, <2>3, <2>4, <2>5 DEF Step
<1>5. \A q \in Port : pc[q] # "idle" => run[q] # Len(history) + 1
  BY <1>1 DEF Owned
<1> QED
  BY <1>2, <1>3, <1>4, <1>5 DEF Owned, NewPast

------------------------------------------------------------------------------
(* What is written.  The rows of the open transaction are those of the      *)
(* pending observations the loop has been through, and those of a run in    *)
(* the file are there from its commit on.                                   *)
What(rows) == [i \in DOMAIN rows |-> <<rows[i].tool, rows[i].note>>]
Rows(d, r) == Selected(d, {row \in ToSet(d) : row.run = r})
AnswerOf(n) == IF n \in {Blank, NoAnswer} THEN <<>> ELSE <<<<"answer", n>>>>

LEMMA RowsConcat ==
  ASSUME NEW d \in Seq(RowType), NEW t \in Seq(RowType), NEW r
  PROVE  /\ Rows(d \o t, r) = Rows(d, r) \o Rows(t, r)
         /\ (\A i \in DOMAIN t : t[i].run = r) => Rows(t, r) = t
         /\ (\A i \in DOMAIN t : t[i].run # r) => Rows(t, r) = <<>>
<1> DEFINE C == {row \in RowType : row.run = r}
<1>1. ASSUME NEW g \in Seq(RowType) PROVE Rows(g, r) = Selected(g, C) /\ Selected(g, C) \in Seq(RowType)
  <2>1. \A i \in DOMAIN g : g[i] \in RowType /\ g[i] \in ToSet(g)
    BY DEF ToSet
  <2>2. \A i \in DOMAIN g : g[i] \in {row \in ToSet(g) : row.run = r} <=> g[i] \in C
    BY <2>1
  <2> HIDE DEF C
  <2>3. Selected(g, C) \in Seq(RowType \cap C)
    BY SelectedType
  <2>4. Selected(g, C) \in Seq(RowType)
    BY <2>3
  <2> QED
    BY <2>2, <2>4, SelectedSame DEF Rows
<1>2. d \o t \in Seq(RowType) /\ \A i \in DOMAIN t : t[i] \in RowType
  OBVIOUS
<1>3. ASSUME \A i \in DOMAIN t : t[i].run = r PROVE t \in Seq(C)
  <2>1. \A i \in DOMAIN t : t[i] \in C
    BY <1>2, <1>3
  <2> HIDE DEF C
  <2> QED
    BY <2>1
<1>4. ASSUME \A i \in DOMAIN t : t[i].run # r PROVE t \in Seq(RowType \ C)
  <2>1. \A i \in DOMAIN t : t[i] \in RowType \ C
    BY <1>2, <1>4
  <2> HIDE DEF C
  <2> QED
    BY <2>1
<1> HIDE DEF C
<1>5. Selected(d \o t, C) = Selected(d, C) \o Selected(t, C)
  BY SelectedConcat
<1>6. (\A i \in DOMAIN t : t[i].run = r) => Rows(t, r) = t
  BY <1>1, <1>3, SelectedAll
<1>7. (\A i \in DOMAIN t : t[i].run # r) => Rows(t, r) = <<>>
  <2>1. (RowType \ C) \cap C = {}
    OBVIOUS
  <2> QED
    BY <1>1, <1>4, <2>1, SelectedNone
<1> QED
  BY <1>1, <1>2, <1>5, <1>6, <1>7

LEMMA KeptAppend ==
  ASSUME NEW s \in Seq(Seen), NEW o \in Seen
  PROVE  /\ Kept(s) \in Seq(Seen)
         /\ Kept(Append(s, o)) = IF o[2] # Blank THEN Append(Kept(s), o) ELSE Kept(s)
<1> DEFINE C == {x \in Seen : x[2] # Blank}
<1>1. ASSUME NEW g \in Seq(Seen) PROVE Kept(g) = Selected(g, C) /\ Selected(g, C) \in Seq(Seen)
  <2>1. \A i \in DOMAIN g : g[i] \in Seen /\ g[i] \in ToSet(g)
    BY DEF ToSet
  <2>2. \A i \in DOMAIN g : g[i] \in {x \in ToSet(g) : x[2] # Blank} <=> g[i] \in C
    BY <2>1
  <2> HIDE DEF C
  <2>3. Selected(g, C) \in Seq(Seen \cap C)
    BY SelectedType
  <2>4. Selected(g, C) \in Seq(Seen)
    BY <2>3
  <2> QED
    BY <2>2, <2>4, SelectedSame DEF Kept
<1>2. Append(s, o) \in Seq(Seen) /\ (o \in C <=> o[2] # Blank)
  OBVIOUS
<1> HIDE DEF C
<1>3. Selected(Append(s, o), C) = IF o \in C THEN Append(Selected(s, C), o) ELSE Selected(s, C)
  BY SelectedAppend
<1> QED
  BY <1>1, <1>2, <1>3

LEMMA KeptNone == Kept(<<>>) = <<>> /\ What(<<>>) = <<>>
  BY SelectedEmpty DEF Kept, What

LEMMA WhatAppend ==
  ASSUME NEW t \in Seq(RowType), NEW x \in RowType
  PROVE  /\ What(t) \in Seq(Told)
         /\ What(Append(t, x)) = Append(What(t), <<x.tool, x.note>>)
         /\ What(t) = <<>> => t = <<>>
<1>1. ASSUME NEW g \in Seq(RowType)
      PROVE  /\ What(g) \in Seq(Told) /\ Len(What(g)) = Len(g)
             /\ \A i \in 1..Len(g) : What(g)[i] = <<g[i].tool, g[i].note>>
  <2>1. DOMAIN g = 1..Len(g) /\ Len(g) \in Nat
    OBVIOUS
  <2>2. \A i \in 1..Len(g) : g[i] \in RowType
    BY <2>1
  <2>3. \A z \in RowType : <<z.tool, z.note>> \in Told
    BY DEF RowType, Told
  <2> QED
    BY <2>1, <2>2, <2>3 DEF What
<1> DEFINE n == Len(t)
           y == <<x.tool, x.note>>
           a == Append(t, x)
<1>2. /\ a \in Seq(RowType) /\ Len(a) = n + 1 /\ n \in Nat
      /\ a[n + 1] = x /\ \A i \in 1..n : a[i] = t[i]
  OBVIOUS
<1>3. y \in Told
  BY DEF RowType, Told
<1> HIDE DEF y, a
<1>4. /\ Append(What(t), y) \in Seq(Told) /\ Len(Append(What(t), y)) = n + 1
      /\ Append(What(t), y)[n + 1] = y
      /\ \A i \in 1..n : Append(What(t), y)[i] = What(t)[i]
  BY <1>1, <1>2, <1>3
<1>5. What(a)[n + 1] = y /\ \A i \in 1..n : What(a)[i] = What(t)[i]
  <2>1. n + 1 \in 1..Len(a) /\ Len(t) = n /\ \A i \in 1..n : i \in 1..Len(a)
    BY <1>2
  <2>2. /\ \A i \in 1..Len(a) : What(a)[i] = <<a[i].tool, a[i].note>>
        /\ \A i \in 1..n : What(t)[i] = <<t[i].tool, t[i].note>>
    BY <1>1, <1>2
  <2> QED
    BY <1>2, <2>1, <2>2 DEF y
<1>6. What(a) \in Seq(Told) /\ Len(What(a)) = n + 1
  BY <1>1, <1>2
<1>7. \A i \in 1..n + 1 : What(a)[i] = Append(What(t), y)[i]
  <2>1. \A i \in 1..n + 1 : i \in 1..n \/ i = n + 1
    BY <1>2
  <2> QED
    BY <1>4, <1>5, <2>1
<1>8. What(a) = Append(What(t), y)
  BY <1>4, <1>6, <1>7
<1> QED
  BY <1>1, <1>8 DEF a, y

Writing(p) ==
  /\ pc[p] # "idle" /\ kind[p] = "simplemem" => pending[p] = history[run[p]].saw
  /\ pc[p] = "writing" =>
       /\ kind[p] = "simplemem" /\ answer[p] = history[run[p]].answer
       /\ at[p] <= Len(pending[p]) + 1
       /\ \A i \in DOMAIN tx[p] : tx[p][i].run = run[p] /\ tx[p][i].project = project[p]
       /\ What(tx[p]) = IF at[p] <= Len(pending[p]) THEN Kept(Beginning(pending[p], at[p]))
                        ELSE Kept(pending[p]) \o AnswerOf(answer[p])

LEMMA InsertWrites ==
  ASSUME TypeOK, Owned, NEW p \in Port, Writing(p), InsertNext(p) PROVE Writing(p)'
<1> DEFINE s == pending[p]
           n == at[p]
           t == tx[p]
           b == Beginning(s, n)
<1>1. /\ s \in Seq(Seen) /\ n \in Nat /\ t \in Seq(RowType) /\ n <= Len(s) /\ Len(s) \in Nat
      /\ n \in 0..Len(s) /\ pc[p] = "writing" /\ answer[p] \in Note \cup {NoAnswer}
      /\ What(t) = Kept(b)
      /\ \A i \in DOMAIN t : t[i].run = run[p] /\ t[i].project = project[p]
      /\ project[p] \in Project /\ stamp[p] \in Nat /\ run[p] \in Nat
  BY DEF InsertNext, TypeOK, PortsTyped, WritesTyped, Writing
<1>2. /\ UNCHANGED <<port, pc, run, pending, answer, history>>
      /\ at' = [at EXCEPT ![p] = @ + 1]
  BY DEF InsertNext
<1>3. at'[p] = n + 1
  BY <1>2 DEF TypeOK, WritesTyped
<1>4. ASSUME NEW tool \in Tool \cup {"answer"}, NEW note \in Note \cup {NoAnswer}, Insert(p, tool, note)
      PROVE  /\ \A i \in DOMAIN tx'[p] : tx'[p][i].run = run[p] /\ tx'[p][i].project = project[p]
             /\ What(tx'[p]) = IF note \in {Blank, NoAnswer} THEN What(t)
                               ELSE Append(What(t), <<tool, note>>)
  <2>1. CASE note \in {Blank, NoAnswer}
    BY <1>1, <1>4, <2>1 DEF Insert
  <2>2. CASE note \notin {Blank, NoAnswer}
    <3> DEFINE row == Row(p, tool, note)
    <3>1. /\ row \in RowType /\ row.tool = tool /\ row.note = note /\ row.run = run[p]
          /\ row.project = project[p]
      BY <1>1, <2>2 DEF Row, RowType
    <3>2. tx'[p] = Append(t, row)
      BY <1>4, <2>2 DEF Insert, TypeOK, WritesTyped
    <3> HIDE DEF row
    <3>3. What(tx'[p]) = Append(What(t), <<tool, note>>)
      BY <1>1, <3>1, <3>2, WhatAppend
    <3>4. \A i \in DOMAIN Append(t, row) : i \in DOMAIN t \/ Append(t, row)[i] = row
      BY <1>1, <3>1, Appended
    <3>5. \A i \in DOMAIN t : Append(t, row)[i] = t[i]
      BY <1>1, <3>1, Appended
    <3> QED
      BY <1>1, <2>2, <3>1, <3>2, <3>3, <3>4, <3>5
  <2> QED
    BY <2>1, <2>2
<1>7. /\ UNCHANGED <<kind, project, pc, run, pending, answer, history>>
      /\ kind[p] = "simplemem" /\ pending[p] = history[run[p]].saw
      /\ answer[p] = history[run[p]].answer
  BY <1>1, <1>2 DEF Writing, port
<1>5. CASE n < Len(s)
  <2> DEFINE o == s[n + 1]
  <2>1. o \in Seen /\ b \in Seq(Seen) /\ Beginning(s, n + 1) = Append(b, o)
    BY <1>1, <1>5, BeginningGrows
  <2>2. o[1] \in Tool \cup {"answer"} /\ o[2] \in Note /\ <<o[1], o[2]>> = o
    BY <2>1 DEF Seen
  <2>3. Insert(p, o[1], o[2])
    BY <1>5 DEF InsertNext
  <2> HIDE DEF o, b
  <2>4. /\ \A i \in DOMAIN tx'[p] : tx'[p][i].run = run[p] /\ tx'[p][i].project = project[p]
        /\ What(tx'[p]) = IF o[2] \in {Blank, NoAnswer} THEN What(t) ELSE Append(What(t), o)
    BY <1>4, <2>2, <2>3
  <2>5. o[2] # NoAnswer
    BY <2>2, MemoryAssumption
  <2>6. What(tx'[p]) = Kept(Append(b, o))
    BY <1>1, <2>1, <2>4, <2>5, KeptAppend
  <2>7. at'[p] \in 0..Len(s) /\ at'[p] = n + 1 /\ at'[p] <= Len(s)
    BY <1>1, <1>3, <1>5
  <2>8. What(tx'[p]) = Kept(Beginning(s, at'[p]))
    BY <2>1, <2>6, <2>7
  <2> HIDE DEF s
  <2> QED
    BY <1>7, <1>1, <2>4, <2>7, <2>8 DEF Writing, s
<1>6. CASE n = Len(s)
  <2>1. Insert(p, "answer", answer[p])
    BY <1>1, <1>6 DEF InsertNext
  <2>2. /\ \A i \in DOMAIN tx'[p] : tx'[p][i].run = run[p] /\ tx'[p][i].project = project[p]
        /\ What(tx'[p]) = IF answer[p] \in {Blank, NoAnswer} THEN What(t)
                          ELSE Append(What(t), <<"answer", answer[p]>>)
    BY <1>1, <1>4, <2>1
  <2>3. b = s
    BY <1>1, <1>6, BeginningGrows
  <2>4. What(t) \in Seq(Told) /\ What(t) = Kept(s)
    <3>1. Row(p, "answer", Blank) \in RowType
      BY <1>1, MemoryAssumption DEF Row, RowType
    <3> QED
      BY <1>1, <2>3, <3>1, WhatAppend
  <2>5. \A S : \A x \in Seq(S), y \in S : x \o <<>> = x /\ x \o <<y>> = Append(x, y)
    OBVIOUS
  <2>6. What(tx'[p]) = Kept(s) \o AnswerOf(answer[p])
    <3>1. CASE answer[p] \in {Blank, NoAnswer}
      <4>1. Kept(s) \o <<>> = Kept(s)
        BY <2>4, <2>5
      <4> QED
        BY <2>2, <2>4, <3>1, <4>1 DEF AnswerOf
    <3>2. CASE answer[p] \notin {Blank, NoAnswer}
      <4> DEFINE y == <<"answer", answer[p]>>
      <4>1. y \in Told
        BY <1>1, <3>2 DEF Told
      <4> HIDE DEF y
      <4>2. Kept(s) \o <<y>> = Append(Kept(s), y)
        BY <2>4, <2>5, <4>1
      <4> QED
        BY <2>2, <2>4, <3>2, <4>2 DEF AnswerOf, y
    <3> QED
      BY <3>1, <3>2
  <2>7. at'[p] = Len(s) + 1
    BY <1>3, <1>6
  <2>8. /\ kind'[p] = kind[p] /\ pending'[p] = s /\ history'[run'[p]] = history[run[p]]
        /\ answer'[p] = answer[p] /\ run'[p] = run[p] /\ project'[p] = project[p]
    BY <1>7
  <2>9. ~(at'[p] <= Len(s)) /\ at'[p] <= Len(s) + 1
    BY <1>1, <2>7
  <2> HIDE DEF s
  <2> QED
    BY <1>1, <1>7, <2>2, <2>6, <2>7, <2>8, <2>9 DEF Writing, s
<1> QED
  BY <1>1, <1>5, <1>6

LEMMA NextWriting ==
  ASSUME TypeOK, Owned, \A q \in Port : Writing(q), NEW p \in Port, Step(p)
  PROVE  \A q \in Port : Writing(q)'
<1>1. kind' = kind /\ project' = project
  BY OthersKept DEF port
<1>2. ASSUME NEW q \in Port \ {p} PROVE Writing(q)'
  <2>1. /\ pc'[q] = pc[q] /\ run'[q] = run[q] /\ pending'[q] = pending[q]
        /\ answer'[q] = answer[q] /\ at'[q] = at[q] /\ tx'[q] = tx[q]
    BY OthersKept
  <2>2. pc[q] # "idle" => history'[run[q]] = history[run[q]]
    BY OtherRunsKept DEF Owned
  <2> QED
    BY <1>1, <2>1, <2>2 DEF Writing
<1>3. Writing(p)'
  <2> USE DEF TypeOK, PortsTyped, WritesTyped, Reset
  <2>1. CASE StartRun(p)
    <3>1. /\ history' = Append(history, NewPast(p)) /\ run'[p] = Len(history) + 1
          /\ pc'[p] = "open" /\ pending'[p] = <<>>
      BY <2>1 DEF StartRun, NewPast, PendingAtStart
    <3>2. history \in Seq(Past) /\ NewPast(p) \in Past /\ NewPast(p).saw = <<>>
      BY DEF RowsTyped, NewPast, Past
    <3>3. history'[run'[p]] = NewPast(p)
      BY <3>1, <3>2, Appended
    <3> QED
      BY <3>1, <3>2, <3>3 DEF Writing
  <2>2. CASE Record(p)
    <3>1. pc[p] = "open" /\ pc' = pc /\ run' = run
      BY <2>2 DEF Record
    <3>2. PICK o \in Observations :
            /\ Saw(p, o)
            /\ kind[p] # "inmemory" =>
                 pending' = [pending EXCEPT ![p] = IF o[3] THEN Append(@, <<o[1], o[2]>>) ELSE @]
      BY <2>2 DEF Record, Saw
    <3>3. history'[run[p]].saw = IF o[3] THEN Append(history[run[p]].saw, <<o[1], o[2]>>)
                                 ELSE history[run[p]].saw
      BY <3>1, <3>2, RunSaw DEF Owned
    <3>4. kind[p] = "simplemem" =>
            pending'[p] = IF o[3] THEN Append(pending[p], <<o[1], o[2]>>) ELSE pending[p]
      BY <3>2
    <3>5. kind[p] = "simplemem" => pending[p] = history[run[p]].saw
      BY <3>1 DEF Writing
    <3>6. pc'[p] = "open" /\ run'[p] = run[p] /\ kind'[p] = kind[p]
      BY <1>1, <3>1
    <3> QED
      BY <3>3, <3>4, <3>5, <3>6 DEF Writing
  <2>3. CASE BeginFinish(p)
    <3>1. /\ pc[p] = "open" /\ kind[p] = "simplemem" /\ pc'[p] = "writing" /\ run' = run
          /\ pending' = pending /\ at'[p] = 0 /\ tx'[p] = <<>>
      BY <2>3 DEF BeginFinish
    <3>2. PICK n \in Answers : answer'[p] = n /\ Answered(p, n)
      BY <2>3 DEF BeginFinish, Answered
    <3>3. n \in Note \cup {NoAnswer} /\ run[p] \in DOMAIN history
      BY <3>1, MemoryAssumption DEF Owned
    <3>4. history'[run[p]].answer = n /\ history'[run[p]].saw = history[run[p]].saw
      BY <3>2, <3>3, RunAnswered
    <3>5. pending[p] \in Seq(Seen) /\ Len(pending[p]) \in Nat /\ 0 \in 0..Len(pending[p])
      OBVIOUS
    <3>6. What(<<>>) = Kept(Beginning(pending[p], 0))
      BY <3>5, BeginningGrows, KeptNone
    <3>7. /\ pending'[p] = history'[run'[p]].saw /\ answer'[p] = history'[run'[p]].answer
          /\ at'[p] <= Len(pending'[p])
      BY <3>1, <3>2, <3>4, <3>5 DEF Writing
    <3>8. \A i \in DOMAIN tx'[p] : FALSE
      BY <3>1
    <3> QED
      BY <1>1, <3>1, <3>5, <3>6, <3>7, <3>8 DEF Writing
  <2>4. CASE FinishInMemory(p) \/ Commit(p) \/ FinishRaises(p) \/ Die(p)
    <3>1. pc'[p] = "idle"
      BY <2>4 DEF FinishInMemory, Commit, FinishRaises, Die
    <3> QED
      BY <3>1 DEF Writing
  <2>5. CASE Retrieve(p)
    BY <2>5 DEF Retrieve, Writing, port, finishing
  <2>6. CASE InsertNext(p)
    BY <2>6, InsertWrites
  <2> QED
    BY <2>1, <2>2, <2>3, <2>4, <2>5, <2>6 DEF Step
<1> QED
  BY <1>2, <1>3

\* Where a row comes from.
FromRun(row) == row.run \in DOMAIN history /\ row.project = history[row.run].project
DbEarned == \A i \in DOMAIN db :
  /\ FromRun(db[i]) /\ history[db[i].run].over = "stored"
  /\ <<db[i].tool, db[i].note>>
       \in ToSet(history[db[i].run].saw) \cup {<<"answer", history[db[i].run].answer>>}
RecordsEarned == \A p \in Port : \A i \in DOMAIN records[p] :
  LET row == records[p][i]
  IN  /\ FromRun(row) /\ row.project = project[p]
      /\ <<row.tool, row.note>> \in ToSet(history[row.run].saw)

LEMMA CommittedRows ==
  ASSUME TypeOK, Owned, NEW p \in Port, Writing(p), Commit(p)
  PROVE  /\ What(tx[p]) = Legacy(run[p])
         /\ \A i \in DOMAIN tx[p] :
              /\ tx[p][i].run = run[p] /\ tx[p][i].project = project[p]
              /\ <<tx[p][i].tool, tx[p][i].note>>
                   \in ToSet(history[run[p]].saw) \cup {<<"answer", history[run[p]].answer>>}
<1> DEFINE s == pending[p]
           t == tx[p]
           a == answer[p]
<1>1. /\ s \in Seq(Seen) /\ t \in Seq(RowType) /\ a \in Note \cup {NoAnswer}
      /\ pc[p] = "writing" /\ at[p] = Len(s) + 1 /\ Len(s) \in Nat
  BY DEF Commit, TypeOK, PortsTyped, WritesTyped
<1>2. /\ s = history[run[p]].saw /\ a = history[run[p]].answer
      /\ \A i \in DOMAIN t : t[i].run = run[p] /\ t[i].project = project[p]
      /\ What(t) = Kept(s) \o AnswerOf(a)
  <2>1. ~(at[p] <= Len(s))
    BY <1>1
  <2> QED
    BY <1>1, <2>1 DEF Writing
<1>3. What(t) = Legacy(run[p])
  BY <1>2 DEF Legacy, AnswerOf
<1>4. Kept(s) \in Seq(ToSet(s))
  <2>1. s \in Seq(ToSet(s))
    BY <1>1 DEF ToSet
  <2>2. Kept(s) \in Seq(ToSet(s) \cap {o \in ToSet(s) : o[2] # Blank})
    BY <2>1, SelectedType DEF Kept
  <2> QED
    BY <2>2
<1>5. ASSUME NEW i \in DOMAIN t
      PROVE  <<t[i].tool, t[i].note>> \in ToSet(s) \cup {<<"answer", a>>}
  <2> DEFINE A == ToSet(s) \cup {<<"answer", a>>}
  <2>1. Kept(s) \in Seq(A) /\ AnswerOf(a) \in Seq(A)
    <3>1. \A S : \A x \in S : <<>> \in Seq(S) /\ <<x>> \in Seq(S)
      OBVIOUS
    <3> QED
      BY <1>4, <3>1 DEF AnswerOf
  <2> HIDE DEF A
  <2>2. Kept(s) \o AnswerOf(a) \in Seq(A)
    BY <2>1
  <2>3. DOMAIN What(t) = DOMAIN t /\ What(t)[i] = <<t[i].tool, t[i].note>>
    BY DEF What
  <2>4. \A v \in Seq(A) : \A k \in DOMAIN v : v[k] \in A
    OBVIOUS
  <2>5. What(t) \in Seq(A) /\ i \in DOMAIN What(t)
    BY <1>2, <2>2, <2>3
  <2>6. What(t)[i] \in A
    BY <2>4, <2>5
  <2> QED
    BY <2>3, <2>6 DEF A
<1> QED
  BY <1>2, <1>3, <1>5

LEMMA NextDbEarned ==
  ASSUME TypeOK, Owned, \A q \in Port : Writing(q), DbEarned, NEW p \in Port, Step(p)
  PROVE  DbEarned'
<1>1. db \in Seq(RowType) /\ tx[p] \in Seq(RowType) /\ history \in Seq(Past)
  BY DEF TypeOK, RowsTyped, WritesTyped
<1>2. ASSUME NEW i \in DOMAIN db
      PROVE  db[i].run \in DOMAIN history' /\ history'[db[i].run] = history[db[i].run]
  <2>1. db[i].run \in DOMAIN history /\ history[db[i].run].over = "stored"
    BY DEF DbEarned, FromRun
  <2>2. pc[p] # "idle" => db[i].run # run[p]
    BY <2>1 DEF Owned
  <2> QED
    BY <2>1, <2>2, OtherRunsKept
<1>3. CASE Commit(p)
  <2>1. /\ db' = db \o tx[p] /\ pc[p] = "writing" /\ Over(p, "stored")
    BY <1>3 DEF Commit, Over
  <2>2. /\ run[p] \in DOMAIN history' /\ history'[run[p]].over = "stored"
        /\ history'[run[p]].answer = history[run[p]].answer
        /\ history'[run[p]].saw = history[run[p]].saw
        /\ history'[run[p]].project = project[p]
    BY <2>1, RunOver DEF TypeOK, Owned, PastGrows
  <2>3. \A S : \A a, b \in Seq(S) : \A i \in DOMAIN (a \o b) :
          (i \in DOMAIN a /\ (a \o b)[i] = a[i]) \/ (\E j \in DOMAIN b : (a \o b)[i] = b[j])
    <3> SUFFICES ASSUME NEW S, NEW a \in Seq(S), NEW b \in Seq(S), NEW i \in DOMAIN (a \o b)
                 PROVE  \/ i \in DOMAIN a /\ (a \o b)[i] = a[i]
                        \/ \E j \in DOMAIN b : (a \o b)[i] = b[j]
      OBVIOUS
    <3>1. Len(a) \in Nat /\ Len(b) \in Nat /\ i \in 1..Len(a) + Len(b)
      OBVIOUS
    <3>2. CASE i <= Len(a)
      BY <3>1, <3>2
    <3>3. CASE i > Len(a)
      <4>1. i - Len(a) \in DOMAIN b /\ (a \o b)[i] = b[i - Len(a)]
        BY <3>1, <3>3
      <4> QED
        BY <4>1
    <3> QED
      BY <3>1, <3>2, <3>3
  <2>4. ASSUME NEW i \in DOMAIN db'
        PROVE  \/ i \in DOMAIN db /\ db'[i] = db[i]
               \/ \E j \in DOMAIN tx[p] : db'[i] = tx[p][j]
    BY <1>1, <2>1, <2>3
  <2>5. \A j \in DOMAIN tx[p] :
          /\ tx[p][j].run = run[p] /\ tx[p][j].project = project[p]
          /\ <<tx[p][j].tool, tx[p][j].note>>
               \in ToSet(history[run[p]].saw) \cup {<<"answer", history[run[p]].answer>>}
    BY <1>3, CommittedRows
  <2> QED
    BY <1>2, <2>2, <2>4, <2>5 DEF DbEarned, FromRun
<1>4. CASE ~Commit(p)
  <2>1. db' = db
    BY <1>4 DEF Step, StartRun, Retrieve, Record, FinishInMemory, BeginFinish, InsertNext,
           FinishRaises, Rollback, Die
  <2> QED
    BY <1>2, <2>1 DEF DbEarned, FromRun
<1> QED
  BY <1>3, <1>4

LEMMA NextRecordsEarned ==
  ASSUME TypeOK, Owned, RecordsEarned, NEW p \in Port, Step(p)
  PROVE  RecordsEarned'
<1>1. history \in Seq(Past) /\ project' = project
  BY OthersKept DEF TypeOK, RowsTyped, port
<1>0. \A r \in DOMAIN history : history[r].saw \in Seq(Seen)
  <2>1. \A h \in Past : h.saw \in Seq(Seen)
    BY DEF Past
  <2> QED
    BY <1>1, <2>1
<1>2. ASSUME NEW r \in DOMAIN history
      PROVE  /\ r \in DOMAIN history' /\ history'[r].project = history[r].project
             /\ ToSet(history[r].saw) \subseteq ToSet(history'[r].saw)
  <2>1. CASE pc[p] = "idle" \/ r # run[p]
    <3>1. r \in DOMAIN history' /\ history'[r] = history[r]
      BY <2>1, OtherRunsKept
    <3> QED
      BY <3>1
  <2>2. CASE pc[p] # "idle" /\ r = run[p]
    <3>1. /\ r \in DOMAIN history'
          /\ history'[r].project = history[r].project
          /\ \/ history'[r].saw = history[r].saw
             \/ \E x \in Seen : history'[r].saw = Append(history[r].saw, x)
      <4>1. CASE Record(p)
        <5>1. PICK o \in Observations : Saw(p, o)
          BY <4>1 DEF Record, Saw
        <5>2. <<o[1], o[2]>> \in Seen
          BY MemoryAssumption DEF Seen
        <5> QED
          BY <2>2, <5>1, <5>2, RunSaw DEF TypeOK, PastGrows
      <4>2. CASE BeginFinish(p)
        <5>1. PICK n \in Answers : Answered(p, n)
          BY <4>2 DEF BeginFinish, Answered
        <5>2. n \in Note \cup {NoAnswer}
          BY MemoryAssumption
        <5> QED
          BY <2>2, <5>1, <5>2, RunAnswered DEF TypeOK, PastGrows
      <4>3. CASE FinishInMemory(p) \/ Commit(p)
        <5>1. Over(p, "kept") \/ Over(p, "stored")
          BY <4>3 DEF FinishInMemory, Commit, Over
        <5> QED
          BY <2>2, <5>1, RunOver DEF TypeOK, PastGrows
      <4>4. CASE Retrieve(p) \/ InsertNext(p) \/ FinishRaises(p) \/ Die(p)
        BY <4>4 DEF Retrieve, InsertNext, FinishRaises, Die
      <4> QED
        BY <2>2, <4>1, <4>2, <4>3, <4>4 DEF Step, StartRun
    <3>2. \A s \in Seq(Seen) : \A x \in Seen : ToSet(s) \subseteq ToSet(Append(s, x))
      BY Appended DEF ToSet
    <3>3. history[r].saw \in Seq(Seen)
      BY <1>0
    <3> QED
      BY <3>1, <3>2, <3>3
  <2> QED
    BY <2>1, <2>2
<1>3. ASSUME NEW q \in Port, NEW i \in DOMAIN records[q]
      PROVE  LET row == records[q][i]
             IN  /\ row.run \in DOMAIN history' /\ row.project = history'[row.run].project
                 /\ row.project = project[q]
                 /\ <<row.tool, row.note>> \in ToSet(history'[row.run].saw)
  BY <1>2 DEF RecordsEarned, FromRun
<1>4. CASE Record(p) /\ kind[p] = "inmemory"
  <2> DEFINE Made(o) == [project |-> project[p], ts |-> 0, note |-> o[2], run |-> run[p],
                         tool |-> o[1]]
  <2>1. PICK o \in Observations :
          Saw(p, o) /\ records' = [records EXCEPT ![p] = IF o[3] THEN Append(@, Made(o)) ELSE @]
    BY <1>4 DEF Record, Saw
  <2> DEFINE row == Made(o)
  <2>2. /\ row \in RowType /\ row.run = run[p] /\ row.project = project[p]
        /\ row.tool = o[1] /\ row.note = o[2] /\ <<o[1], o[2]>> \in Seen
    BY MemoryAssumption DEF TypeOK, PortsTyped, Seen, RowType
  <2>3. run[p] \in DOMAIN history /\ history[run[p]].project = project[p]
    BY <1>4 DEF Record, Owned
  <2>4. /\ run[p] \in DOMAIN history' /\ history'[run[p]].project = project[p]
        /\ history'[run[p]].saw = IF o[3] THEN Append(history[run[p]].saw, <<o[1], o[2]>>)
                                  ELSE history[run[p]].saw
    BY <2>1, <2>3, RunSaw DEF TypeOK, PastGrows
  <2>5. o[3] => <<o[1], o[2]>> \in ToSet(history'[run[p]].saw)
    <3>1. history[run[p]].saw \in Seq(Seen)
      BY <1>0, <2>3
    <3>2. \A s \in Seq(Seen) : \A x \in Seen : x \in ToSet(Append(s, x))
      BY Appended DEF ToSet
    <3> QED
      BY <2>2, <2>4, <3>1, <3>2
  <2> HIDE DEF Made, row
  <2>6. records'[p] = (IF o[3] THEN Append(records[p], row) ELSE records[p])
        /\ \A q \in Port \ {p} : records'[q] = records[q]
    BY <2>1 DEF TypeOK, PortsTyped, row
  <2>7. records[p] \in Seq(RowType)
    BY DEF TypeOK, PortsTyped
  <2>8. ASSUME NEW q \in Port, NEW i \in DOMAIN records'[q]
        PROVE  \/ i \in DOMAIN records[q] /\ records'[q][i] = records[q][i]
               \/ q = p /\ o[3] /\ records'[q][i] = row
    <3>1. CASE q # p \/ ~o[3]
      BY <2>6, <2>8, <3>1
    <3>2. CASE q = p /\ o[3]
      <4>1. records'[q] = Append(records[p], row)
        BY <2>6, <3>2
      <4>2. /\ \A k \in DOMAIN records[p] : Append(records[p], row)[k] = records[p][k]
            /\ DOMAIN Append(records[p], row) = DOMAIN records[p] \cup {Len(records[p]) + 1}
            /\ Append(records[p], row)[Len(records[p]) + 1] = row
        BY <2>2, <2>7, Appended
      <4> QED
        BY <2>8, <3>2, <4>1, <4>2
    <3> QED
      BY <3>1, <3>2
  <2> SUFFICES ASSUME NEW q \in Port, NEW i \in DOMAIN records'[q]
               PROVE  LET x == records'[q][i]
                      IN  /\ x.run \in DOMAIN history' /\ x.project = history'[x.run].project
                          /\ x.project = project[q]
                          /\ <<x.tool, x.note>> \in ToSet(history'[x.run].saw)
    BY <1>1 DEF RecordsEarned, FromRun
  <2>9. CASE i \in DOMAIN records[q] /\ records'[q][i] = records[q][i]
    BY <1>3, <2>9
  <2>10. CASE q = p /\ o[3] /\ records'[q][i] = row
    BY <2>2, <2>4, <2>5, <2>10
  <2> QED
    BY <2>8, <2>9, <2>10
<1>5. CASE ~(Record(p) /\ kind[p] = "inmemory")
  <2>1. records' = records \/ records' = [records EXCEPT ![p] = <<>>]
    BY <1>5 DEF Step, StartRun, Retrieve, Record, FinishInMemory,
       BeginFinish, InsertNext, Commit, FinishRaises, Die, Reset
  <2>2. \A q \in Port : records'[q] = records[q] \/ records'[q] = <<>>
    BY <2>1 DEF TypeOK, PortsTyped
  <2> QED
    BY <1>1, <1>3, <2>2 DEF RecordsEarned, FromRun
<1> QED
  BY <1>4, <1>5

LEMMA RowsTypedToo ==
  ASSUME NEW d \in Seq(RowType), NEW r PROVE Rows(d, r) \in Seq(RowType)
<1>1. Rows(d, r) \in Seq(RowType \cap {row \in ToSet(d) : row.run = r})
  BY SelectedType DEF Rows
<1> QED
  BY <1>1

LEMMA NextWhole ==
  ASSUME TypeOK, Owned, \A q \in Port : Writing(q), DbEarned, RunsAreWhole, NEW p \in Port, Step(p)
  PROVE  RunsAreWhole'
<1>1. db \in Seq(RowType) /\ tx[p] \in Seq(RowType) /\ history \in Seq(Past)
  BY DEF TypeOK, RowsTyped, WritesTyped
<1>2. \A r : StoredOf(r) = What(Rows(db, r)) /\ StoredOf(r)' = What(Rows(db', r))
  BY DEF StoredOf, What, Rows
<1>3. \A r \in DOMAIN history : r # run[p] \/ pc[p] = "idle" =>
        r \in DOMAIN history' /\ history'[r] = history[r] /\ Legacy(r)' = Legacy(r)
  BY OtherRunsKept DEF Legacy
<1>4. pc[p] # "idle" => What(Rows(db, run[p])) = <<>>
  BY <1>2 DEF Owned, RunsAreWhole
<1>5. CASE Commit(p)
  <2>0. PICK r, t : r = run[p] /\ t = tx[p]
    OBVIOUS
  <2>1. db' = db \o t /\ pc[p] # "idle" /\ Over(p, "stored")
    BY <1>5, <2>0 DEF Commit, Over
  <2>2. /\ PastGrows(r) /\ history'[r].over = "stored"
        /\ history'[r].answer = history[r].answer /\ history'[r].saw = history[r].saw
    BY <2>0, <2>1, RunOver DEF TypeOK, Owned
  <2>3. What(t) = Legacy(r) /\ \A i \in DOMAIN t : t[i].run = r
    BY <1>5, <2>0, CommittedRows
  <2>4. t \in Seq(RowType)
    BY <1>1, <2>0
  <2>5. ASSUME NEW k \in DOMAIN history', k # r
        PROVE  What(Rows(db', k)) = IF history'[k].over = "stored" THEN Legacy(k)' ELSE <<>>
    <3>0. \A i \in DOMAIN t : t[i].run # k
      BY <2>3, <2>5
    <3>1. Rows(db', k) = Rows(db, k) \o Rows(t, k) /\ Rows(t, k) = <<>>
      BY <1>1, <2>1, <2>4, <3>0, RowsConcat
    <3>2. Rows(db, k) \in Seq(RowType)
      BY <1>1, RowsTypedToo
    <3>3. Rows(db, k) \o <<>> = Rows(db, k)
      BY <3>2
    <3>4. k \in DOMAIN history
      BY <2>2 DEF PastGrows
    <3> QED
      BY <1>2, <1>3, <2>0, <2>5, <3>1, <3>3, <3>4 DEF RunsAreWhole
  <2>6. What(Rows(db', r)) = Legacy(r)'
    <3>1. Rows(db', r) = Rows(db, r) \o Rows(t, r) /\ Rows(t, r) = t
      BY <1>1, <2>1, <2>3, <2>4, RowsConcat
    <3>2. Rows(db, r) \in Seq(RowType) /\ What(Rows(db, r)) = <<>>
      BY <1>1, <1>4, <2>0, <2>1, RowsTypedToo
    <3>3. Rows(db, r) = <<>>
      BY <3>2 DEF What
    <3>4. <<>> \o t = t
      BY <2>4
    <3>5. Legacy(r)' = Legacy(r)
      BY <2>2 DEF Legacy
    <3> QED
      BY <2>3, <3>1, <3>3, <3>4, <3>5
  <2> QED
    BY <1>2, <2>2, <2>5, <2>6 DEF RunsAreWhole
<1>6. CASE ~Commit(p)
  <2>1. db' = db
    BY <1>6 DEF Step, StartRun, Retrieve, Record, FinishInMemory, BeginFinish, InsertNext,
           FinishRaises, Rollback, Die
  <2>2. ASSUME NEW k \in DOMAIN history, pc[p] # "idle", k = run[p]
        PROVE  history'[k].over # "stored"
    <3>1. history[k].over = "no" /\ k \in DOMAIN history
      BY <2>2 DEF Owned
    <3>2. CASE Record(p)
      BY <2>2, <3>1, <3>2, RunSaw DEF Record, Saw, TypeOK
    <3>3. CASE BeginFinish(p)
      <4>1. PICK n \in Answers : Answered(p, n)
        BY <3>3 DEF BeginFinish, Answered
      <4>2. n \in Note \cup {NoAnswer}
        BY MemoryAssumption
      <4> QED
        BY <2>2, <3>1, <4>1, <4>2, RunAnswered DEF TypeOK
    <3>4. CASE FinishInMemory(p)
      BY <2>2, <3>1, <3>4, RunOver DEF FinishInMemory, Over, TypeOK
    <3>5. CASE Retrieve(p) \/ InsertNext(p) \/ FinishRaises(p) \/ Die(p)
      BY <3>1, <3>5 DEF Retrieve, InsertNext, FinishRaises, Die
    <3> QED
      BY <1>6, <2>2, <3>2, <3>3, <3>4, <3>5 DEF Step, StartRun
  <2>3. ASSUME NEW k \in DOMAIN history' \ DOMAIN history
        PROVE  What(Rows(db, k)) = <<>> /\ history'[k].over # "stored"
    <3>1. HistoryMoves(p) /\ NewPast(p).over = "no" /\ NewPast(p) \in Past
      BY StepMovesHistory DEF NewPast, Past, TypeOK, PortsTyped
    <3>2. history'[k] = NewPast(p)
      BY <1>1, <2>3, <3>1, Appended DEF HistoryMoves, PastGrows
    <3>3. \A i \in DOMAIN db : db[i].run # k
      BY <2>3 DEF DbEarned, FromRun
    <3>4. Rows(db, k) = <<>>
      BY <1>1, <3>3, RowsConcat
    <3> QED
      BY <3>1, <3>2, <3>4, KeptNone
  <2> QED
    BY <1>2, <1>3, <1>4, <2>1, <2>2, <2>3 DEF RunsAreWhole
<1> QED
  BY <1>5, <1>6

Written == TypeOK /\ Owned /\ (\A p \in Port : Writing(p)) /\ DbEarned /\ RecordsEarned /\ RunsAreWhole

LEMMA InitWritten == Init => Written
<1> SUFFICES ASSUME Init PROVE Written
  OBVIOUS
<1> USE DEF Init
<1>1. TypeOK
  <2>1. \A S : <<>> \in Seq(S)
    OBVIOUS
  <2> QED
    BY <2>1 DEF TypeOK, PortsTyped, WritesTyped, RowsTyped
<1>2. Owned /\ \A p \in Port : Writing(p)
  BY DEF Owned, Writing
<1>3. DbEarned /\ RecordsEarned /\ RunsAreWhole
  BY DEF DbEarned, RecordsEarned, RunsAreWhole
<1> QED
  BY <1>1, <1>2, <1>3 DEF Written

LEMMA NextIsAStep == Next <=> \E p \in Port : Step(p)
  BY DEF Next, Step

LEMMA StaysWritten == Written /\ [Next]_vars => Written'
<1> SUFFICES ASSUME Written, [Next]_vars PROVE Written'
  OBVIOUS
<1>1. CASE Next
  <2>1. PICK p \in Port : Step(p)
    BY <1>1, NextIsAStep
  <2> QED
    BY <2>1, NextTyped, NextOwned, NextWriting, NextDbEarned, NextRecordsEarned, NextWhole
       DEF Written
<1>2. CASE UNCHANGED vars
  <2> USE <1>2 DEF vars, port, finishing
  <2>1. TypeOK' /\ Owned'
    BY DEF Written, TypeOK, PortsTyped, WritesTyped, RowsTyped, Owned
  <2>2. (\A p \in Port : Writing(p))'
    BY DEF Written, Writing
  <2>3. DbEarned' /\ RecordsEarned'
    BY DEF Written, DbEarned, RecordsEarned, FromRun
  <2>4. RunsAreWhole'
    BY DEF Written, RunsAreWhole, StoredOf, Legacy
  <2> QED
    BY <2>1, <2>2, <2>3, <2>4 DEF Written
<1> QED
  BY <1>1, <1>2

LEMMA AlwaysWritten == Spec => []Written
  BY InitWritten, StaysWritten, PTL DEF Spec

\* A run is in durable memory as a whole, once, or not at all, whatever port
\* writes, dies or fails in between, and a run brings nothing of another one in
\* (start_run, finish_run and on_observation of simplemem_cross.py).
THEOREM RunsWhole == Spec => []RunsAreWhole
<1>1. Written => RunsAreWhole
  BY DEF Written
<1> QED
  BY <1>1, AlwaysWritten, PTL

------------------------------------------------------------------------------
(* What is recalled.  First what a sequence of excerpts takes up, then the   *)
(* row the loop of retrieve takes next.                                      *)
Took == [id : Nat, run : Nat, tool : Tool \cup {"answer"}, note : Note, size : Nat]
Cells(rows) == UNION {{i} \X (1..rows[i].size) : i \in DOMAIN rows}

LEMMA SizeType == \A rows \in Seq(Took) : \A i \in DOMAIN rows : rows[i] \in Took /\ rows[i].size \in Nat
<1>1. \A x \in Took : x.size \in Nat
  BY DEF Took
<1>2. \A rows \in Seq(Took) : \A i \in DOMAIN rows : rows[i] \in Took
  OBVIOUS
<1> QED
  BY <1>1, <1>2

LEMMA CellsFinite ==
  ASSUME NEW rows \in Seq(Took)
  PROVE  IsFiniteSet(Cells(rows)) /\ Spent(rows) = Cardinality(Cells(rows)) /\ Spent(rows) \in Nat
<1> DEFINE T == {{i} \X (1..rows[i].size) : i \in DOMAIN rows}
           f == [i \in DOMAIN rows |-> {i} \X (1..rows[i].size)]
<1>1. IsFiniteSet(DOMAIN rows)
  <2>1. DOMAIN rows = 1..Len(rows) /\ Len(rows) \in Int /\ 1 \in Int
    OBVIOUS
  <2> QED
    BY <2>1, FS_Interval
<1>2. f \in Surjection(DOMAIN rows, T)
  BY Fun_IsSurj
<1>3. IsFiniteSet(T)
  <2> HIDE DEF f, T
  <2> QED
    BY <1>1, <1>2, FS_Surjection
<1>4. ASSUME NEW i \in DOMAIN rows PROVE IsFiniteSet({i} \X (1..rows[i].size))
  <2>1. rows[i].size \in Int
    BY SizeType
  <2>2. IsFiniteSet(1..rows[i].size)
    BY <2>1, FS_Interval
  <2> QED
    BY <2>2, FS_Singleton, FS_Product
<1>5. IsFiniteSet(UNION T)
  <2>1. \A t \in T : IsFiniteSet(t)
    BY <1>4
  <2> HIDE DEF T
  <2> QED
    BY <1>3, <2>1, FS_UNION
<1> QED
  BY <1>5, FS_CardinalityType DEF Cells, Spent

LEMMA Strip ==
  ASSUME NEW k, NEW m \in Nat
  PROVE  IsFiniteSet({k} \X (1..m)) /\ Cardinality({k} \X (1..m)) = m
<1>1. IsFiniteSet(1..m) /\ Cardinality(1..m) = m
  BY FS_Interval
<1>2. IsFiniteSet({k}) /\ Cardinality({k}) = 1
  BY FS_Singleton
<1> QED
  BY <1>1, <1>2, FS_Product

LEMMA Apart ==
  ASSUME NEW S, NEW T, IsFiniteSet(S), IsFiniteSet(T), S \cap T = {}
  PROVE  Cardinality(S \cup T) = Cardinality(S) + Cardinality(T)
<1>1. Cardinality(S \cup T) = Cardinality(S) + Cardinality(T) - Cardinality(S \cap T)
  BY FS_Union
<1>2. Cardinality(S) \in Nat /\ Cardinality(T) \in Nat /\ Cardinality({}) = 0
  BY FS_CardinalityType, FS_EmptySet
<1>3. Cardinality(S \cap T) = 0
  <2>1. S \cap T = {}
    OBVIOUS
  <2> QED
    BY <1>2, <2>1, Zenon
<1> QED
  BY <1>1, <1>2, <1>3

LEMMA SpentGrows ==
  \A rows \in Seq(Took), x \in Took :
    /\ Spent(rows) \in Nat
    /\ Append(rows, x) \in Seq(Took) /\ Spent(Append(rows, x)) = Spent(rows) + x.size
    /\ <<x>> \o rows \in Seq(Took) /\ Spent(<<x>> \o rows) = Spent(rows) + x.size
<1> SUFFICES ASSUME NEW rows \in Seq(Took), NEW x \in Took
             PROVE  /\ Spent(rows) \in Nat
                    /\ Append(rows, x) \in Seq(Took) /\ Spent(Append(rows, x)) = Spent(rows) + x.size
                    /\ <<x>> \o rows \in Seq(Took) /\ Spent(<<x>> \o rows) = Spent(rows) + x.size
  OBVIOUS
<1> DEFINE n == Len(rows)
           m == x.size
           a == Append(rows, x)
           b == <<x>> \o rows
<1>1. m \in Nat /\ n \in Nat /\ DOMAIN rows = 1..n
  BY DEF Took
<1>2. /\ a \in Seq(Took) /\ DOMAIN a = 1..n + 1 /\ a[n + 1] = x
      /\ \A i \in 1..n : a[i] = rows[i]
  OBVIOUS
<1>3. /\ b \in Seq(Took) /\ DOMAIN b = 1..n + 1 /\ b[1] = x
      /\ \A i \in 1..n : b[i + 1] = rows[i]
  OBVIOUS
<1>4. \A i \in 1..n : rows[i].size \in Nat
  BY <1>1, SizeType
<1>5. IsFiniteSet(Cells(rows)) /\ Spent(rows) = Cardinality(Cells(rows)) /\ Spent(rows) \in Nat
  BY CellsFinite
<1>6. Spent(a) = Cardinality(Cells(a)) /\ Spent(b) = Cardinality(Cells(b))
  BY <1>2, <1>3, CellsFinite
<1> HIDE DEF n, m, a, b
<1>7. ASSUME NEW S, NEW k, IsFiniteSet(S), S \cap ({k} \X (1..m)) = {}
      PROVE  Cardinality(S \cup ({k} \X (1..m))) = Cardinality(S) + m
  <2>1. PICK T : T = {k} \X (1..m)
    OBVIOUS
  <2>2. IsFiniteSet(T) /\ Cardinality(T) = m /\ S \cap T = {}
    BY <1>1, <1>7, <2>1, Strip
  <2>3. IsFiniteSet(S)
    BY <1>7
  <2> QED
    BY <2>1, <2>2, <2>3, Apart
<1>8. Cardinality(Cells(a)) = Spent(rows) + m
  <2>1. Cells(a) = Cells(rows) \cup ({n + 1} \X (1..m))
    <3>1. \A i \in 1..n + 1 : i \in 1..n \/ i = n + 1
      BY <1>1
    <3>2. \A i \in 1..n : i \in 1..n + 1
      BY <1>1
    <3>3. n + 1 \in 1..n + 1 /\ a[n + 1].size = m
      BY <1>1, <1>2 DEF m
    <3> QED
      BY <1>1, <1>2, <3>1, <3>2, <3>3 DEF Cells
  <2>2. Cells(rows) \cap ({n + 1} \X (1..m)) = {}
    BY <1>1 DEF Cells
  <2> QED
    BY <1>5, <1>7, <2>1, <2>2
<1>9. Cardinality(Cells(b)) = Spent(rows) + m
  <2> DEFINE C == Cells(rows)
             D == UNION {{i + 1} \X (1..rows[i].size) : i \in 1..n}
             f == [c \in C |-> <<c[1] + 1, c[2]>>]
  <2>1. Cells(b) = D \cup ({1} \X (1..m))
    <3>1. \A i \in 1..n + 1 : i = 1 \/ (i - 1 \in 1..n /\ (i - 1) + 1 = i)
      BY <1>1
    <3>2. \A i \in 1..n : i + 1 \in 1..n + 1
      BY <1>1
    <3>3. 1 \in 1..n + 1 /\ b[1].size = m
      BY <1>1, <1>3 DEF m
    <3>4. Cells(b) \subseteq D \cup ({1} \X (1..m))
      <4> SUFFICES ASSUME NEW i \in 1..n + 1, NEW c \in {i} \X (1..b[i].size)
                   PROVE  c \in D \cup ({1} \X (1..m))
        BY <1>3 DEF Cells
      <4>1. CASE i = 1
        BY <3>3, <4>1
      <4>2. CASE i - 1 \in 1..n /\ (i - 1) + 1 = i
        <5> DEFINE j == i - 1
        <5>1. b[i] = rows[j] /\ j \in 1..n /\ j + 1 = i
          BY <1>3, <4>2
        <5> HIDE DEF j
        <5>2. c \in {j + 1} \X (1..rows[j].size)
          BY <5>1
        <5> QED
          BY <5>1, <5>2
      <4> QED
        BY <3>1, <4>1, <4>2
    <3>5. D \cup ({1} \X (1..m)) \subseteq Cells(b)
      BY <1>3, <3>2, <3>3 DEF Cells
    <3> QED
      BY <3>4, <3>5
  <2>2. D \cap ({1} \X (1..m)) = {}
    BY <1>1
  <2>3. \A c \in C : \E i \in 1..n : \E j \in 1..rows[i].size : c = <<i, j>>
    BY <1>1 DEF Cells
  <2>4. f \in [C -> D]
    <3>1. ASSUME NEW c \in C PROVE <<c[1] + 1, c[2]>> \in D
      BY <2>3
    <3> QED
      BY <3>1
  <2>5. \A c, d \in C : f[c] = f[d] => c = d
    <3> SUFFICES ASSUME NEW c \in C, NEW d \in C, f[c] = f[d] PROVE c = d
      OBVIOUS
    <3>1. PICK i, j : c = <<i, j>> /\ i \in 1..n
      BY <2>3
    <3>2. PICK k, l : d = <<k, l>> /\ k \in 1..n
      BY <2>3
    <3>3. i + 1 = k + 1 /\ j = l
      BY <3>1, <3>2
    <3> QED
      BY <1>1, <3>1, <3>2, <3>3
  <2>6. \A d \in D : \E c \in C : f[c] = d
    <3> SUFFICES ASSUME NEW d \in D PROVE \E c \in C : f[c] = d
      OBVIOUS
    <3>1. PICK i, j : d = <<i + 1, j>> /\ i \in 1..n /\ j \in 1..rows[i].size
      OBVIOUS
    <3>2. <<i, j>> \in C
      BY <1>1, <3>1 DEF Cells
    <3>3. f[<<i, j>>] = d
      BY <3>1, <3>2
    <3> QED
      BY <3>2, <3>3
  <2> HIDE DEF C, D, f
  <2>7. ExistsBijection(C, D)
    BY <2>4, <2>5, <2>6, Fun_IsBij DEF ExistsBijection
  <2>8. IsFiniteSet(D) /\ Cardinality(D) = Spent(rows)
    BY <1>5, <2>7, FS_Bijection DEF C
  <2> QED
    BY <1>7, <2>1, <2>2, <2>8
<1> QED
  BY <1>1, <1>2, <1>3, <1>5, <1>6, <1>8, <1>9 DEF a, b, m

LEMMA SpentNothing == Spent(<<>>) = 0
  BY FS_EmptySet DEF Spent

LEMMA BestOfAll ==
  ASSUME db \in Seq(RowType), NEW q \in Query, NEW ids \in SUBSET DOMAIN db, ids # {}
  PROVE  Best(q, ids) \in ids /\ \A j \in ids \ {Best(q, ids)} : Outranks(q, Best(q, ids), j)
<1>1. \A i \in DOMAIN db : HitsOf(q, i) \in Nat /\ db[i].ts \in Nat /\ i \in Nat
  <2>1. \A row \in RowType : row.note \in Note /\ row.ts \in Nat
    BY DEF RowType
  <2>2. \A i \in DOMAIN db : db[i] \in RowType /\ i \in Nat
    OBVIOUS
  <2>3. \A note \in Note : Hits[q][note] \in Nat
    BY MemoryAssumption
  <2> QED
    BY <2>1, <2>2, <2>3 DEF HitsOf
<1>2. \A i, j \in DOMAIN db : i = j \/ Outranks(q, i, j) \/ Outranks(q, j, i)
  BY <1>1 DEF Outranks, Newer
<1>3. \A i, j \in DOMAIN db : Outranks(q, i, j) => ~Outranks(q, j, i)
  BY <1>1 DEF Outranks, Newer
<1>4. \A i, j, k \in DOMAIN db : Outranks(q, i, j) /\ Outranks(q, j, k) => Outranks(q, i, k)
  BY <1>1 DEF Outranks, Newer
<1> DEFINE Above(i) == {j \in ids : j = i \/ Outranks(q, j, i)}
           U == {Above(i) : i \in ids}
<1>5. IsFiniteSet(ids)
  <2>1. DOMAIN db = 1..Len(db) /\ Len(db) \in Int /\ 1 \in Int
    OBVIOUS
  <2>2. IsFiniteSet(DOMAIN db)
    BY <2>1, FS_Interval
  <2> QED
    BY <2>2, FS_Subset
<1>6. IsWellFoundedOn(StrictSubsetOrdering(ids), SUBSET ids)
  BY <1>5, FS_FiniteSubsetsOfFinite, FS_StrictSubsetOrderingWellFounded
<1>7. U \subseteq SUBSET ids /\ U # {}
  OBVIOUS
<1>8. PICK u \in U : \A v \in U : <<v, u>> \notin StrictSubsetOrdering(ids)
  <2> HIDE DEF U
  <2> QED
    BY <1>6, <1>7, WFMin
<1>9. PICK i \in ids : u = Above(i)
  OBVIOUS
<1>10. ASSUME NEW j \in ids, j # i, ~Outranks(q, i, j) PROVE FALSE
  <2>1. Outranks(q, j, i)
    BY <1>2, <1>10
  <2>2. Above(j) \subseteq Above(i) /\ i \in Above(i) /\ i \notin Above(j)
    BY <1>3, <1>4, <1>10, <2>1
  <2> HIDE DEF Above
  <2> QED
    BY <1>7, <1>8, <1>9, <2>2 DEF StrictSubsetOrdering
<1>11. \A j \in ids \ {i} : Outranks(q, i, j)
  BY <1>10
<1> QED
  BY <1>11 DEF Best

\* What the loop has done after some of its turns: the rows it has been through
\* outrank the others; each excerpt is of one of them; and one it went through
\* and that matches has its source named, or would not fit the whole budget, or
\* is behind every excerpt, the loop being over.
LoopType(C) ==
  [rest : SUBSET C, seen : SUBSET (Nat \X (Tool \cup {"answer"})), left : Nat,
   rows : Seq(Took), over : BOOLEAN]
Named(rows, source) == \E m \in DOMAIN rows : Provenance(rows[m]) = source
OfRow(x) == x = Excerpt(x.id, db[x.id], x.size)

GoneThrough(C, q, g) == \A j \in C \ g.rest, i \in g.rest : Outranks(q, j, i)
Quoted(C, g) ==
  \A m \in DOMAIN g.rows :
    g.rows[m].id \in C \ g.rest /\ OfRow(g.rows[m]) /\ Provenance(g.rows[m]) \in g.seen
Sorted(q, g) ==
  \A i, j \in DOMAIN g.rows : i < j =>
    /\ Provenance(g.rows[i]) # Provenance(g.rows[j])
    /\ Outranks(q, g.rows[i].id, g.rows[j].id)
Explained(C, q, g) ==
  \A source \in g.seen :
    \/ Named(g.rows, source)
    \/ \E i \in C \ g.rest : Matches(q, i) /\ Provenance(db[i]) = source
Behind(q, rows, i) == \A m \in DOMAIN rows : Outranks(q, rows[m].id, i)
PassedRightly(C, q, budget, g) ==
  \A i \in C \ g.rest : Matches(q, i) /\ ~Named(g.rows, Provenance(db[i])) =>
    Overhead[db[i].tool] > budget \/ (g.over /\ Behind(q, g.rows, i))
Loop(C, q, budget, g) ==
  /\ g \in LoopType(C) /\ g.left + Spent(g.rows) = budget
  /\ GoneThrough(C, q, g) /\ Quoted(C, g) /\ Sorted(q, g) /\ Explained(C, q, g)
  /\ PassedRightly(C, q, budget, g)

\* A turn passes a row over, takes it, or finds that it does not fit.
Skips(q, g, h, i) ==
  /\ g.over \/ ~Wanted(q, i, g)
  /\ h.seen = g.seen /\ h.left = g.left /\ h.rows = g.rows /\ h.over = g.over
Takes(q, g, h, i) ==
  /\ ~g.over /\ Wanted(q, i, g) /\ h.seen = g.seen \cup {Provenance(db[i])}
  /\ \E size \in Nat : /\ size <= g.left /\ h.left = g.left - size
                       /\ h.rows = Append(g.rows, Excerpt(i, db[i], size))
FindsTooLong(q, g, h, i) ==
  /\ ~g.over /\ Wanted(q, i, g) /\ h.seen = g.seen \cup {Provenance(db[i])}
  /\ h.left = g.left /\ h.rows = g.rows /\ h.over = (g.rows # <<>>)
  /\ g.rows = <<>> => Overhead[db[i].tool] > g.left
TurnTo(C, q, g, h) ==
  \E i \in g.rest :
    /\ \A j \in g.rest \ {i} : Outranks(q, i, j)
    /\ h \in LoopType(C) /\ h.rest = g.rest \ {i}
    /\ Skips(q, g, h, i) \/ Takes(q, g, h, i) \/ FindsTooLong(q, g, h, i)

LEMMA TurnTaken ==
  ASSUME db \in Seq(RowType), NEW C \in SUBSET DOMAIN db, NEW q \in Query,
         NEW g \in LoopType(C), g.rest # {}
  PROVE  TurnTo(C, q, g, TakeBest(q, g))
<1> DEFINE i == Best(q, g.rest)
           g0 == [g EXCEPT !.rest = @ \ {i}]
           h == TakeBest(q, g)
           row == db[i]
           size == IF Block(row) <= g0.left THEN Block(row) ELSE g0.left
           fits == Block(row) <= g0.left \/ (g0.rows = <<>> /\ Overhead[row.tool] <= g0.left)
<1>1. i \in g.rest /\ \A j \in g.rest \ {i} : Outranks(q, i, j)
  <2>1. g.rest \in SUBSET DOMAIN db
    BY DEF LoopType
  <2> QED
    BY <2>1, BestOfAll
<1>2. row \in RowType /\ i \in DOMAIN db /\ i \in Nat
  BY <1>1 DEF LoopType
<1>3. /\ row.run \in Nat /\ row.tool \in Tool \cup {"answer"} /\ row.note \in Note
      /\ Overhead[row.tool] \in Nat /\ Length[row.note] \in Nat
  <2>1. row.run \in Nat /\ row.tool \in Tool \cup {"answer"} /\ row.note \in Note
    BY <1>2 DEF RowType
  <2> QED
    BY <2>1, MemoryAssumption
<1> HIDE DEF i, row
<1>4. /\ g0 \in LoopType(C) /\ g0.rest = g.rest \ {i} /\ g0.seen = g.seen /\ g0.left = g.left
      /\ g0.rows = g.rows /\ g0.over = g.over /\ g.left \in Nat
  BY DEF LoopType
<1>5. size \in Nat /\ size <= g.left /\ (~fits => g.rows # <<>> \/ Overhead[row.tool] > g.left)
  BY <1>3, <1>4 DEF Block
<1>6. Wanted(q, i, g0) <=> Wanted(q, i, g)
  BY <1>4 DEF Wanted
<1>7. h = IF g0.over \/ ~Wanted(q, i, g0) THEN g0
          ELSE [g0 EXCEPT !.seen = @ \cup {Provenance(row)},
                          !.left = IF fits THEN @ - size ELSE @,
                          !.rows = IF fits THEN Append(@, Excerpt(i, row, size)) ELSE @,
                          !.over = IF fits THEN g0.left = size ELSE g0.rows # <<>>]
  BY DEF TakeBest, Take, i, row
<1>8. Excerpt(i, row, size) \in Took /\ Provenance(row) \in Nat \X (Tool \cup {"answer"})
  BY <1>2, <1>3, <1>5 DEF Excerpt, Took, Provenance
<1> HIDE DEF h, g0, size, fits
<1>9. CASE g.over \/ ~Wanted(q, i, g)
  <2>1. h = g0
    BY <1>4, <1>6, <1>7, <1>9
  <2> QED
    BY <1>1, <1>4, <1>9, <2>1 DEF TurnTo, Skips, h
<1>10. CASE ~g.over /\ Wanted(q, i, g) /\ fits
  <2>1. h = [g0 EXCEPT !.seen = @ \cup {Provenance(row)}, !.left = @ - size,
                       !.rows = Append(@, Excerpt(i, row, size)), !.over = (g0.left = size)]
    BY <1>4, <1>6, <1>7, <1>10
  <2>2. /\ h.rest = g0.rest /\ h.seen = g0.seen \cup {Provenance(row)} /\ h.left = g0.left - size
        /\ h.rows = Append(g0.rows, Excerpt(i, row, size))
    BY <1>4, <2>1 DEF LoopType
  <2>3. g0.left - size \in Nat /\ (g0.left = size) \in BOOLEAN
    BY <1>4, <1>5
  <2>4. Append(g0.rows, Excerpt(i, row, size)) \in Seq(Took)
    <3>1. g0.rows \in Seq(Took)
      BY <1>4 DEF LoopType
    <3> QED
      BY <1>8, <3>1
  <2>5. h \in LoopType(C)
    BY <1>4, <1>8, <2>1, <2>3, <2>4 DEF LoopType
  <2>6. Takes(q, g, h, i)
    BY <1>4, <1>5, <1>10, <2>2 DEF Takes, row
  <2> QED
    BY <1>1, <1>4, <2>2, <2>5, <2>6 DEF TurnTo, h
<1>11. CASE ~g.over /\ Wanted(q, i, g) /\ ~fits
  <2>1. h = [g0 EXCEPT !.seen = @ \cup {Provenance(row)}, !.over = (g0.rows # <<>>)]
    BY <1>4, <1>6, <1>7, <1>11 DEF LoopType
  <2>2. /\ h.rest = g0.rest /\ h.seen = g0.seen \cup {Provenance(row)} /\ h.left = g0.left
        /\ h.rows = g0.rows /\ h.over = (g0.rows # <<>>) /\ h \in LoopType(C)
    BY <1>4, <1>8, <2>1 DEF LoopType
  <2>3. FindsTooLong(q, g, h, i)
    BY <1>4, <1>5, <1>11, <2>2 DEF FindsTooLong, row
  <2> QED
    BY <1>1, <1>4, <2>2, <2>3 DEF TurnTo, h
<1> QED
  BY <1>9, <1>10, <1>11

LEMMA LoopTurns ==
  ASSUME db \in Seq(RowType), NEW C \in SUBSET DOMAIN db, NEW q \in Query, NEW budget \in Nat,
         NEW g, NEW h, Loop(C, q, budget, g), TurnTo(C, q, g, h)
  PROVE  Loop(C, q, budget, h)
<1>1. PICK i \in g.rest :
        /\ \A j \in g.rest \ {i} : Outranks(q, i, j)
        /\ h \in LoopType(C) /\ h.rest = g.rest \ {i}
        /\ Skips(q, g, h, i) \/ Takes(q, g, h, i) \/ FindsTooLong(q, g, h, i)
  BY DEF TurnTo
<1>2. /\ g.rest \subseteq C /\ g.rows \in Seq(Took) /\ g.left \in Nat /\ Spent(g.rows) \in Nat
      /\ g.left + Spent(g.rows) = budget /\ g.over \in BOOLEAN
  BY CellsFinite DEF Loop, LoopType
<1>3. /\ C \ h.rest = (C \ g.rest) \cup {i} /\ i \in C /\ i \notin C \ g.rest
      /\ \A j \in C \ g.rest : Outranks(q, j, i)
  BY <1>1, <1>2 DEF Loop, GoneThrough
<1>4. GoneThrough(C, q, h)
  BY <1>1, <1>3 DEF Loop, GoneThrough
<1>5. Behind(q, g.rows, i)
  BY <1>3 DEF Loop, Quoted, Behind
<1>6. CASE Skips(q, g, h, i)
  <2>1. h.seen = g.seen /\ h.left = g.left /\ h.rows = g.rows /\ h.over = g.over
    BY <1>6 DEF Skips
  <2>2. Quoted(C, h) /\ Sorted(q, h) /\ Explained(C, q, h)
    BY <1>3, <2>1 DEF Loop, Quoted, Sorted, Explained
  <2>3. ASSUME Matches(q, i), ~Named(g.rows, Provenance(db[i])), ~g.over
        PROVE  Overhead[db[i].tool] > budget
    <3>1. Provenance(db[i]) \in g.seen
      BY <1>6, <2>3 DEF Skips, Wanted
    <3>2. PICK k \in C \ g.rest : Matches(q, k) /\ Provenance(db[k]) = Provenance(db[i])
      BY <2>3, <3>1 DEF Loop, Explained
    <3>3. Overhead[db[k].tool] > budget
      BY <2>3, <3>2 DEF Loop, PassedRightly
    <3>4. db[k].tool = db[i].tool
      BY <3>2 DEF Provenance
    <3> QED
      BY <3>3, <3>4
  <2>4. PassedRightly(C, q, budget, h)
    BY <1>3, <1>5, <2>1, <2>3 DEF Loop, PassedRightly
  <2> QED
    BY <1>1, <1>2, <1>4, <2>1, <2>2, <2>4 DEF Loop
<1>7. CASE Takes(q, g, h, i)
  <2>1. ~g.over /\ Provenance(db[i]) \notin g.seen /\ h.seen = g.seen \cup {Provenance(db[i])}
    BY <1>7 DEF Takes, Wanted
  <2>2. PICK size \in Nat :
          size <= g.left /\ h.left = g.left - size /\ h.rows = Append(g.rows, Excerpt(i, db[i], size))
    BY <1>7 DEF Takes
  <2> DEFINE x == Excerpt(i, db[i], size)
             n == Len(g.rows)
  <2>3. x \in Took /\ x.id = i /\ x.size = size /\ OfRow(x) /\ Provenance(x) = Provenance(db[i])
    <3>1. db[i] \in RowType /\ i \in Nat
      BY <1>3
    <3> QED
      BY <3>1 DEF Excerpt, Took, OfRow, Provenance, RowType
  <2> HIDE DEF x
  <2>4. /\ DOMAIN g.rows = 1..n /\ n \in Nat /\ DOMAIN h.rows = 1..n + 1 /\ h.rows[n + 1] = x
        /\ \A m \in 1..n : h.rows[m] = g.rows[m]
    BY <1>2, <2>2, <2>3, Appended DEF x
  <2> HIDE DEF n
  <2>5. \A m \in 1..n + 1 : m = n + 1 \/ m \in 1..n
    BY <2>4
  <2>6. h.left + Spent(h.rows) = budget
    <3>1. Spent(h.rows) = Spent(g.rows) + size
      BY <1>2, <2>2, <2>3, SpentGrows DEF x
    <3> QED
      BY <1>2, <2>2, <3>1
  <2>7. Quoted(C, h)
    <3> SUFFICES ASSUME NEW m \in 1..n + 1
                 PROVE  /\ h.rows[m].id \in C \ h.rest /\ OfRow(h.rows[m])
                        /\ Provenance(h.rows[m]) \in h.seen
      BY <2>4 DEF Quoted
    <3>1. CASE m = n + 1
      BY <1>3, <2>1, <2>3, <2>4, <3>1
    <3>2. CASE m \in 1..n
      BY <1>3, <2>1, <2>4, <3>2 DEF Loop, Quoted
    <3> QED
      BY <2>5, <3>1, <3>2
  <2>8. Sorted(q, h)
    <3> SUFFICES ASSUME NEW j \in 1..n + 1, NEW k \in 1..n + 1, j < k
                 PROVE  /\ Provenance(h.rows[j]) # Provenance(h.rows[k])
                        /\ Outranks(q, h.rows[j].id, h.rows[k].id)
      BY <2>4 DEF Sorted
    <3>1. j \in 1..n
      BY <2>4
    <3>2. CASE k = n + 1
      <4>1. Provenance(g.rows[j]) \in g.seen /\ Outranks(q, g.rows[j].id, i)
        BY <1>5, <2>4, <3>1 DEF Loop, Quoted, Behind
      <4> QED
        BY <2>1, <2>3, <2>4, <3>1, <3>2, <4>1
    <3>3. CASE k \in 1..n
      BY <2>4, <3>1, <3>3 DEF Loop, Sorted
    <3> QED
      BY <2>5, <3>2, <3>3
  <2>9. Named(h.rows, Provenance(db[i])) /\ \A s : Named(g.rows, s) => Named(h.rows, s)
    <3>1. n + 1 \in 1..n + 1 /\ \A m \in 1..n : m \in 1..n + 1
      BY <2>4
    <3> QED
      BY <2>3, <2>4, <3>1 DEF Named
  <2>10. Explained(C, q, h)
    BY <1>3, <2>1, <2>9 DEF Loop, Explained
  <2>11. PassedRightly(C, q, budget, h)
    BY <1>3, <2>1, <2>9 DEF Loop, PassedRightly
  <2> QED
    BY <1>1, <1>4, <2>6, <2>7, <2>8, <2>10, <2>11 DEF Loop
<1>8. CASE FindsTooLong(q, g, h, i)
  <2>1. /\ ~g.over /\ Matches(q, i) /\ h.seen = g.seen \cup {Provenance(db[i])}
        /\ h.left = g.left /\ h.rows = g.rows /\ h.over = (g.rows # <<>>)
        /\ g.rows = <<>> => Overhead[db[i].tool] > g.left
    BY <1>8 DEF FindsTooLong, Wanted
  <2>2. Quoted(C, h) /\ Sorted(q, h) /\ Explained(C, q, h)
    BY <1>3, <2>1 DEF Loop, Quoted, Sorted, Explained
  <2>3. g.rows = <<>> => g.left = budget
    BY <1>2, SpentNothing
  <2>4. PassedRightly(C, q, budget, h)
    BY <1>3, <1>5, <2>1, <2>3 DEF Loop, PassedRightly
  <2> QED
    BY <1>1, <1>2, <1>4, <2>1, <2>2, <2>4 DEF Loop
<1> QED
  BY <1>1, <1>6, <1>7, <1>8

\* All turns of the loop, as a function.
LoopStart(C, budget) ==
  [rest |-> C, seen |-> {}, left |-> budget, rows |-> <<>>, over |-> budget = 0]
LoopTurn(q, C, budget, f, k) == IF k > 0 THEN TakeBest(q, f[k - 1]) ELSE LoopStart(C, budget)
Loops(q, C, budget, f, n) == f = [k \in 0..n |-> LoopTurn(q, C, budget, f, k)]

LEMMA LoopsExist ==
  ASSUME NEW q, NEW C, NEW budget, NEW n \in Nat PROVE \E f : Loops(q, C, budget, f, n)
<1> DEFINE K == {m \in 0..n : \E f : Loops(q, C, budget, f, m)}
<1>1. 0 \in K
  <2>1. Loops(q, C, budget, [k \in 0..0 |-> LoopStart(C, budget)], 0)
    BY DEF Loops, LoopTurn
  <2> QED
    BY <2>1
<1>2. ASSUME NEW m \in 0..n, m < n, m \in K PROVE m + 1 \in K
  <2>1. PICK f : Loops(q, C, budget, f, m)
    BY <1>2
  <2> DEFINE g == [k \in 0..m + 1 |-> IF k = m + 1 THEN LoopTurn(q, C, budget, f, m + 1) ELSE f[k]]
  <2>2. \A k \in 0..m : g[k] = f[k]
    OBVIOUS
  <2>3. \A k \in 0..m + 1 : LoopTurn(q, C, budget, g, k) = LoopTurn(q, C, budget, f, k)
    BY <2>2 DEF LoopTurn
  <2>4. \A k \in 0..m : f[k] = LoopTurn(q, C, budget, f, k)
    BY <2>1 DEF Loops
  <2>5. \A k \in 0..m + 1 : g[k] = LoopTurn(q, C, budget, g, k)
    BY <2>2, <2>3, <2>4
  <2>6. g = [k \in 0..m + 1 |-> g[k]]
    OBVIOUS
  <2> HIDE DEF g
  <2>7. Loops(q, C, budget, g, m + 1)
    BY <2>5, <2>6 DEF Loops
  <2> QED
    BY <1>2, <2>7
<1>3. 0..n \subseteq K
  <2> HIDE DEF K
  <2> QED
    BY <1>1, <1>2, UpTo
<1> QED
  BY <1>3

LEMMA RankedLoops ==
  ASSUME db \in Seq(RowType), NEW who, NEW q \in Query, NEW budget \in Nat
  PROVE  \E g : /\ Loop(Candidates(who), q, budget, g) /\ g.rest = {}
                /\ Ranked(who, q, budget) = g.rows
<1> DEFINE C == Candidates(who)
           n == Cardinality(C)
           f == CHOOSE f : Loops(q, C, budget, f, n)
<1>1. C \in SUBSET DOMAIN db /\ IsFiniteSet(C) /\ n \in Nat
  <2>1. DOMAIN db = 1..Len(db) /\ Len(db) \in Int /\ 1 \in Int
    OBVIOUS
  <2>2. IsFiniteSet(DOMAIN db)
    BY <2>1, FS_Interval
  <2>3. C \in SUBSET DOMAIN db
    BY DEF Candidates, RowsOf
  <2>4. IsFiniteSet(C)
    BY <2>2, <2>3, FS_Subset
  <2> QED
    BY <2>3, <2>4, FS_CardinalityType
<1>2. Loops(q, C, budget, f, n)
  <2> HIDE DEF n, C
  <2> QED
    BY <1>1, LoopsExist
<1>3. Ranked(who, q, budget) = f[n].rows
  BY DEF Ranked, Loops, LoopTurn, LoopStart
<1> HIDE DEF f, n, C
<1>4. \A k \in 0..n : f[k] = LoopTurn(q, C, budget, f, k)
  BY <1>2 DEF Loops
<1> DEFINE K == {k \in 0..n : Loop(C, q, budget, f[k]) /\ Cardinality(f[k].rest) = n - k}
<1>5. 0 \in K
  <2> DEFINE g == LoopStart(C, budget)
  <2>1. f[0] = g /\ 0 \in 0..n
    BY <1>1, <1>4 DEF LoopTurn
  <2>2. /\ g.rest = C /\ g.seen = {} /\ g.left = budget /\ g.rows = <<>> /\ g \in LoopType(C)
    BY DEF LoopStart, LoopType
  <2> HIDE DEF g
  <2>3. Loop(C, q, budget, g)
    BY <2>2, SpentNothing DEF Loop, GoneThrough, Quoted, Sorted, Explained, PassedRightly
  <2> QED
    BY <1>1, <2>1, <2>2, <2>3 DEF n
<1>6. ASSUME NEW k \in 0..n, k < n, k \in K PROVE k + 1 \in K
  <2> DEFINE g == f[k]
             h == f[k + 1]
  <2>1. k + 1 \in 0..n /\ k + 1 > 0 /\ (k + 1) - 1 = k /\ n - k > 0 /\ (n - k) - 1 = n - (k + 1)
    BY <1>1, <1>6
  <2>2. h = TakeBest(q, g)
    BY <1>4, <2>1 DEF LoopTurn
  <2>3. Loop(C, q, budget, g) /\ Cardinality(g.rest) = n - k /\ g \in LoopType(C)
    BY <1>6 DEF Loop
  <2> HIDE DEF g, h
  <2>4. g.rest \in SUBSET C
    BY <2>3 DEF LoopType
  <2>5. IsFiniteSet(g.rest)
    BY <1>1, <2>4, FS_Subset
  <2>6. g.rest # {}
    <3> SUFFICES ASSUME g.rest = {} PROVE FALSE
      OBVIOUS
    <3>1. Cardinality(g.rest) = 0
      BY FS_EmptySet, Zenon
    <3> QED
      BY <2>1, <2>3, <3>1
  <2>7. TurnTo(C, q, g, h)
    BY <1>1, <2>2, <2>3, <2>6, TurnTaken
  <2>8. Loop(C, q, budget, h)
    BY <1>1, <2>3, <2>7, LoopTurns
  <2>9. PICK i \in g.rest : h.rest = g.rest \ {i}
    BY <2>7 DEF TurnTo
  <2>10. Cardinality(h.rest) = n - (k + 1)
    <3>1. Cardinality(g.rest \ {i}) = Cardinality(g.rest) - 1
      BY <2>5, FS_RemoveElement
    <3> QED
      BY <2>1, <2>3, <2>9, <3>1
  <2> QED
    BY <2>1, <2>8, <2>10 DEF h
<1>7. 0..n \subseteq K
  <2> HIDE DEF K
  <2> QED
    BY <1>1, <1>5, <1>6, UpTo
<1>8. n \in 0..n /\ n - n = 0
  BY <1>1
<1>9. Loop(C, q, budget, f[n]) /\ Cardinality(f[n].rest) = 0
  BY <1>7, <1>8
<1>10. f[n].rest \in SUBSET C
  BY <1>9 DEF Loop, LoopType
<1>11. IsFiniteSet(f[n].rest)
  BY <1>1, <1>10, FS_Subset
<1>12. f[n].rest = {}
  BY <1>9, <1>11, FS_EmptySet
<1> QED
  BY <1>3, <1>9, <1>12 DEF C

\* The in-memory port: what it quotes are records, within the budget.
OfRecords(kept, rows) ==
  \A m \in DOMAIN rows : \E j \in DOMAIN kept : rows[m] = Excerpt(0, kept[j], rows[m].size)
Within(kept, budget, g) ==
  /\ g.left \in Nat /\ g.rows \in Seq(Took) /\ g.left + Spent(g.rows) = budget
  /\ OfRecords(kept, g.rows)

LEMMA NewestTaken ==
  \A kept \in Seq(RowType) : \A budget \in Nat : \A g : \A j \in DOMAIN kept :
    Within(kept, budget, g) => Within(kept, budget, TakeNewest(g, kept[j]))
<1> SUFFICES ASSUME NEW kept \in Seq(RowType), NEW budget \in Nat, NEW g, NEW j \in DOMAIN kept,
                    Within(kept, budget, g)
             PROVE  Within(kept, budget, TakeNewest(g, kept[j]))
  OBVIOUS
<1> DEFINE row == kept[j]
           size == IF Length[row.note] <= g.left THEN Length[row.note] ELSE g.left
           fits == Length[row.note] <= g.left \/ (g.rows = <<>> /\ g.left > 0)
           x == Excerpt(0, row, size)
           h == TakeNewest(g, row)
<1>1. g.left \in Nat /\ g.rows \in Seq(Took) /\ g.left + Spent(g.rows) = budget
      /\ OfRecords(kept, g.rows)
  BY DEF Within
<1>2. row.run \in Nat /\ row.tool \in Tool \cup {"answer"} /\ row.note \in Note
  <2>1. row \in RowType
    OBVIOUS
  <2> QED
    BY <2>1 DEF RowType
<1>3. size \in Nat /\ size <= g.left
  BY <1>1, <1>2, MemoryAssumption
<1> HIDE DEF size
<1>4. x \in Took /\ x.size = size
  BY <1>2, <1>3 DEF Excerpt, Took
<1> HIDE DEF x, row
<1>5. <<x>> \o g.rows \in Seq(Took) /\ Spent(<<x>> \o g.rows) = Spent(g.rows) + size
      /\ Spent(g.rows) \in Nat
  BY <1>1, <1>4, SpentGrows
<1>6. OfRecords(kept, <<x>> \o g.rows)
  <2> DEFINE b == <<x>> \o g.rows
  <2>1. \A m \in DOMAIN b : b[m] = x \/ \E k \in DOMAIN g.rows : b[m] = g.rows[k]
    <3>1. x \in Took /\ g.rows \in Seq(Took) /\ Len(g.rows) \in Nat
      BY <1>1, <1>4
    <3>2. DOMAIN b = 1..Len(g.rows) + 1 /\ b[1] = x
          /\ \A m \in 2..Len(g.rows) + 1 : m - 1 \in DOMAIN g.rows /\ b[m] = g.rows[m - 1]
      BY <3>1
    <3>3. \A m \in 1..Len(g.rows) + 1 : m = 1 \/ m \in 2..Len(g.rows) + 1
      BY <3>1
    <3> HIDE DEF b
    <3> QED
      BY <3>2, <3>3
  <2>2. x = Excerpt(0, kept[j], x.size)
    BY <1>4 DEF x, row
  <2> HIDE DEF b
  <2> QED
    BY <1>1, <2>1, <2>2 DEF OfRecords, b
<1>7. h = IF g.over THEN g
          ELSE [left |-> IF fits THEN g.left - size ELSE g.left,
                rows |-> IF fits THEN <<x>> \o g.rows ELSE g.rows,
                over |-> size < Length[row.note]]
  BY DEF TakeNewest, x, size
<1> HIDE DEF h, fits
<1>8. h = g \/ (h.left = g.left /\ h.rows = g.rows)
      \/ (h.left = g.left - size /\ h.rows = <<x>> \o g.rows)
  BY <1>7
<1>9. g.left - size \in Nat /\ (g.left - size) + (Spent(g.rows) + size) = budget
  BY <1>1, <1>3, <1>5
<1>10. Within(kept, budget, h)
  BY <1>1, <1>5, <1>6, <1>8, <1>9 DEF Within
<1> QED
  BY <1>10 DEF h, row

NewestTurn(kept, budget, f, k) ==
  IF k > 0 THEN TakeNewest(f[k - 1], kept[Len(kept) + 1 - k])
  ELSE [left |-> budget, rows |-> <<>>, over |-> FALSE]
Newest(kept, budget, f, n) == f = [k \in 0..n |-> NewestTurn(kept, budget, f, k)]

LEMMA NewestExists ==
  ASSUME NEW kept, NEW budget, NEW n \in Nat PROVE \E f : Newest(kept, budget, f, n)
<1> DEFINE K == {m \in 0..n : \E f : Newest(kept, budget, f, m)}
<1>1. 0 \in K
  <2>1. Newest(kept, budget, [k \in 0..0 |-> NewestTurn(kept, budget, <<>>, 0)], 0)
    BY DEF Newest, NewestTurn
  <2> QED
    BY <2>1
<1>2. ASSUME NEW m \in 0..n, m < n, m \in K PROVE m + 1 \in K
  <2>1. PICK f : Newest(kept, budget, f, m)
    BY <1>2
  <2> DEFINE g == [k \in 0..m + 1 |->
                     IF k = m + 1 THEN NewestTurn(kept, budget, f, m + 1) ELSE f[k]]
  <2>2. \A k \in 0..m : g[k] = f[k]
    OBVIOUS
  <2>3. \A k \in 0..m + 1 : NewestTurn(kept, budget, g, k) = NewestTurn(kept, budget, f, k)
    BY <2>2 DEF NewestTurn
  <2>4. \A k \in 0..m : f[k] = NewestTurn(kept, budget, f, k)
    BY <2>1 DEF Newest
  <2>5. \A k \in 0..m + 1 : g[k] = NewestTurn(kept, budget, g, k)
    BY <2>2, <2>3, <2>4
  <2>6. g = [k \in 0..m + 1 |-> g[k]]
    OBVIOUS
  <2> HIDE DEF g
  <2>7. Newest(kept, budget, g, m + 1)
    BY <2>5, <2>6 DEF Newest
  <2> QED
    BY <1>2, <2>7
<1>3. 0..n \subseteq K
  <2> HIDE DEF K
  <2> QED
    BY <1>1, <1>2, UpTo
<1> QED
  BY <1>3

LEMMA NewestLoops ==
  ASSUME NEW kept \in Seq(RowType), NEW budget \in Nat
  PROVE  \E g : Within(kept, budget, g) /\ NewestWithin(kept, budget) = g.rows
<1> DEFINE n == Len(kept)
           f == CHOOSE f : Newest(kept, budget, f, n)
<1>1. n \in Nat /\ n \in 0..n /\ DOMAIN kept = 1..n
  OBVIOUS
<1>2. Newest(kept, budget, f, n)
  <2> HIDE DEF n
  <2> QED
    BY <1>1, NewestExists
<1>3. NewestWithin(kept, budget) = f[n].rows
  BY DEF NewestWithin, Newest, NewestTurn
<1> HIDE DEF f
<1>4. \A k \in 0..n : f[k] = NewestTurn(kept, budget, f, k)
  BY <1>2 DEF Newest
<1> DEFINE K == {k \in 0..n : Within(kept, budget, f[k])}
<1>5. 0 \in K
  <2> DEFINE g == [left |-> budget, rows |-> <<>>, over |-> FALSE]
  <2>1. f[0] = g /\ 0 \in 0..n
    <3>1. 0 \in 0..n /\ ~(0 > 0)
      BY <1>1
    <3>2. NewestTurn(kept, budget, f, 0) = g
      BY <3>1 DEF NewestTurn
    <3> QED
      BY <1>4, <3>1, <3>2
  <2>2. g.left = budget /\ g.rows = <<>> /\ g.rows \in Seq(Took)
    OBVIOUS
  <2> HIDE DEF g
  <2>3. Within(kept, budget, g)
    BY <2>2, SpentNothing DEF Within, OfRecords
  <2> QED
    BY <2>1, <2>3
<1>6. ASSUME NEW k \in 0..n, k < n, k \in K PROVE k + 1 \in K
  <2>1. k + 1 \in 0..n /\ k + 1 > 0 /\ (k + 1) - 1 = k /\ n + 1 - (k + 1) \in 1..n
    BY <1>1, <1>6
  <2>2. f[k + 1] = TakeNewest(f[k], kept[n + 1 - (k + 1)])
    BY <1>4, <2>1 DEF NewestTurn
  <2>3. PICK j \in DOMAIN kept : j = n + 1 - (k + 1)
    BY <1>1, <2>1
  <2>4. f[k + 1] = TakeNewest(f[k], kept[j]) /\ Within(kept, budget, f[k])
    BY <1>6, <2>2, <2>3
  <2> HIDE DEF n
  <2> QED
    BY <2>1, <2>4, NewestTaken
<1>7. 0..n \subseteq K
  <2> HIDE DEF K, n
  <2> QED
    BY <1>1, <1>5, <1>6, UpTo
<1> QED
  BY <1>1, <1>3, <1>7

\* What retrieve hands out, from the file and from the records.
FromFile(p) ==
  /\ kind[p] = "simplemem" /\ recalled.by = p
  /\ recalled.query \in Query /\ recalled.budget \in Nat
  /\ \E g : /\ Loop(Candidates(project[p]), recalled.query, recalled.budget, g) /\ g.rest = {}
            /\ recalled.rows = g.rows
FromRecords(p) ==
  /\ kind[p] = "inmemory" /\ recalled.by = p /\ recalled.budget \in Nat
  /\ \E g : Within(records[p], recalled.budget, g) /\ recalled.rows = g.rows
Recall == RecallIsEarned /\ RecallIsRanked

LEMMA FileRecall == Written /\ (\E k \in Port : FromFile(k)) => Recall
<1> SUFFICES ASSUME Written, NEW p \in Port, FromFile(p) PROVE RecallIsEarned /\ RecallIsRanked
  BY DEF Recall
<1> USE DEF FromFile
<1> DEFINE q == recalled.query
           budget == recalled.budget
           rows == recalled.rows
           C == Candidates(project[p])
<1>1. PICK g : Loop(C, q, budget, g) /\ g.rest = {} /\ rows = g.rows
  OBVIOUS
<1>2. g.left \in Nat /\ rows \in Seq(Took) /\ Spent(rows) \in Nat /\ g.left + Spent(rows) = budget
  BY <1>1, CellsFinite DEF Loop, LoopType
<1>3. C \ g.rest = C /\ p # Nobody
  BY <1>1, MemoryAssumption
<1>4. \A m \in DOMAIN rows : rows[m].id \in C /\ OfRow(rows[m])
  BY <1>1 DEF Loop, Quoted
<1>5. RecallIsEarned
  <2> SUFFICES ASSUME NEW m \in DOMAIN rows
               PROVE  /\ <<rows[m].tool, rows[m].note>> \in ToSet(history[rows[m].run].saw)
                           \cup {<<"answer", history[rows[m].run].answer>>}
                      /\ history[rows[m].run].project = project[p]
                      /\ history[rows[m].run].over = "stored"
    BY DEF RecallIsEarned
  <2> DEFINE i == rows[m].id
  <2>1. i \in DOMAIN db /\ db[i].project = project[p]
    BY <1>4 DEF Candidates, RowsOf
  <2>2. rows[m].run = db[i].run /\ rows[m].tool = db[i].tool /\ rows[m].note = db[i].note
    <3>1. rows[m] = Excerpt(i, db[i], rows[m].size)
      BY <1>4 DEF OfRow
    <3> HIDE DEF rows, i
    <3>2. \A s : /\ Excerpt(i, db[i], s).run = db[i].run /\ Excerpt(i, db[i], s).tool = db[i].tool
                 /\ Excerpt(i, db[i], s).note = db[i].note
      BY DEF Excerpt
    <3> QED
      BY <3>1, <3>2
  <2> HIDE DEF i, rows
  <2> QED
    BY <2>1, <2>2 DEF Written, DbEarned, FromRun
<1>6. RecallIsRanked
  <2>1. Spent(rows) <= budget
    BY <1>2
  <2>2. \A i, j \in DOMAIN rows :
          i < j => /\ Provenance(rows[i]) # Provenance(rows[j])
                   /\ Outranks(q, rows[i].id, rows[j].id)
    BY <1>1 DEF Loop, Sorted
  <2>3. ASSUME NEW i \in PassedOver, NEW j \in DOMAIN rows, Outranks(q, i, rows[j].id)
        PROVE  Overhead[db[i].tool] > budget
    <3>1. i \in C /\ Matches(q, i) /\ ~Named(g.rows, Provenance(db[i]))
      BY <1>1, <2>3 DEF PassedOver, Named
    <3>2. ~Outranks(q, rows[j].id, i)
      <4>1. \A k \in DOMAIN db : db[k].ts \in Nat /\ HitsOf(q, k) \in Nat
        <5>1. \A row \in RowType : row.note \in Note /\ row.ts \in Nat
          BY DEF RowType
        <5>2. \A k \in DOMAIN db : db[k] \in RowType
          BY DEF Written, TypeOK, RowsTyped
        <5>3. \A note \in Note : Hits[q][note] \in Nat
          BY MemoryAssumption
        <5> QED
          BY <5>1, <5>2, <5>3 DEF HitsOf
      <4>2. i \in DOMAIN db /\ rows[j].id \in DOMAIN db
        BY <1>4, <3>1 DEF Candidates, RowsOf
      <4>3. DOMAIN db \subseteq Nat
        BY DEF Written, TypeOK, RowsTyped
      <4> HIDE DEF q, rows
      <4> QED
        BY <2>3, <4>1, <4>2, <4>3 DEF Outranks, Newer
    <3>3. ~Behind(q, g.rows, i)
      BY <1>1, <3>2 DEF Behind
    <3> QED
      BY <1>1, <1>3, <3>1, <3>3 DEF Loop, PassedRightly
  <2> QED
    BY <2>1, <2>2, <2>3 DEF RecallIsRanked
<1> QED
  BY <1>5, <1>6

LEMMA RecordsRecall == Written /\ (\E k \in Port : FromRecords(k)) => Recall
<1> SUFFICES ASSUME Written, NEW p \in Port, FromRecords(p) PROVE RecallIsEarned /\ RecallIsRanked
  BY DEF Recall
<1> USE DEF FromRecords
<1> DEFINE rows == recalled.rows
           kept == records[p]
<1>1. PICK g : Within(kept, recalled.budget, g) /\ rows = g.rows
  OBVIOUS
<1>2. Spent(rows) <= recalled.budget
  <2>1. g.left \in Nat /\ Spent(g.rows) \in Nat /\ g.left + Spent(g.rows) = recalled.budget
    BY <1>1, CellsFinite DEF Within
  <2> QED
    BY <1>1, <2>1
<1>3. RecallIsEarned
  <2> SUFFICES ASSUME NEW m \in DOMAIN rows
               PROVE  /\ <<rows[m].tool, rows[m].note>> \in ToSet(history[rows[m].run].saw)
                      /\ history[rows[m].run].project = project[p]
    BY DEF RecallIsEarned
  <2>1. PICK j \in DOMAIN kept : rows[m] = Excerpt(0, kept[j], rows[m].size)
    BY <1>1 DEF Within, OfRecords
  <2>2. rows[m].run = kept[j].run /\ rows[m].tool = kept[j].tool /\ rows[m].note = kept[j].note
    <3> HIDE DEF rows, kept
    <3>1. \A s : /\ Excerpt(0, kept[j], s).run = kept[j].run
                 /\ Excerpt(0, kept[j], s).tool = kept[j].tool
                 /\ Excerpt(0, kept[j], s).note = kept[j].note
      BY DEF Excerpt
    <3> QED
      BY <2>1, <3>1
  <2> HIDE DEF rows
  <2> QED
    BY <2>2 DEF Written, RecordsEarned, FromRun
<1>4. RecallIsRanked
  BY <1>2 DEF RecallIsRanked
<1> QED
  BY <1>3, <1>4

LEMMA NothingRecalled == recalled = Nothing => RecallIsEarned /\ RecallIsRanked
<1> SUFFICES ASSUME recalled = Nothing PROVE RecallIsEarned /\ RecallIsRanked
  OBVIOUS
<1>1. recalled.rows = <<>> /\ recalled.by = Nobody /\ recalled.budget = 0
  BY DEF Nothing
<1> QED
  BY <1>1, SpentNothing DEF RecallIsEarned, RecallIsRanked

LEMMA NextRecalls == Written /\ Recall /\ [Next]_vars => Recall'
<1> SUFFICES ASSUME Written, Recall, [Next]_vars PROVE Recall'
  OBVIOUS
<1>1. CASE UNCHANGED <<kind, project, db, history, recalled>>
  <2>1. \A i, j : Newer(i, j)' = Newer(i, j)
    BY <1>1 DEF Newer
  <2>2. \A q, i, j : Matches(q, i)' = Matches(q, i) /\ Outranks(q, i, j)' = Outranks(q, i, j)
    BY <1>1, <2>1 DEF Matches, HitsOf, Outranks
  <2>3. \A who : Candidates(who)' = Candidates(who)
    BY <1>1, <2>1 DEF Candidates, RowsOf
  <2>4. PassedOver' = PassedOver
    BY <1>1, <2>2, <2>3 DEF PassedOver
  <2>5. RecallIsEarned'
    BY <1>1 DEF Recall, RecallIsEarned
  <2>6. RecallIsRanked'
    BY <1>1, <2>2, <2>4 DEF Recall, RecallIsRanked
  <2> QED
    BY <2>5, <2>6 DEF Recall
<1>2. CASE recalled' = Nothing
  <2>1. (recalled = Nothing => Recall)'
    BY NothingRecalled, PTL DEF Recall
  <2> QED
    BY <1>2, <2>1 DEF Nothing
<1>3. CASE \E p \in Port : Retrieve(p)
  <2>1. PICK p \in Port : Retrieve(p)
    BY <1>3
  <2>2. Written'
    BY StaysWritten
  <2>3. PICK q \in Query, budget \in Budget :
          recalled' = [by |-> p, query |-> q, budget |-> budget,
                       rows |-> IF kind[p] = "inmemory" THEN NewestWithin(records[p], budget)
                                ELSE Ranked(project[p], q, budget)]
    BY <2>1 DEF Retrieve
  <2>4. /\ recalled'.by = p /\ recalled'.query = q /\ recalled'.budget = budget /\ budget \in Nat
        /\ recalled'.rows = IF kind[p] = "inmemory" THEN NewestWithin(records[p], budget)
                            ELSE Ranked(project[p], q, budget)
    BY <2>3, MemoryAssumption
  <2>5. UNCHANGED <<kind, project, db, history, records>>
    BY <2>1 DEF Retrieve, port
  <2>6. kind[p] \in {"simplemem", "inmemory"}
    BY DEF Written, TypeOK, PortsTyped
  <2>7. FromFile(p)' \/ FromRecords(p)'
    <3>1. CASE kind[p] = "inmemory"
      <4>1. records[p] \in Seq(RowType)
        BY DEF Written, TypeOK, PortsTyped
      <4>2. PICK g : Within(records[p], budget, g) /\ recalled'.rows = g.rows
        BY <2>4, <3>1, <4>1, NewestLoops
      <4>3. Within(records[p], budget, g)'
        BY <2>5, <4>2 DEF Within, OfRecords
      <4> QED
        BY <2>4, <2>5, <3>1, <4>2, <4>3 DEF FromRecords
    <3>2. CASE kind[p] = "simplemem"
      <4>1. PICK who : who = project[p]
        OBVIOUS
      <4>2. db \in Seq(RowType) /\ recalled'.rows = Ranked(who, q, budget)
        BY <2>4, <3>2, <4>1 DEF Written, TypeOK, RowsTyped
      <4>3. PICK g : Loop(Candidates(who), q, budget, g) /\ g.rest = {} /\ recalled'.rows = g.rows
        <5>1. db \in Seq(RowType) /\ budget \in Nat
          BY <2>4, <4>2
        <5>2. PICK g : /\ Loop(Candidates(who), q, budget, g) /\ g.rest = {}
                       /\ Ranked(who, q, budget) = g.rows
          <6> HIDE <2>4, <2>5
          <6> QED
            BY <5>1, RankedLoops
        <5> QED
          BY <4>2, <5>2
      <4>4. \A i, j : Newer(i, j)' = Newer(i, j)
        BY <2>5 DEF Newer
      <4>5. \A i, j : Matches(q, i)' = Matches(q, i) /\ Outranks(q, i, j)' = Outranks(q, i, j)
        BY <2>5, <4>4 DEF Matches, HitsOf, Outranks
      <4>6. Candidates(who)' = Candidates(who)
        BY <2>5, <4>4 DEF Candidates, RowsOf
      <4>7. GoneThrough(Candidates(who), q, g)' /\ Quoted(Candidates(who), g)' /\ Sorted(q, g)'
          <5>1. GoneThrough(Candidates(who), q, g)'
            BY <4>3, <4>5, <4>6 DEF Loop, GoneThrough
        <5>2. Quoted(Candidates(who), g)'
            BY <2>5, <4>3, <4>6 DEF Loop, Quoted, OfRow
        <5>3. Sorted(q, g)'
            BY <4>3, <4>5 DEF Loop, Sorted
        <5> QED
            BY <5>1, <5>2, <5>3
      <4>8. Explained(Candidates(who), q, g)' /\ PassedRightly(Candidates(who), q, budget, g)'
        BY <2>5, <4>3, <4>5, <4>6 DEF Loop, Explained, PassedRightly, Behind
      <4>9. Loop(Candidates(who), q, budget, g)'
        BY <4>3, <4>6, <4>7, <4>8 DEF Loop
      <4> QED
        BY <2>4, <2>5, <3>2, <4>1, <4>3, <4>9 DEF FromFile
    <3> QED
      BY <2>6, <3>1, <3>2
  <2>8. /\ (Written /\ (\E k \in Port : FromFile(k)) => Recall)'
        /\ (Written /\ (\E k \in Port : FromRecords(k)) => Recall)'
    BY FileRecall, RecordsRecall, PTL
  <2> QED
    BY <2>2, <2>7, <2>8
<1> QED
  <2>1. CASE UNCHANGED vars
    BY <1>1, <2>1 DEF vars, port
  <2>2. CASE Next
    <3>1. PICK p \in Port : Step(p)
      BY <2>2, NextIsAStep
    <3>2. CASE InsertNext(p) \/ FinishRaises(p)
      BY <1>1, <3>2 DEF InsertNext, FinishRaises, Rollback, port
    <3>3. CASE Retrieve(p)
      BY <1>3, <3>3
    <3>4. CASE StartRun(p) \/ Record(p) \/ FinishInMemory(p) \/ BeginFinish(p) \/ Commit(p) \/ Die(p)
      BY <1>2, <3>4 DEF StartRun, Record, FinishInMemory, BeginFinish, Commit, Die
    <3> QED
      BY <3>1, <3>2, <3>3, <3>4 DEF Step
  <2> QED
    BY <2>1, <2>2

LEMMA AlwaysRecall == Spec => []Recall
<1>1. Init => Recall
  BY NothingRecalled DEF Init, Recall
<1> QED
  BY <1>1, NextRecalls, AlwaysWritten, PTL DEF Spec

\* What is recalled was seen with success by a run of the same project; from the
\* file, by one that ended well (retrieve of both ports).
THEOREM RecallEarned == Spec => []RecallIsEarned
<1>1. Recall => RecallIsEarned
  BY DEF Recall
<1> QED
  BY <1>1, AlwaysRecall, PTL

\* Recall keeps to its budget, names no source twice, prefers more hits and then
\* later runs, and leaves out no better row that could have been trimmed to fit.
THEOREM RecallRanked == Spec => []RecallIsRanked
<1>1. Recall => RecallIsRanked
  BY DEF Recall
<1> QED
  BY <1>1, AlwaysRecall, PTL
==============================================================================

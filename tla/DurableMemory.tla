---------------------------- MODULE DurableMemory ----------------------------
(***************************************************************************)
(* The memory ports of module CoreRuntime from the inside.  SimpleMem      *)
(* Cross (memory/simplemem_cross.py): several processes, each with a port  *)
(* of its own, write the runs they finish into one SQLite file and recall  *)
(* what fits a budget.  The in-memory port (memory/inmemory.py): the       *)
(* records of one process.  A process may die between any two statements,  *)
(* and any statement of finish_run may raise.                              *)
(*                                                                         *)
(* A content is a note with a length and, for a query, a number of hits.   *)
(* created_ts of a row is the time of finish_run: the nanoseconds the code *)
(* adds per row vanish in a float of that size as long as a run has fewer  *)
(* than about 119 observations, the runs modelled here, so rows of one run *)
(* are told apart by their place in the table only.  Notes end in no       *)
(* blanks: a trimmed one is as long as the budget allows.                  *)
(***************************************************************************)
EXTENDS Integers, SequencesExt, Selection

CONSTANTS
  Port,          \* the processes with a memory port
  Nobody,        \* none of them
  Project,       \* the projects that share the file
  Tool, Note, Blank,
  Length,        \* of a note
  Overhead,      \* what the delimiters add around a tool's note
  Query, Hits,   \* Hits[q][n]: how many tokens of q occur in n
  Wordless,      \* the queries without any token
  Answers,       \* the notes a run may answer with, NoAnswer among them
  NoAnswer,
  Observations,  \* the <<tool, note, ok>> a run may make
  Budget,        \* the character budgets retrieve is called with
  Window,        \* the limit of the SELECT, 512 in the code
  MaxRuns, MaxObservations  \* bounds: runs and observations in all

ASSUME MemoryAssumption ==
  /\ Nobody \notin Port /\ Blank \in Note /\ NoAnswer \notin Note
  /\ Length \in [Note -> Nat] /\ Overhead \in [Tool \cup {"answer"} -> Nat \ {0}]
  /\ Hits \in [Query -> [Note -> Nat]] /\ Wordless \subseteq Query
  /\ Observations \subseteq Tool \X Note \X BOOLEAN
  /\ Answers \subseteq Note \cup {NoAnswer} /\ Budget \subseteq Nat
  /\ {Window, MaxRuns, MaxObservations} \subseteq Nat \ {0}

VARIABLES
  kind, project,  \* of a port: "simplemem" or "inmemory", and whose rows it sees
  pc,             \* "idle", "open" in a run, "writing" in finish_run
  run,            \* _run_id, 0 for None
  pending,        \* _pending: <<tool, note>>
  answer, stamp,  \* the locals of finish_run
  at,             \* how many of the pending rows it has been through
  tx,             \* the rows of the open transaction
  lock,           \* the port that holds the write lock of the file, or Nobody
  db,             \* memory_entries, in the order of rowids
  records,        \* InMemoryMemoryPort.records
  now,            \* the clock
  recalled,       \* the last result of retrieve
  history         \* per run: its project, what it saw with success, its answer, its end

port == <<kind, project>>
finishing == <<answer, stamp, at, tx, lock>>
vars == <<port, pc, run, pending, finishing, db, records, now, recalled, history>>

Nothing == [by |-> Nobody, query |-> Nobody, budget |-> 0, rows |-> <<>>]

Init ==
  /\ kind \in [Port -> {"simplemem", "inmemory"}] /\ project \in [Port -> Project]
  /\ pc = [p \in Port |-> "idle"] /\ run = [p \in Port |-> 0]
  /\ pending = [p \in Port |-> <<>>] /\ records = [p \in Port |-> <<>>]
  /\ answer = [p \in Port |-> NoAnswer] /\ stamp = [p \in Port |-> 0]
  /\ at = [p \in Port |-> 0] /\ tx = [p \in Port |-> <<>>]
  /\ lock = Nobody /\ db = <<>> /\ now = 0
  /\ recalled = Nothing /\ history = <<>>

-----------------------------------------------------------------------------
(* retrieve.  A row is named by its rowid.  Rows are taken in the order of  *)
(* their rank, out of the newest Window rows of the project only.          *)
Newer(i, j) == db[i].ts > db[j].ts \/ (db[i].ts = db[j].ts /\ i < j)
HitsOf(q, i) == IF q \in Wordless THEN 0 ELSE Hits[q][db[i].note]
Outranks(q, i, j) ==
  HitsOf(q, i) > HitsOf(q, j) \/ (HitsOf(q, i) = HitsOf(q, j) /\ Newer(i, j))

RowsOfAnyone(who) == DOMAIN db  \* mutant
RowsOf(who) == {i \in DOMAIN db : db[i].project = who}
Candidates(who) ==
  {i \in RowsOf(who) : Cardinality({j \in RowsOf(who) : Newer(j, i)}) < Window}
Best(q, ids) == CHOOSE i \in ids : \A j \in ids \ {i} : Outranks(q, i, j)

Provenance(row) == <<row.run, row.tool>>
Block(row) == Overhead[row.tool] + Length[row.note]
Matches(q, i) == q \in Wordless \/ HitsOf(q, i) > 0
Wanted(q, i, got) == Provenance(db[i]) \notin got.seen /\ Matches(q, i)
Excerpt(i, row, size) ==
  [id |-> i, run |-> row.run, tool |-> row.tool, note |-> row.note, size |-> size]

\* One turn of the loop; a row that does not fit ends it, but the first is
\* trimmed to what is left if the delimiters fit.
\* Mutant: a row that does not fit is passed over.
TakeOrPassOver(q, got, i) ==
  IF got.over \/ ~Wanted(q, i, got) \/ Block(db[i]) > got.left THEN got
  ELSE [got EXCEPT !.seen = @ \cup {Provenance(db[i])}, !.left = @ - Block(db[i]),
                   !.rows = Append(@, Excerpt(i, db[i], Block(db[i]))),
                   !.over = got.left = Block(db[i])]
Take(q, got, i) ==
  LET row == db[i]
      size == IF Block(row) <= got.left THEN Block(row) ELSE got.left
      fits == Block(row) <= got.left \/ (got.rows = <<>> /\ Overhead[row.tool] <= got.left)
  IN  IF got.over \/ ~Wanted(q, i, got) THEN got
      ELSE [got EXCEPT !.seen = @ \cup {Provenance(row)},
                       !.left = IF fits THEN @ - size ELSE @,
                       !.rows = IF fits THEN Append(@, Excerpt(i, row, size)) ELSE @,
                       !.over = IF fits THEN got.left = size ELSE got.rows # <<>>]
TakeBest(q, got) ==
  LET i == Best(q, got.rest) IN Take(q, [got EXCEPT !.rest = @ \ {i}], i)
Ranked(who, q, budget) ==
  LET n == Cardinality(Candidates(who))
      got[k \in 0..n] ==
        IF k > 0 THEN TakeBest(q, got[k - 1])
        ELSE [rest |-> Candidates(who), seen |-> {}, left |-> budget, rows |-> <<>>,
              over |-> budget = 0]
  IN  got[n].rows

\* The in-memory port goes back from its newest record and keeps their order.
TakeNewest(got, row) ==
  LET size == IF Length[row.note] <= got.left THEN Length[row.note] ELSE got.left
      fits == Length[row.note] <= got.left \/ (got.rows = <<>> /\ got.left > 0)
  IN  IF got.over THEN got
      ELSE [left |-> IF fits THEN got.left - size ELSE got.left,
            rows |-> IF fits THEN <<Excerpt(0, row, size)>> \o got.rows ELSE got.rows,
            over |-> size < Length[row.note]]
NewestWithin(kept, budget) ==
  LET n == Len(kept)
      got[k \in 0..n] ==
        IF k > 0 THEN TakeNewest(got[k - 1], kept[n + 1 - k])
        ELSE [left |-> budget, rows |-> <<>>, over |-> FALSE]
  IN  got[n].rows

Retrieve(p) ==
  /\ pc[p] = "open"
  /\ \E q \in Query, budget \in Budget :
       recalled' = [by |-> p, query |-> q, budget |-> budget,
                    rows |-> IF kind[p] = "inmemory" THEN NewestWithin(records[p], budget)
                             ELSE Ranked(project[p], q, budget)]
  /\ UNCHANGED <<port, pc, run, pending, finishing, db, records, now, history>>

-----------------------------------------------------------------------------
Reset(f, p, value) == f' = [f EXCEPT ![p] = value]

PendingOfLastRun(p) == pending[p]  \* mutant: start_run does not clear
PendingAtStart(p) == <<>>
StartRun(p) ==
  /\ pc[p] = "idle" /\ Len(history) < MaxRuns
  /\ Reset(pc, p, "open") /\ Reset(run, p, Len(history) + 1)
  /\ Reset(pending, p, PendingAtStart(p))
  /\ history' = Append(history, [project |-> project[p], tried |-> 0, saw |-> <<>>,
                                 answer |-> NoAnswer, over |-> "no"])
  /\ recalled' = Nothing
  /\ UNCHANGED <<port, finishing, db, records, now>>

SeenInAll == FoldLeft(LAMBDA sum, past : sum + past.tried, 0, history)
Record(p) ==
  /\ pc[p] = "open" /\ SeenInAll < MaxObservations
  /\ \E o \in Observations :
       LET row == [project |-> project[p], ts |-> 0, note |-> o[2], run |-> run[p],
                   tool |-> o[1]]
       IN  /\ IF kind[p] = "inmemory"
              THEN /\ records' = [records EXCEPT ![p] = IF o[3] THEN Append(@, row) ELSE @]
                   /\ UNCHANGED pending
              ELSE /\ pending' = [pending EXCEPT ![p] = IF o[3] THEN Append(@, <<o[1], o[2]>>)
                                                                ELSE @]
                   /\ UNCHANGED records
           /\ history' = [history EXCEPT ![run[p]].tried = @ + 1,
                            ![run[p]].saw = IF o[3] THEN Append(@, <<o[1], o[2]>>) ELSE @]
  /\ recalled' = Nothing
  /\ UNCHANGED <<port, pc, run, finishing, db, now>>

-----------------------------------------------------------------------------
(* finish_run: BEGIN, one INSERT per pending row that is not blank, one    *)
(* for the answer, COMMIT.  The first INSERT takes the file's write lock.  *)
FinishInMemory(p) ==
  /\ pc[p] = "open" /\ kind[p] = "inmemory" /\ Reset(pc, p, "idle")
  /\ history' = [history EXCEPT ![run[p]].over = "kept"]
  /\ recalled' = Nothing
  /\ UNCHANGED <<port, run, pending, finishing, db, records, now>>

BeginFinish(p) ==
  /\ pc[p] = "open" /\ kind[p] = "simplemem" /\ Reset(pc, p, "writing")
  /\ \E n \in Answers : /\ Reset(answer, p, n)
                        /\ history' = [history EXCEPT ![run[p]].answer = n]
  /\ now' \in {now, now + 1} /\ Reset(stamp, p, now')
  /\ Reset(at, p, 0) /\ Reset(tx, p, <<>>) /\ recalled' = Nothing
  /\ UNCHANGED <<port, run, pending, lock, db, records>>

Row(p, tool, note) ==
  [project |-> project[p], ts |-> stamp[p], note |-> note, run |-> run[p], tool |-> tool]
Insert(p, tool, note) ==
  IF note \in {Blank, NoAnswer} THEN UNCHANGED <<tx, lock>>
  ELSE /\ lock \in {Nobody, p} /\ lock' = p
       /\ tx' = [tx EXCEPT ![p] = Append(@, Row(p, tool, note))]
InsertNext(p) ==
  /\ pc[p] = "writing" /\ at[p] <= Len(pending[p])
  /\ IF at[p] < Len(pending[p])
     THEN Insert(p, pending[p][at[p] + 1][1], pending[p][at[p] + 1][2])
     ELSE Insert(p, "answer", answer[p])
  /\ at' = [at EXCEPT ![p] = @ + 1]
  /\ UNCHANGED <<port, pc, run, pending, answer, stamp, db, records, now, recalled, history>>

Unlocked(p) == lock' = (IF lock = p THEN Nobody ELSE lock)
EndTransaction(p) ==
  /\ Reset(tx, p, <<>>) /\ Reset(at, p, 0) /\ Reset(answer, p, NoAnswer)
  /\ Reset(stamp, p, 0) /\ Unlocked(p)
Commit(p) ==
  /\ pc[p] = "writing" /\ at[p] = Len(pending[p]) + 1
  /\ db' = db \o tx[p] /\ EndTransaction(p) /\ Reset(pc, p, "idle")
  /\ Reset(run, p, 0) /\ Reset(pending, p, <<>>)
  /\ history' = [history EXCEPT ![run[p]].over = "stored"]
  /\ recalled' = Nothing /\ UNCHANGED <<port, records, now>>

\* A statement raises, the wait for the lock (five seconds) has been too long,
\* the disk is full: ROLLBACK; the run id and what is pending stay.
RollbackKeepsRows(p) == db' = db \o tx[p]  \* mutant
Rollback(p) == db' = db
FinishRaises(p) ==
  /\ pc[p] = "writing" /\ Rollback(p) /\ EndTransaction(p) /\ Reset(pc, p, "idle")
  /\ UNCHANGED <<port, run, pending, records, now, recalled, history>>

\* The process dies, and another one takes its place.
Die(p) ==
  /\ pc[p] # "idle" /\ EndTransaction(p) /\ Reset(pc, p, "idle")
  /\ Reset(run, p, 0) /\ Reset(pending, p, <<>>) /\ Reset(records, p, <<>>)
  /\ recalled' = Nothing /\ UNCHANGED <<port, db, now, history>>

Next == \E p \in Port :
  \/ StartRun(p) \/ Retrieve(p) \/ Record(p) \/ FinishInMemory(p)
  \/ BeginFinish(p) \/ InsertNext(p) \/ Commit(p) \/ FinishRaises(p) \/ Die(p)

Spec == Init /\ [][Next]_vars

-----------------------------------------------------------------------------
\* What a run that is over has left in the file, by the port's contract: its
\* successful observations that are not blank, then its answer.
Kept(seen) == Selected(seen, {o \in ToSet(seen) : o[2] # Blank})
Legacy(r) ==
  Kept(history[r].saw) \o
  (IF history[r].answer \in {Blank, NoAnswer} THEN <<>> ELSE <<<<"answer", history[r].answer>>>>)
StoredOf(r) ==
  LET rows == Selected(db, {row \in ToSet(db) : row.run = r})
  IN  [i \in DOMAIN rows |-> <<rows[i].tool, rows[i].note>>]

\* A run is in durable memory as a whole, once, or not at all, whenever the
\* process dies or a statement fails, whoever else writes; and a run that
\* follows a failed finish_run on the same port does not bring its observations
\* in (simplemem_cross.py 144-147 and 204-249).
RunsAreWhole ==
  \A r \in DOMAIN history :
    StoredOf(r) = IF history[r].over = "stored" THEN Legacy(r) ELSE <<>>

\* What is recalled was seen with success, by a run of the same project; from
\* the file, only once that run has ended well (simplemem_cross.py 108-202,
\* inmemory.py 18-41).
RecallIsEarned ==
  \A i \in DOMAIN recalled.rows :
    LET row == recalled.rows[i]
        past == history[row.run]
    IN  /\ <<row.tool, row.note>> \in ToSet(past.saw) \cup {<<"answer", past.answer>>}
        /\ past.project = project[recalled.by]
        /\ kind[recalled.by] = "simplemem" => past.over = "stored"

Spent(rows) == Cardinality(UNION {{i} \X (1..rows[i].size) : i \in DOMAIN rows})
PassedOver == \* rows of the window that match, and were not recalled
  {i \in Candidates(project[recalled.by]) :
     /\ Matches(recalled.query, i)
     /\ \A k \in DOMAIN recalled.rows : Provenance(recalled.rows[k]) # Provenance(db[i])}

\* Recall keeps to the budget; from the file it never names one source twice,
\* and prefers more hits, then later runs: nothing is recalled while a better
\* row that could have been trimmed to fit is not (simplemem_cross.py 149-193).
RecallIsRanked ==
  LET rows == recalled.rows
  IN  /\ Spent(rows) <= recalled.budget
      /\ recalled.by # Nobody /\ kind[recalled.by] = "simplemem" =>
           /\ \A i, j \in DOMAIN rows :
                i < j => /\ Provenance(rows[i]) # Provenance(rows[j])
                         /\ Outranks(recalled.query, rows[i].id, rows[j].id)
           /\ \A i \in PassedOver, j \in DOMAIN rows :
                Outranks(recalled.query, i, rows[j].id) =>
                  Overhead[db[i].tool] > recalled.budget
=============================================================================

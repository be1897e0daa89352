------------------------- MODULE ToolSchedulerProofs -------------------------
(* Theorems about ToolScheduler for every batch, every set of tools and     *)
(* recordings, and every way the pool and the clock may run.                *)
EXTENDS ToolScheduler, FiniteSetTheorems, TLAPS

-----------------------------------------------------------------------------
(* The inductive invariant.                                                 *)

\* What has been started and what is queued are the calls of the batch, in order.
InOrder ==
  /\ \A i \in DOMAIN started : started[i] = batch[i]
  /\ \A i \in DOMAIN queue : queue[i] = batch[Len(started) + i]
  /\ pc = "submit" => Len(started) + Len(queue) < Len(batch)
  /\ pc # "submit" => Len(started) + Len(queue) = Len(batch)

\* A call is invoked from its start to its result, and none outlives the batch.
Invoked ==
  /\ IsFiniteSet(running)
  /\ \A c \in running : result[c] = NoResult
  /\ \A c \in Call : c \in running \/ result[c] # NoResult =>
       \E i \in DOMAIN started : c = started[i]
  /\ \A i \in DOMAIN started : started[i] \in running \/ result[started[i]] # NoResult
  /\ pc \in {"returned", "raised"} => queue = <<>> /\ running = {}

\* An observation is what its call came back with, or a timeout.
Collected ==
  /\ Len(obs) <= Len(batch)
  /\ pc \in {"submit", "check", "await"} => Len(obs) < Len(batch) /\ error = "none"
  /\ pc \in {"shutdown", "returned"} /\ error = "none" => Len(obs) = Len(batch)
  /\ \A i \in DOMAIN obs : obs[i] \in {result[batch[i]], TimedOut}

\* One worker: all but the latest call have ended.
OneByOne ==
  ~CanParallelize(batch) =>
    \A i \in DOMAIN started : i < Len(started) => result[started[i]] # NoResult

\* Recordings answer for the tools.
AnsweredFromRecordings ==
  Replaying => touched = {} /\ \A c \in Call : result[c] \in {recorded[c], NoResult}

IInv ==
  /\ TypeOK /\ InOrder /\ Invoked /\ Collected /\ OneByOne /\ AnsweredFromRecordings

-----------------------------------------------------------------------------
LEMMA BatchCalls ==
  ASSUME TypeOK
  PROVE  /\ batch \in Seq(Call) /\ Len(batch) \in Nat /\ DOMAIN batch = 1..Len(batch)
         /\ \A i \in DOMAIN batch : batch[i] \in Call
         /\ \A i, j \in DOMAIN batch : batch[i] = batch[j] => i = j
         /\ ToSet(batch) = {batch[i] : i \in DOMAIN batch}
BY SchedulerAssumption DEF TypeOK, IsInjective, ToSet

LEMMA InvokeType ==
  ASSUME TypeOK, NEW c \in Call, NEW r \in Invoke(c)
  PROVE  r \in Outcome \cup {Missing} /\ r # NoResult
BY SchedulerAssumption DEF TypeOK, Invoke, Replaying, Sentinels

LEMMA InitIInv == Init => IInv
<1> SUFFICES ASSUME Init PROVE IInv
  OBVIOUS
<1>1. TypeOK
  <2>1. pc \in {"submit", "check", "await", "shutdown", "returned", "raised"}
    BY DEF Init
  <2>2. queue \in Seq(Call) /\ started \in Seq(Call) /\ obs \in Seq(Outcome \cup {TimedOut})
    BY DEF Init
  <2>3. result \in [Call -> Outcome \cup {Missing, NoResult}]
    BY DEF Init
  <2>4. /\ batch \in Batches /\ metered \in BOOLEAN /\ late \in BOOLEAN
        /\ recorded \in {Live} \cup [Call -> Outcome \cup {Missing}]
        /\ running \subseteq Call /\ touched \subseteq Call
        /\ error \in {"none", "budget", "replay_missing"}
    BY Zenon DEF Init
  <2>5. QED
    BY <2>1, <2>2, <2>3, <2>4, Zenon DEF TypeOK
<1>2. batch \in Seq(Call) /\ Len(batch) \in Nat /\ (batch = <<>> <=> Len(batch) = 0)
  BY <1>1, BatchCalls
<1>3. InOrder
  BY <1>2 DEF Init, InOrder
<1>4. Invoked
  BY FS_EmptySet DEF Init, Invoked
<1>5. Collected
  BY <1>2 DEF Init, Collected
<1>6. OneByOne /\ AnsweredFromRecordings
  BY DEF Init, OneByOne, AnsweredFromRecordings
<1>7. QED
  BY <1>1, <1>3, <1>4, <1>5, <1>6 DEF IInv

LEMMA SubmitIInv == IInv /\ Submit => IInv'
<1> SUFFICES ASSUME IInv, Submit PROVE IInv'
  OBVIOUS
<1> USE DEF IInv
<1>1. batch \in Seq(Call) /\ queue \in Seq(Call) /\ started \in Seq(Call)
  BY BatchCalls DEF TypeOK
<1> DEFINE n == Len(started) + Len(queue) + 1
<1>2. n \in 1..Len(batch) /\ batch[n] \in Call
  BY <1>1 DEF Submit, InOrder
<1>3. queue' = Append(queue, batch[n])
  BY DEF Submit
<1>4. TypeOK'
  BY <1>1, <1>2, <1>3 DEF Submit, TypeOK, inputs
<1>5. InOrder'
  <2>1. \A i \in DOMAIN queue' : queue'[i] = batch[Len(started) + i]
    BY <1>1, <1>2, <1>3 DEF InOrder
  <2>2. Len(queue') = Len(queue) + 1
    BY <1>1, <1>2, <1>3
  <2>3. QED
    BY <1>1, <1>2, <2>1, <2>2 DEF Submit, InOrder, inputs
<1>6. Invoked'
  BY DEF Submit, Invoked, inputs
<1>7. Collected'
  BY DEF Submit, Collected, inputs
<1>8. OneByOne' /\ AnsweredFromRecordings'
  BY DEF Submit, OneByOne, AnsweredFromRecordings, CanParallelize, Replaying, inputs
<1>9. QED
  BY <1>4, <1>5, <1>6, <1>7, <1>8

\* The collecting thread past submission: futures and queue stay as they are.
Waits ==
  /\ pc # "submit" /\ pc' # "submit"
  /\ UNCHANGED <<inputs, queue, running, result, started, touched, late>>

LEMMA WaitsIInv ==
  ASSUME IInv, Waits, TypeOK', Collected', pc \notin {"returned", "raised"},
         pc' \in {"returned", "raised"} => queue = <<>> /\ running = {}
  PROVE  IInv'
<1>1. InOrder'
  BY DEF IInv, InOrder, Waits, inputs
<1>2. Invoked'
  BY DEF IInv, Invoked, Waits, inputs
<1>3. OneByOne' /\ AnsweredFromRecordings'
  BY DEF IInv, OneByOne, AnsweredFromRecordings, Waits, CanParallelize, Replaying, inputs
<1>4. QED
  BY <1>1, <1>2, <1>3 DEF IInv

LEMMA CheckIInv == IInv /\ CheckWallClock => IInv'
<1> SUFFICES ASSUME IInv, CheckWallClock PROVE IInv'
  OBVIOUS
<1>1. Waits
  BY DEF CheckWallClock, Waits
<1>2. TypeOK'
  BY DEF IInv, TypeOK, CheckWallClock, inputs
<1>3. Collected'
  BY DEF IInv, Collected, CheckWallClock, inputs
<1>4. pc = "check" /\ pc' \in {"shutdown", "await"}
  BY DEF CheckWallClock
<1>5. QED
  BY <1>1, <1>2, <1>3, <1>4, WaitsIInv

\* One more observation, of the call awaited.
LEMMA CollectIInv ==
  ASSUME IInv, pc = "await", NEW o \in (Outcome \cup {TimedOut}), CollectObservation(o),
         o \in {result[Awaited], TimedOut},
         UNCHANGED <<inputs, queue, running, result, started, touched, late>>
  PROVE  IInv'
<1>1. /\ obs \in Seq(Outcome \cup {TimedOut}) /\ Len(batch) \in Nat
      /\ Len(obs) < Len(batch) /\ error = "none"
  BY BatchCalls DEF IInv, TypeOK, Collected
<1>2. /\ obs' = Append(obs, o) /\ obs' \in Seq(Outcome \cup {TimedOut})
      /\ Len(obs') = Len(obs) + 1
  BY <1>1 DEF CollectObservation
<1>3. pc' = IF Len(obs') = Len(batch) THEN "shutdown" ELSE "check"
  BY DEF CollectObservation, inputs
<1>4. TypeOK'
  BY <1>1, <1>2, <1>3 DEF IInv, TypeOK, CollectObservation, inputs
<1>5. Collected'
  <2>1. \A i \in DOMAIN obs' : obs'[i] \in {result[batch[i]], TimedOut}
    BY <1>1, <1>2 DEF IInv, Collected, Awaited
  <2>2. QED
    BY <1>1, <1>2, <1>3, <2>1 DEF Collected, CollectObservation, inputs
<1>6. Waits
  BY <1>3 DEF Waits
<1>7. QED
  BY <1>3, <1>4, <1>5, <1>6, WaitsIInv

LEMMA FutureEndsIInv == IInv /\ FutureEnds => IInv'
<1> SUFFICES ASSUME IInv, FutureEnds PROVE IInv'
  OBVIOUS
<1>1. CASE result[Awaited] = Missing
  <2>1. Waits
    BY <1>1 DEF FutureEnds, Waits
  <2>2. TypeOK'
    BY <1>1 DEF IInv, TypeOK, FutureEnds, inputs
  <2>3. Collected'
    BY <1>1 DEF IInv, Collected, FutureEnds, inputs
  <2>4. pc = "await" /\ pc' = "shutdown"
    BY <1>1 DEF FutureEnds
  <2>5. QED
    BY <2>1, <2>2, <2>3, <2>4, WaitsIInv
<1>2. CASE result[Awaited] # Missing
  <2>1. pc = "await" /\ result[Awaited] # NoResult /\ CollectObservation(result[Awaited])
    BY <1>2 DEF FutureEnds
  <2>2. Awaited \in Call
    BY <2>1, BatchCalls DEF IInv, TypeOK, Collected, Awaited
  <2>3. result[Awaited] \in Outcome
    BY <1>2, <2>1, <2>2 DEF IInv, TypeOK
  <2>4. UNCHANGED <<inputs, queue, running, result, started, touched, late>>
    BY DEF FutureEnds
  <2>5. QED
    BY <2>1, <2>3, <2>4, CollectIInv
<1>3. QED
  BY <1>1, <1>2

LEMMA WaitTimesOutIInv == IInv /\ WaitTimesOut => IInv'
BY CollectIInv DEF WaitTimesOut

LEMMA ShutdownIInv == IInv /\ Shutdown => IInv'
<1> SUFFICES ASSUME IInv, Shutdown PROVE IInv'
  OBVIOUS
<1>1. Waits
  BY DEF Shutdown, Waits
<1>2. TypeOK'
  BY DEF IInv, TypeOK, Shutdown, inputs
<1>3. Collected'
  BY DEF IInv, Collected, Shutdown, inputs
<1>4. pc = "shutdown" /\ queue = <<>> /\ running = {}
  BY DEF Shutdown
<1>5. QED
  BY <1>1, <1>2, <1>3, <1>4, WaitsIInv

LEMMA MaxWorkersOfSerial ==
  ASSUME IInv, ~CanParallelize(batch), Cardinality(running) < MaxWorkers(batch)
  PROVE  running = {}
<1>1. Cardinality(running) \in Nat /\ IsFiniteSet(running)
  BY FS_CardinalityType DEF IInv, Invoked
<1>2. Cardinality(running) = 0
  BY <1>1 DEF MaxWorkers
<1>3. QED
  BY <1>1, <1>2, FS_EmptySet

\* A worker takes the first call of the queue.
LEMMA BeginIInv == IInv /\ Begin => IInv'
<1> SUFFICES ASSUME IInv, Begin PROVE IInv'
  OBVIOUS
<1> DEFINE c == Head(queue)
           n == Len(started) + 1
<1>1. /\ queue \in Seq(Call) /\ started \in Seq(Call) /\ queue # <<>>
      /\ batch \in Seq(Call) /\ Len(batch) \in Nat /\ DOMAIN batch = 1..Len(batch)
      /\ running \subseteq Call
  <2>1. batch \in Seq(Call) /\ Len(batch) \in Nat /\ DOMAIN batch = 1..Len(batch)
    BY BatchCalls DEF IInv
  <2>2. QED
    BY <2>1 DEF IInv, TypeOK, Begin
<1>2. /\ queue' = Tail(queue) /\ started' = Append(started, c) /\ running' = running \cup {c}
      /\ touched' = Touched(c) /\ UNCHANGED <<batch, recorded, pc, result, obs, error>>
  BY DEF Begin, inputs
<1>3. /\ Len(queue) \in Nat \ {0} /\ Len(queue') = Len(queue) - 1
      /\ queue' \in Seq(Call) /\ started' \in Seq(Call) /\ Len(started') = n
      /\ \A i \in DOMAIN queue' : i \in Nat \ {0} /\ i + 1 \in DOMAIN queue /\ queue'[i] = queue[i + 1]
      /\ \A i \in DOMAIN started' : started'[i] = IF i = n THEN c ELSE started[i]
      /\ DOMAIN started' = 1..n /\ DOMAIN started = 1..(n - 1)
  BY <1>1, <1>2
<1>4. c \in Call /\ c = queue[1]
  BY <1>1
<1>5. c = batch[n] /\ n \in DOMAIN batch
  <2>1. 1 \in DOMAIN queue /\ Len(started) \in Nat
    BY <1>1, <1>3
  <2>2. queue[1] = batch[Len(started) + 1]
    BY <2>1 DEF IInv, InOrder
  <2>3. Len(started) + Len(queue) < Len(batch) \/ Len(started) + Len(queue) = Len(batch)
    BY DEF IInv, InOrder
  <2>4. n \in 1..Len(batch)
    <3>1. Len(queue) \in Nat \ {0} /\ Len(batch) \in Nat
      BY <1>1, <1>3
    <3>2. QED
      BY <2>1, <2>3, <3>1
  <2>5. QED
    BY <1>1, <1>4, <2>2, <2>4
<1>6. c \notin running /\ result[c] = NoResult
  <2> SUFFICES ASSUME c \in running \/ result[c] # NoResult PROVE FALSE
    OBVIOUS
  <2>1. PICK i \in DOMAIN started : c = started[i]
    BY <1>4 DEF IInv, Invoked
  <2>2. c = batch[i]
    BY <2>1 DEF IInv, InOrder
  <2>3. i \in DOMAIN batch /\ i # n
    BY <1>1, <1>3, <1>5, <2>1
  <2>4. QED
    BY <1>5, <2>2, <2>3, BatchCalls DEF IInv
<1>7. TypeOK'
  <2>1. touched' \subseteq Call
    BY <1>2, <1>4 DEF IInv, TypeOK, Touched
  <2>2. running' \subseteq Call
    BY <1>1, <1>2, <1>4
  <2>3. QED
    BY <1>2, <1>3, <2>1, <2>2 DEF IInv, TypeOK, Begin, inputs
<1>8. InOrder'
  <2>1. \A i \in DOMAIN started' : started'[i] = batch[i]
    BY <1>3, <1>5 DEF IInv, InOrder
  <2>2. \A i \in DOMAIN queue' : queue'[i] = batch[n + i]
    <3> TAKE i \in DOMAIN queue'
    <3>1. queue'[i] = queue[i + 1] /\ i + 1 \in DOMAIN queue
      BY <1>3
    <3>2. queue[i + 1] = batch[Len(started) + (i + 1)]
      BY <3>1 DEF IInv, InOrder
    <3>3. i \in Nat /\ Len(started) \in Nat
      BY <1>1, <1>3
    <3>4. QED
      BY <3>1, <3>2, <3>3
  <2>3. Len(started') + Len(queue') = Len(started) + Len(queue)
    BY <1>1, <1>3
  <2>4. QED
    BY <1>2, <1>3, <2>1, <2>2, <2>3 DEF IInv, InOrder
<1>9. Invoked'
  <2>1. IsFiniteSet(running')
    BY <1>2, FS_AddElement DEF IInv, Invoked
  <2>2. \A d \in running' : result'[d] = NoResult
    BY <1>2, <1>6 DEF IInv, Invoked
  <2>3. \A d \in Call : d \in running' \/ result'[d] # NoResult =>
          \E i \in DOMAIN started' : d = started'[i]
    <3> SUFFICES ASSUME NEW d \in Call, d \in running' \/ result'[d] # NoResult
                 PROVE  \E i \in DOMAIN started' : d = started'[i]
      OBVIOUS
    <3>1. CASE d = c
      BY <1>1, <1>3, <3>1
    <3>2. CASE d # c
      <4>1. PICK i \in DOMAIN started : d = started[i]
        BY <1>2, <3>2 DEF IInv, Invoked
      <4>2. i \in DOMAIN started' /\ started'[i] = started[i]
        BY <1>1, <1>3, <4>1
      <4>3. QED
        BY <4>1, <4>2
    <3>3. QED
      BY <3>1, <3>2
  <2>4. \A i \in DOMAIN started' : started'[i] \in running' \/ result'[started'[i]] # NoResult
    <3> TAKE i \in DOMAIN started'
    <3>1. CASE i = n
      BY <1>2, <1>3, <3>1
    <3>2. CASE i # n
      <4>1. i \in DOMAIN started /\ started'[i] = started[i]
        BY <1>1, <1>3, <3>2
      <4>2. QED
        BY <1>2, <4>1 DEF IInv, Invoked
    <3>3. QED
      BY <3>1, <3>2
  <2>5. pc' \notin {"returned", "raised"}
    BY <1>1, <1>2 DEF IInv, Invoked
  <2>6. QED
    BY <2>1, <2>2, <2>3, <2>4, <2>5 DEF Invoked
<1>10. Collected'
  BY <1>2 DEF IInv, Collected
<1>11. OneByOne'
  <2> SUFFICES ASSUME ~CanParallelize(batch), NEW i \in DOMAIN started', i < n
               PROVE  result[started'[i]] # NoResult
    BY <1>2, <1>3 DEF OneByOne, CanParallelize
  <2>1. running = {}
    BY MaxWorkersOfSerial DEF Begin
  <2>2. i \in DOMAIN started /\ started'[i] = started[i]
    BY <1>1, <1>3
  <2>3. QED
    BY <2>1, <2>2 DEF IInv, Invoked
<1>12. AnsweredFromRecordings'
  BY <1>2 DEF IInv, AnsweredFromRecordings, Replaying, Touched
<1>13. QED
  BY <1>7, <1>8, <1>9, <1>10, <1>11, <1>12 DEF IInv

\* A worker is done with a call.
LEMMA EndIInv == ASSUME NEW c \in Call PROVE IInv /\ End(c) => IInv'
<1> SUFFICES ASSUME IInv, End(c) PROVE IInv'
  OBVIOUS
<1>1. PICK r \in Invoke(c) : result' = [result EXCEPT ![c] = r]
  BY DEF End
<1>2. r \in Outcome \cup {Missing} /\ r # NoResult
  BY InvokeType DEF IInv
<1>3. /\ c \in running /\ running' = running \ {c}
      /\ UNCHANGED <<inputs, pc, queue, started, touched, obs, error, late>>
  BY DEF End
<1>4. result \in [Call -> Outcome \cup {Missing, NoResult}] /\ result[c] = NoResult
  BY <1>3 DEF IInv, TypeOK, Invoked
<1>5. result'[c] = r /\ \A d \in Call : d # c => result'[d] = result[d]
  BY <1>1, <1>4
<1>6. /\ started \in Seq(Call) /\ \A i \in DOMAIN started : started[i] \in Call
      /\ DOMAIN obs = 1..Len(obs) /\ Len(obs) \in Nat
      /\ \A i \in DOMAIN obs : obs[i] \in Outcome \cup {TimedOut}
  BY DEF IInv, TypeOK
<1>7. TypeOK'
  <2>1. result' \in [Call -> Outcome \cup {Missing, NoResult}]
    BY <1>1, <1>2, <1>4
  <2>2. QED
    BY <1>3, <2>1 DEF IInv, TypeOK, inputs
<1>8. InOrder'
  BY <1>3 DEF IInv, InOrder, inputs
<1>9. Invoked'
  <2>1. IsFiniteSet(running')
    BY <1>3, FS_RemoveElement DEF IInv, Invoked
  <2>2. \A d \in running' : result'[d] = NoResult
    BY <1>3, <1>5 DEF IInv, Invoked, TypeOK
  <2>3. \A d \in Call : d \in running' \/ result'[d] # NoResult =>
          \E i \in DOMAIN started : d = started[i]
    BY <1>3, <1>5 DEF IInv, Invoked
  <2>4. \A i \in DOMAIN started : started[i] \in running' \/ result'[started[i]] # NoResult
    BY <1>2, <1>3, <1>5, <1>6 DEF IInv, Invoked
  <2>5. pc \notin {"returned", "raised"}
    BY <1>3 DEF IInv, Invoked
  <2>6. QED
    BY <1>3, <2>1, <2>2, <2>3, <2>4, <2>5 DEF Invoked
<1>10. Collected'
  <2>1. ASSUME NEW i \in DOMAIN obs PROVE obs[i] \in {result'[batch[i]], TimedOut}
    <3>1. i \in DOMAIN batch /\ batch[i] \in Call
      <4>1. Len(batch) \in Nat /\ DOMAIN batch = 1..Len(batch)
            /\ \A j \in DOMAIN batch : batch[j] \in Call
        BY BatchCalls DEF IInv
      <4>2. Len(obs) <= Len(batch)
        BY DEF IInv, Collected
      <4>3. QED
        BY <1>6, <4>1, <4>2
    <3>2. CASE batch[i] = c
      BY <1>4, <1>6, <3>2, SchedulerAssumption DEF IInv, Collected, Sentinels
    <3>3. CASE batch[i] # c
      BY <1>5, <3>1, <3>3 DEF IInv, Collected
    <3>4. QED
      BY <3>2, <3>3
  <2>2. QED
    BY <1>3, <2>1 DEF IInv, Collected, inputs
<1>11. OneByOne'
  <2> SUFFICES ASSUME ~CanParallelize(batch), NEW i \in DOMAIN started, i < Len(started)
               PROVE  result'[started[i]] # NoResult
    BY <1>3 DEF OneByOne, CanParallelize, inputs
  <2>1. result[started[i]] # NoResult /\ started[i] # c
    BY <1>4 DEF IInv, OneByOne
  <2>2. QED
    BY <1>5, <1>6, <2>1
<1>12. AnsweredFromRecordings'
  BY <1>1, <1>3, <1>5 DEF IInv, AnsweredFromRecordings, Replaying, Invoke, inputs
<1>13. QED
  BY <1>7, <1>8, <1>9, <1>10, <1>11, <1>12 DEF IInv

LEMMA UnchangedIInv == IInv /\ UNCHANGED vars => IInv'
BY DEF vars, inputs, IInv, TypeOK, InOrder, Invoked, Collected, OneByOne,
       AnsweredFromRecordings, CanParallelize, Replaying

LEMMA WallClockIInv == IInv /\ WallClockRunsOut => IInv'
<1> SUFFICES ASSUME IInv, WallClockRunsOut PROVE IInv'
  OBVIOUS
<1> USE DEF IInv, WallClockRunsOut, inputs
<1>1. TypeOK'
  BY DEF TypeOK
<1>2. InOrder' /\ Invoked' /\ Collected'
  BY DEF InOrder, Invoked, Collected
<1>3. OneByOne' /\ AnsweredFromRecordings'
  BY DEF OneByOne, AnsweredFromRecordings, CanParallelize, Replaying
<1>4. QED
  BY <1>1, <1>2, <1>3

LEMMA StepIInv == IInv /\ [Next]_vars => IInv'
BY SubmitIInv, CheckIInv, FutureEndsIInv, WaitTimesOutIInv, ShutdownIInv, BeginIInv,
   EndIInv, WallClockIInv, UnchangedIInv DEF Next, Left

LEMMA Inductive == Spec => []IInv
BY InitIInv, StepIInv, PTL DEF Spec

-----------------------------------------------------------------------------
\* Type correctness.
THEOREM SchedulerTypes == Spec => []TypeOK
<1>1. IInv => TypeOK
  BY DEF IInv
<1>2. QED
  BY Inductive, <1>1, PTL

\* Calls overlap only in a batch of different read-only tools: core/scheduler.py
\* 43-50 decides on the tools' specs, 70-72 on the number of workers.
THEOREM WritersAreAlone == Spec => []WritersRunAlone
<1>1. IInv => WritersRunAlone
  <2> SUFFICES ASSUME IInv, NEW c \in running, NEW d \in running, c # d
               PROVE  {ToolOf[c], ToolOf[d]} \subseteq ReadOnly /\ ToolOf[c] # ToolOf[d]
    BY DEF WritersRunAlone
  <2>1. PICK i \in DOMAIN started : c = started[i]
    BY DEF IInv, TypeOK, Invoked
  <2>2. PICK j \in DOMAIN started : d = started[j]
    BY DEF IInv, TypeOK, Invoked
  <2>3. c = batch[i] /\ d = batch[j] /\ i # j
    BY <2>1, <2>2 DEF IInv, InOrder
  <2>4. started \in Seq(Call) /\ queue \in Seq(Call) /\ batch \in Seq(Call)
    BY BatchCalls DEF IInv, TypeOK
  <2>5. i \in DOMAIN batch /\ j \in DOMAIN batch
    <3>1. Len(started) + Len(queue) < Len(batch) \/ Len(started) + Len(queue) = Len(batch)
      BY DEF IInv, InOrder
    <3>2. QED
      BY <2>4, <3>1
  <2>6. CanParallelize(batch)
    <3> SUFFICES ASSUME ~CanParallelize(batch) PROVE FALSE
      OBVIOUS
    <3>1. result[started[i]] = NoResult /\ result[started[j]] = NoResult
      BY <2>1, <2>2 DEF IInv, Invoked
    <3>2. ~(i < Len(started)) /\ ~(j < Len(started))
      BY <3>1 DEF IInv, OneByOne
    <3>3. QED
      BY <2>3, <2>4, <3>2
  <2>7. QED
    BY <2>3, <2>5, <2>6 DEF CanParallelize
<1>2. QED
  BY Inductive, <1>1, PTL

\* Without workers side by side the calls take effect in the order of the action,
\* one after another, also when the wait for one has timed out (core/scheduler.py
\* 76-102).
THEOREM SerialBatchesInOrder == Spec => []SerialInOrder
<1>1. IInv => SerialInOrder
  <2> SUFFICES ASSUME IInv, ~CanParallelize(batch) PROVE SerialInOrder
    BY DEF SerialInOrder
  <2>1. started \in Seq(Call) /\ queue \in Seq(Call) /\ batch \in Seq(Call)
    BY BatchCalls DEF IInv, TypeOK
  <2>2. Len(started) + Len(queue) < Len(batch) \/ Len(started) + Len(queue) = Len(batch)
    BY DEF IInv, InOrder
  <2>3. Len(started) \in 0..Len(batch)
    BY <2>1, <2>2
  <2>4. started = SubSeq(batch, 1, Len(started))
    <3>1. \A i \in 1..Len(started) : started[i] = batch[i]
      BY <2>1 DEF IInv, InOrder
    <3>2. /\ SubSeq(batch, 1, Len(started)) \in Seq(Call)
          /\ Len(SubSeq(batch, 1, Len(started))) = Len(started)
          /\ \A i \in 1..Len(started) : SubSeq(batch, 1, Len(started))[i] = batch[i]
      BY <2>1, <2>3
    <3>3. QED
      BY <2>1, <3>1, <3>2
  <2>5. IsPrefix(started, batch)
    BY <2>1, <2>3, <2>4 DEF IsPrefix
  <2>6. \A i \in DOMAIN started : i < Len(started) => result[started[i]] # NoResult
    BY DEF IInv, OneByOne
  <2>7. QED
    BY <2>5, <2>6 DEF SerialInOrder
<1>2. QED
  BY Inductive, <1>1, PTL

\* A replayed batch touches no tool and observes what was recorded, whichever
\* recordings are missing (core/scheduler.py 54-58).
THEOREM ReplaysAreExact == Spec => []ReplayIsExact
<1>1. IInv => ReplayIsExact
  <2> SUFFICES ASSUME IInv, Replaying, NEW i \in DOMAIN obs
               PROVE  obs[i] \in {recorded[batch[i]], TimedOut} \ {Missing}
    BY DEF IInv, ReplayIsExact, AnsweredFromRecordings
  <2>1. obs[i] \in Outcome \cup {TimedOut}
    BY DEF IInv, TypeOK
  <2>2. i \in DOMAIN batch
    <3>1. batch \in Seq(Call) /\ obs \in Seq(Outcome \cup {TimedOut})
      BY BatchCalls DEF IInv, TypeOK
    <3>2. Len(obs) <= Len(batch)
      BY DEF IInv, Collected
    <3>3. QED
      BY <3>1, <3>2
  <2>3. result[batch[i]] \in {recorded[batch[i]], NoResult}
    BY <2>2, BatchCalls DEF IInv, AnsweredFromRecordings
  <2>4. obs[i] \in {result[batch[i]], TimedOut}
    BY DEF IInv, Collected
  <2>5. obs[i] # NoResult /\ obs[i] # Missing
    BY <2>1, SchedulerAssumption DEF Sentinels
  <2>6. QED
    BY <2>3, <2>4, <2>5
<1>2. QED
  BY Inductive, <1>1, PTL

-----------------------------------------------------------------------------
(* The refinement: execute keeps what BatchExecution promises the run loop. *)

LEMMA SameCalls == Promise!ToSet(batch) = ToSet(batch)
BY DEF ToSet, Promise!ToSet

LEMMA InitKeepsPromise == Init => Promise!Init
<1> SUFFICES ASSUME Init PROVE Promise!Init
  OBVIOUS
<1>1. running = {} /\ result = [c \in Call |-> NoResult] /\ obs = <<>>
  BY DEF Init
<1>2. pc = IF batch = <<>> THEN "returned" ELSE "submit"
  BY DEF Init
<1>3. QED
  BY <1>1, <1>2 DEF Promise!Init

\* Nothing the run loop can see changes.
LEMMA Stutters ==
  ASSUME UNCHANGED <<batch, running, result>>, pc \notin {"returned", "raised"},
         pc' \notin {"returned", "raised"}
  PROVE  UNCHANGED Promise!batchVars
BY DEF Promise!batchVars

LEMMA BeginIsInvoke == IInv /\ Begin => \E c \in Call : Promise!Invoke(c)
<1> SUFFICES ASSUME IInv, Begin PROVE \E c \in Call : Promise!Invoke(c)
  OBVIOUS
<1> DEFINE c == Head(queue)
           n == Len(started) + 1
<1>1. /\ queue \in Seq(Call) /\ started \in Seq(Call) /\ queue # <<>> /\ batch \in Seq(Call)
  <2>1. batch \in Seq(Call)
    BY BatchCalls DEF IInv
  <2>2. QED
    BY <2>1 DEF IInv, TypeOK, Begin
<1>2. c \in Call /\ c = queue[1] /\ 1 \in DOMAIN queue
  BY <1>1
<1>3. c = batch[n]
  BY <1>1, <1>2 DEF IInv, InOrder
<1>4. n \in DOMAIN batch
  <2>1. Len(started) + Len(queue) < Len(batch) \/ Len(started) + Len(queue) = Len(batch)
    BY DEF IInv, InOrder
  <2>2. QED
    BY <1>1, <1>2, <2>1
<1>5. c \in ToSet(batch)
  BY <1>3, <1>4 DEF ToSet
<1>6. c \notin running /\ result[c] = NoResult
  <2> SUFFICES ASSUME c \in running \/ result[c] # NoResult PROVE FALSE
    OBVIOUS
  <2>1. PICK i \in DOMAIN started : c = started[i]
    BY <1>2 DEF IInv, Invoked
  <2>2. c = batch[i]
    BY <2>1 DEF IInv, InOrder
  <2>3. i \in DOMAIN batch /\ i # n
    BY <1>1, <1>4, <2>1
  <2>4. QED
    BY <1>3, <1>4, <2>2, <2>3, BatchCalls DEF IInv
<1>7. pc \notin {"returned", "raised"}
  BY <1>1 DEF IInv, Invoked
<1>8. running' = running \cup {c} /\ UNCHANGED <<batch, result, pc, obs>>
  BY DEF Begin, inputs
<1>9. Promise!Invoke(c)
  BY <1>5, <1>6, <1>7, <1>8, SameCalls DEF Promise!Invoke, Promise!Ended
<1>10. QED
  BY <1>2, <1>9

LEMMA EndIsEnd == ASSUME NEW c \in Call PROVE IInv /\ End(c) => Promise!End(c)
<1> SUFFICES ASSUME IInv, End(c) PROVE Promise!End(c)
  OBVIOUS
<1>1. PICK r \in Invoke(c) : result' = [result EXCEPT ![c] = r]
  BY DEF End
<1>2. r \in Outcome \cup {Missing}
  BY InvokeType DEF IInv
<1>3. c \in running /\ running' = running \ {c} /\ UNCHANGED <<batch, pc, obs>>
  BY DEF End, inputs
<1>4. pc \notin {"returned", "raised"}
  BY <1>3 DEF IInv, Invoked
<1>5. QED
  BY <1>1, <1>2, <1>3, <1>4 DEF Promise!End

\* When the pool has been left, every call of the batch has ended.
LEMMA ShutdownReplies == IInv /\ Shutdown => Promise!Return \/ Promise!Raise
<1> SUFFICES ASSUME IInv, Shutdown PROVE Promise!Return \/ Promise!Raise
  OBVIOUS
<1>1. /\ pc = "shutdown" /\ queue = <<>> /\ running = {}
      /\ pc' = IF error = "none" THEN "returned" ELSE "raised"
      /\ UNCHANGED <<batch, running, result, obs>>
  BY DEF Shutdown, inputs
<1>2. /\ batch \in Seq(Call) /\ started \in Seq(Call) /\ obs \in Seq(Outcome \cup {TimedOut})
  BY BatchCalls DEF IInv, TypeOK
<1>3. \A c \in ToSet(batch) : Promise!Ended(c)
  <2> SUFFICES ASSUME NEW i \in DOMAIN batch PROVE result[batch[i]] # NoResult
    BY DEF ToSet, Promise!Ended
  <2>1. Len(started) + Len(queue) = Len(batch)
    BY <1>1 DEF IInv, InOrder
  <2>2. i \in DOMAIN started
    BY <1>1, <1>2, <2>1
  <2>3. started[i] = batch[i]
    BY <2>2 DEF IInv, InOrder
  <2>4. QED
    BY <1>1, <2>2, <2>3 DEF IInv, Invoked
<1>4. CASE error = "none"
  <2>1. Len(obs) = Len(batch)
    BY <1>1, <1>4 DEF IInv, Collected
  <2>2. obs \in [1..Len(batch) -> Outcome \cup {TimedOut}]
    BY <1>2, <2>1
  <2>3. \A i \in 1..Len(batch) : obs[i] \in {result[batch[i]], TimedOut}
    BY <1>2, <2>1 DEF IInv, Collected
  <2>4. pc' = "returned"
    BY <1>1, <1>4
  <2>5. Promise!Return
    BY <1>1, <1>3, <2>2, <2>3, <2>4, SameCalls DEF Promise!Return
  <2>6. QED
    BY <2>5
<1>5. CASE error # "none"
  <2>1. pc' = "raised"
    BY <1>1, <1>5
  <2>2. Promise!Raise
    BY <1>1, <1>3, <2>1, SameCalls DEF Promise!Raise
  <2>3. QED
    BY <2>2
<1>6. QED
  BY <1>4, <1>5

LEMMA StepKeepsPromise == IInv /\ [Next]_vars => [Promise!Next]_Promise!batchVars
<1> SUFFICES ASSUME IInv, [Next]_vars PROVE [Promise!Next]_Promise!batchVars
  OBVIOUS
<1>1. CASE Submit
  BY <1>1, Stutters DEF Submit, inputs
<1>2. CASE CheckWallClock
  BY <1>2, Stutters DEF CheckWallClock, inputs
<1>3. CASE FutureEnds
  BY <1>3, Stutters DEF FutureEnds, CollectObservation, inputs
<1>4. CASE WaitTimesOut
  BY <1>4, Stutters DEF WaitTimesOut, CollectObservation, inputs
<1>5. CASE Shutdown
  BY <1>5, ShutdownReplies DEF Promise!Next
<1>6. CASE Begin
  BY <1>6, BeginIsInvoke DEF Promise!Next
<1>7. CASE \E c \in Call : End(c)
  BY <1>7, EndIsEnd DEF Promise!Next
<1>8. CASE WallClockRunsOut
  BY <1>8, Stutters DEF WallClockRunsOut, inputs
<1>9. CASE Left \/ UNCHANGED vars
  BY <1>9 DEF Left, vars, inputs, Promise!batchVars
<1>10. QED
  BY <1>1, <1>2, <1>3, <1>4, <1>5, <1>6, <1>7, <1>8, <1>9 DEF Next

\* execute invokes each call at most once, leaves none of them behind, and comes
\* back with one observation per call in order, or with an exception
\* (core/scheduler.py 52-102, core/runtime.py 436-439).
THEOREM PromiseIsKept == Spec => ImplementsBatchExecution
BY InitKeepsPromise, StepKeepsPromise, Inductive, PTL
   DEF Spec, ImplementsBatchExecution, Promise!Spec
=============================================================================

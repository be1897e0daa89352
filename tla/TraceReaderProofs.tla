---------------------------- MODULE TraceReaderProofs ----------------------------
(* Two readers of the trace: the model adapter, which makes a conversation  *)
(* of it that providers accept, and a replay, which follows it.             *)
EXTENDS CoreRuntimeProofs, Transcript, Replay

------------------------------------------------------------------------------
(* What an adapter makes of the trace, line by line.                         *)

\* What the loop over the events has made of the first of them.
Reads(f, t) ==
  f = [n \in 0..Len(t) |-> IF n = 0 THEN Nothing ELSE Extended(f[n - 1], t[n])]

Kinds == {"user", "assistant_tools", "tool_observations"}
TurnType == [kind : Kinds, calls : Seq(Call)]

\* The turns alternate, and every request for tools but the last is answered.
Alternates(s) ==
  /\ s \in Seq(TurnType) /\ Len(s) \in Nat \ {0}
  /\ s[1].kind = "user" /\ s[1].calls = <<>>
  /\ \A i \in 2..Len(s) : s[i].kind = IF i % 2 = 0 THEN "assistant_tools" ELSE "tool_observations"
  /\ \A i \in 2..Len(s) : i % 2 = 0 => s[i].calls \in Actions
AnsweredUpTo(s, n) ==
  \A i \in 2..n : i % 2 = 0 /\ i + 1 <= n => AnswersAll(s[i].calls, s[i + 1].calls)

\* How the last turns stand to the latest action of the trace.
NoActionYet(s) == Len(s) = 1 /\ \A j \in DOMAIN trace : trace[j].kind # "action"
JustAsked(s, k) ==
  /\ Len(s) % 2 = 0 /\ s[Len(s)].calls = trace[k].calls /\ ObservedAfter(k) = {}
  /\ AnsweredUpTo(s, Len(s))
Answering(s, k) ==
  /\ Len(s) % 2 = 1 /\ Len(s) > 1 /\ s[Len(s) - 1].calls = trace[k].calls
  /\ IsInjective(s[Len(s)].calls) /\ ToSet(s[Len(s)].calls) = ObservedAfter(k)
  /\ ObservedAfter(k) \subseteq ToSet(trace[k].calls)
  /\ AnsweredUpTo(s, Len(s) - 1)
Stands(g) ==
  /\ g = [turns |-> g.turns, open |-> g.open] /\ g.open \in BOOLEAN
  /\ Alternates(g.turns)
  /\ \/ NoActionYet(g.turns)
     \/ g.open /\ \E k \in DOMAIN trace :
          LatestAction(k) /\ (JustAsked(g.turns, k) \/ Answering(g.turns, k))

Readable ==
  /\ \E f : Reads(f, trace)
  /\ trace = <<>> \/ T!Open => \A f : Reads(f, trace) => Stands(f[Len(trace)])

LEMMA ReadsMore ==
  \A t \in Seq(T!Entry), e \in T!Entry : \A f : Reads(f, t) =>
    Reads([n \in 0..Len(t) + 1 |-> IF n = Len(t) + 1 THEN Extended(f[Len(t)], e) ELSE f[n]],
          Append(t, e))
<1> SUFFICES ASSUME NEW t \in Seq(T!Entry), NEW e \in T!Entry, NEW f, Reads(f, t)
             PROVE  Reads([n \in 0..Len(t) + 1 |-> IF n = Len(t) + 1 THEN Extended(f[Len(t)], e)
                                                   ELSE f[n]], Append(t, e))
  OBVIOUS
<1> DEFINE u == Append(t, e)
           h == [n \in 0..Len(t) + 1 |-> IF n = Len(t) + 1 THEN Extended(f[Len(t)], e) ELSE f[n]]
<1>1. /\ Len(t) \in Nat /\ Len(u) = Len(t) + 1
      /\ \A j \in 1..Len(t) : u[j] = t[j]
      /\ u[Len(t) + 1] = e
  OBVIOUS
<1>2. \A n \in 0..Len(t) : f[n] = IF n = 0 THEN Nothing ELSE Extended(f[n - 1], t[n])
  BY DEF Reads
<1> HIDE DEF u
<1>3. ASSUME NEW n \in 0..Len(t) + 1
      PROVE  h[n] = IF n = 0 THEN Nothing ELSE Extended(h[n - 1], u[n])
  BY <1>1, <1>2
<1>4. h = [n \in 0..Len(u) |-> h[n]]
  BY <1>1
<1> HIDE DEF h
<1>5. Reads(h, u)
  BY <1>1, <1>3, <1>4 DEF Reads
<1> QED
  BY <1>5 DEF h, u

LEMMA ReadsLess ==
  \A t \in Seq(T!Entry), e \in T!Entry : \A f : Reads(f, Append(t, e)) =>
    \E h : Reads(h, t) /\ f[Len(t) + 1] = Extended(h[Len(t)], e)
<1> SUFFICES ASSUME NEW t \in Seq(T!Entry), NEW e \in T!Entry, NEW f, Reads(f, Append(t, e))
             PROVE  \E h : Reads(h, t) /\ f[Len(t) + 1] = Extended(h[Len(t)], e)
  OBVIOUS
<1> DEFINE u == Append(t, e)
           h == [n \in 0..Len(t) |-> f[n]]
<1>1. /\ Len(t) \in Nat /\ Len(u) = Len(t) + 1
      /\ \A j \in 1..Len(t) : u[j] = t[j]
      /\ u[Len(t) + 1] = e
  OBVIOUS
<1>2. \A n \in 0..Len(t) + 1 : f[n] = IF n = 0 THEN Nothing ELSE Extended(f[n - 1], u[n])
  BY <1>1 DEF Reads
<1> HIDE DEF u
<1>3. \A n \in 0..Len(t) : h[n] = IF n = 0 THEN Nothing ELSE Extended(h[n - 1], t[n])
  BY <1>1, <1>2
<1>4. f[Len(t) + 1] = Extended(h[Len(t)], e)
  BY <1>1, <1>2
<1>5. Reads(h, t)
  BY <1>3 DEF Reads
<1> QED
  BY <1>4, <1>5

LEMMA Parity == \A i \in Nat : i % 2 \in {0, 1} /\ (i + 1) % 2 = 1 - (i % 2)
  OBVIOUS

LEMMA TurnsRead ==
  \A t : (\E f : Reads(f, t)) => \E f : Reads(f, t) /\ Turns(t) = f[Len(t)].turns
<1> SUFFICES ASSUME NEW t, \E f : Reads(f, t)
             PROVE  \E f : Reads(f, t) /\ Turns(t) = f[Len(t)].turns
  OBVIOUS
<1> DEFINE f == CHOOSE g : Reads(g, t)
<1>1. Reads(f, t)
  OBVIOUS
<1>2. Turns(t) = f[Len(t)].turns
  BY DEF Turns, Reads
<1> QED
  BY <1>1, <1>2
------------------------------------------------------------------------------
IsRead(g) == g = [turns |-> g.turns, open |-> g.open] /\ g.open \in BOOLEAN /\ Alternates(g.turns)

LEMMA TurnsReplaced ==
  \A t, u, b : [[turns |-> t, open |-> b] EXCEPT !.turns = u] = [turns |-> u, open |-> b]
<1> SUFFICES ASSUME NEW t, NEW u, NEW b
             PROVE  [[turns |-> t, open |-> b] EXCEPT !.turns = u] = [turns |-> u, open |-> b]
  OBVIOUS
<1> DEFINE g == [turns |-> t, open |-> b]
<1>1. DOMAIN [g EXCEPT !.turns = u] = DOMAIN g /\ DOMAIN g = {"turns", "open"}
  OBVIOUS
<1>2. [g EXCEPT !.turns = u]["turns"] = u /\ [g EXCEPT !.turns = u]["open"] = b
  OBVIOUS
<1>3. [g EXCEPT !.turns = u] = [x \in {"turns", "open"} |-> IF x = "turns" THEN u ELSE b]
  BY <1>1, <1>2
<1>4. [turns |-> u, open |-> b] = [x \in {"turns", "open"} |-> IF x = "turns" THEN u ELSE b]
  OBVIOUS
<1> QED
  BY <1>3, <1>4

LEMMA ReadAction ==
  \A g, a : IsRead(g) /\ a \in Actions =>
    \A cs : Extended(g, T!Action(a, cs)) =
              [turns |-> Append(g.turns, Turn("assistant_tools", a)), open |-> TRUE]
  BY DEF Extended, T!Action

\* The first observation of a group.
LEMMA ReadFirst ==
  \A g, c : IsRead(g) /\ g.open /\ Len(g.turns) % 2 = 0 =>
    \A got : Extended(g, T!Observation(c, got)) =
               [turns |-> Append(g.turns, Turn("tool_observations", <<c>>)), open |-> TRUE]
<1> SUFFICES ASSUME NEW g, NEW c, IsRead(g), g.open, Len(g.turns) % 2 = 0, NEW got
             PROVE  Extended(g, T!Observation(c, got)) =
               [turns |-> Append(g.turns, Turn("tool_observations", <<c>>)), open |-> TRUE]
  OBVIOUS
<1>1. Last(g.turns).kind = "assistant_tools"
  <2>1. Len(g.turns) \in 2..Len(g.turns)
    BY DEF IsRead, Alternates
  <2> QED
    BY <2>1 DEF IsRead, Alternates, Last
<1>2. Extended(g, T!Observation(c, got)) = Grouped(g, c)
  BY DEF Extended, T!Observation
<1>3. Grouped(g, c) = [g EXCEPT !.turns = Append(@, Turn("tool_observations", <<c>>))]
  BY <1>1 DEF Grouped
<1>4. g = [turns |-> g.turns, open |-> TRUE]
  BY DEF IsRead
<1> QED
  BY <1>2, <1>3, <1>4

\* A further one.
LEMMA ReadFurther ==
  \A g, c : IsRead(g) /\ g.open /\ Len(g.turns) % 2 = 1 /\ Len(g.turns) > 1 =>
    \A got : Extended(g, T!Observation(c, got)) =
               [turns |-> [g.turns EXCEPT ![Len(g.turns)] =
                             Turn("tool_observations", Append(@.calls, c))], open |-> TRUE]
<1> SUFFICES ASSUME NEW g, NEW c, IsRead(g), g.open, Len(g.turns) % 2 = 1, Len(g.turns) > 1, NEW got
             PROVE  Extended(g, T!Observation(c, got)) =
               [turns |-> [g.turns EXCEPT ![Len(g.turns)] =
                             Turn("tool_observations", Append(@.calls, c))], open |-> TRUE]
  OBVIOUS
<1> DEFINE n == Len(g.turns)
<1>1. n \in 2..n /\ n \in DOMAIN g.turns /\ g.turns[n] \in TurnType
  BY DEF IsRead, Alternates
<1>2. g.turns[n].kind = "tool_observations"
  BY <1>1 DEF IsRead, Alternates
<1>3. Extended(g, T!Observation(c, got)) = Grouped(g, c)
  BY DEF Extended, T!Observation
<1>4. Grouped(g, c) = [g EXCEPT !.turns[n].calls = Append(@, c)]
  BY <1>2 DEF Grouped, Last
<1>5. g.turns[n] = Turn("tool_observations", g.turns[n].calls)
  BY <1>1, <1>2 DEF TurnType, Turn
<1> DEFINE m == Append(g.turns[n].calls, c)
<1>6. [g.turns[n] EXCEPT !.calls = m] = Turn("tool_observations", m)
  <2> HIDE DEF m
  <2> QED BY <1>5 DEF Turn
<1>7. g = [turns |-> g.turns, open |-> TRUE]
  BY DEF IsRead
<1>8. [g EXCEPT !.turns[n].calls = m]
        = [g EXCEPT !.turns = [g.turns EXCEPT ![n] = [g.turns[n] EXCEPT !.calls = m]]]
  <2> HIDE DEF m
  <2> QED BY <1>7
<1>9. \A y : [g EXCEPT !.turns = y] = [turns |-> y, open |-> TRUE]
  BY <1>7, TurnsReplaced, Zenon
<1> QED
  BY <1>3, <1>4, <1>6, <1>8, <1>9

LEMMA ReadOther ==
  \A g, e : IsRead(g) /\ e.kind \notin {"action", "observation"} =>
    Extended(g, e) = [turns |-> g.turns, open |-> FALSE]
  BY DEF IsRead, Extended

------------------------------------------------------------------------------
(* What each line of a trace adds.                                           *)
LEMMA ReadNothing == IsRead(Nothing) /\ Nothing.turns = <<Turn("user", <<>>)>>
<1>1. Nothing.turns = <<Turn("user", <<>>)>> /\ Nothing.open = FALSE
  BY DEF Nothing
<1>2. Turn("user", <<>>) \in TurnType
  BY DEF Turn, TurnType, Kinds
<1>3. Alternates(Nothing.turns)
  BY <1>1, <1>2 DEF Alternates, Turn
<1> QED
  BY <1>1, <1>3 DEF IsRead, Nothing

LEMMA ActionEntries == \A e \in T!Entry : e.kind = "action" => e.calls \in Actions
  BY DEF T!Entry, T!Query, T!Answer, T!Failure, T!Action, T!Observation

\* In an open trace the calls of the latest action wait until they are observed.
LEMMA LatestWaits ==
  ASSUME trace \in Seq(T!Entry), NEW k, LatestAction(k), NEW c \in Call
  PROVE  /\ \A v : T!Waiting(c, v) => c \in ToSet(trace[k].calls) /\ c \notin ObservedAfter(k)
         /\ c \in ToSet(trace[k].calls) /\ c \notin ObservedAfter(k) =>
              T!Waiting(c, TRUE) \/ T!Waiting(c, FALSE)
<1>1. /\ DOMAIN trace = 1..Len(trace) /\ Len(trace) \in Nat /\ k \in 1..Len(trace)
      /\ trace[k].kind = "action" /\ \A j \in k + 1 .. Len(trace) : trace[j].kind # "action"
  BY DEF LatestAction
<1>2. ASSUME NEW v, T!Waiting(c, v)
      PROVE  c \in ToSet(trace[k].calls) /\ c \notin ObservedAfter(k)
  <2>1. PICK m \in DOMAIN trace :
          /\ trace[m].kind = "action" /\ c \in T!ToSet(trace[m].calls)
          /\ \A j \in m + 1 .. Len(trace) : trace[j].kind # "action" /\ ~T!Observes(trace[j], c)
    BY <1>2 DEF T!Waiting
  <2>2. m = k
    <3>1. m \in Nat /\ ~(m > k) /\ ~(k > m)
      BY <1>1, <2>1
    <3> QED
      BY <1>1, <3>1
  <2> QED
    BY <2>1, <2>2, SameSet DEF ObservedAfter
<1>3. ASSUME c \in ToSet(trace[k].calls), c \notin ObservedAfter(k)
      PROVE  T!Waiting(c, TRUE) \/ T!Waiting(c, FALSE)
  <2>1. \A j \in k + 1 .. Len(trace) : trace[j].kind # "action" /\ ~T!Observes(trace[j], c)
    BY <1>1, <1>3 DEF ObservedAfter
  <2>2. c \in T!ToSet(trace[k].calls)
    BY <1>3, SameSet
  <2>3. CASE c \in trace[k].allowed
    <3>1. TRUE = (c \in trace[k].allowed)
      BY <2>3
    <3> QED
      BY <1>1, <2>1, <2>2, <3>1 DEF T!Waiting
  <2>4. CASE c \notin trace[k].allowed
    <3>1. FALSE = (c \in trace[k].allowed)
      BY <2>4
    <3> QED
      BY <1>1, <2>1, <2>2, <3>1 DEF T!Waiting
  <2> QED
    BY <2>3, <2>4
<1> QED
  BY <1>2, <1>3

------------------------------------------------------------------------------
LEMMA OneMoreCall ==
  \A o \in Seq(Call), c \in Call : IsInjective(o) /\ c \notin ToSet(o) =>
    IsInjective(Append(o, c)) /\ ToSet(Append(o, c)) = ToSet(o) \cup {c}
<1> SUFFICES ASSUME NEW o \in Seq(Call), NEW c \in Call, IsInjective(o), c \notin ToSet(o)
             PROVE  IsInjective(Append(o, c)) /\ ToSet(Append(o, c)) = ToSet(o) \cup {c}
  OBVIOUS
<1> DEFINE u == Append(o, c)
<1>1. /\ Len(o) \in Nat /\ DOMAIN o = 1..Len(o) /\ DOMAIN u = 1..Len(o) + 1
      /\ \A i \in 1..Len(o) : u[i] = o[i]
      /\ u[Len(o) + 1] = c
  OBVIOUS
<1> HIDE DEF u
<1>2. IsInjective(u)
  BY <1>1 DEF IsInjective, ToSet
<1>3. ToSet(u) = ToSet(o) \cup {c}
  BY <1>1 DEF ToSet
<1> QED
  BY <1>2, <1>3 DEF u

LEMMA OneCall == \A c \in Call : <<c>> \in Seq(Call) /\ IsInjective(<<c>>) /\ ToSet(<<c>>) = {c}
  BY DEF IsInjective, ToSet

LEMMA AlternatesMore ==
  \A s, t : Alternates(s) /\ t \in TurnType /\ (Len(s) + 1) % 2 = 0 /\ t.kind = "assistant_tools"
              /\ t.calls \in Actions => Alternates(Append(s, t))
<1> SUFFICES ASSUME NEW s, NEW t, Alternates(s), t \in TurnType, (Len(s) + 1) % 2 = 0,
                    t.kind = "assistant_tools", t.calls \in Actions
             PROVE  Alternates(Append(s, t))
  OBVIOUS
<1> DEFINE u == Append(s, t)
<1>1. /\ s \in Seq(TurnType) /\ u \in Seq(TurnType)
      /\ Len(s) \in Nat \ {0} /\ Len(u) = Len(s) + 1
      /\ \A i \in 1..Len(s) : u[i] = s[i]
      /\ u[Len(s) + 1] = t
  BY DEF Alternates
<1> HIDE DEF u
<1> QED
  BY <1>1 DEF Alternates, u

LEMMA AlternatesAnswered ==
  \A s, t : Alternates(s) /\ t \in TurnType /\ (Len(s) + 1) % 2 = 1 /\ t.kind = "tool_observations"
              => Alternates(Append(s, t))
<1> SUFFICES ASSUME NEW s, NEW t, Alternates(s), t \in TurnType, (Len(s) + 1) % 2 = 1,
                    t.kind = "tool_observations"
             PROVE  Alternates(Append(s, t))
  OBVIOUS
<1> DEFINE u == Append(s, t)
<1>1. /\ s \in Seq(TurnType) /\ u \in Seq(TurnType)
      /\ Len(s) \in Nat \ {0} /\ Len(u) = Len(s) + 1
      /\ \A i \in 1..Len(s) : u[i] = s[i]
      /\ u[Len(s) + 1] = t
  BY DEF Alternates
<1> HIDE DEF u
<1> QED
  BY <1>1 DEF Alternates, u

LEMMA AlternatesFurther ==
  \A s, t : Alternates(s) /\ t \in TurnType /\ Len(s) % 2 = 1 /\ Len(s) > 1
              /\ t.kind = "tool_observations" => Alternates([s EXCEPT ![Len(s)] = t])
<1> SUFFICES ASSUME NEW s, NEW t, Alternates(s), t \in TurnType, Len(s) % 2 = 1, Len(s) > 1,
                    t.kind = "tool_observations"
             PROVE  Alternates([s EXCEPT ![Len(s)] = t])
  OBVIOUS
<1> DEFINE u == [s EXCEPT ![Len(s)] = t]
<1>1. /\ s \in Seq(TurnType) /\ u \in Seq(TurnType)
      /\ Len(s) \in Nat \ {0} /\ Len(u) = Len(s)
      /\ \A i \in 1..Len(s) : i # Len(s) => u[i] = s[i]
      /\ u[Len(s)] = t
  BY DEF Alternates
<1> HIDE DEF u
<1>2. Alternates(u)
  BY <1>1 DEF Alternates
<1> QED
  BY <1>2 DEF u

\* What is answered stays answered.
LEMMA AnsweredStays ==
  \A s, u, n : n \in Nat /\ (\A i \in 1..n : u[i] = s[i]) /\ AnsweredUpTo(s, n) => AnsweredUpTo(u, n)
  BY DEF AnsweredUpTo

LEMMA StandsInitially ==
  ASSUME trace = <<>> PROVE Stands(Nothing)
<1>1. Nothing = [turns |-> Nothing.turns, open |-> Nothing.open] /\ Nothing.open \in BOOLEAN
      /\ Alternates(Nothing.turns)
  BY ReadNothing DEF IsRead
<1>2. Len(Nothing.turns) = 1
  BY ReadNothing
<1> QED
  BY <1>1, <1>2 DEF Stands, NoActionYet

\* A query.
LEMMA StandsQuery ==
  ASSUME trace = <<>>, trace' = Append(trace, T!Query)
  PROVE  Stands(Extended(Nothing, T!Query))'
<1> DEFINE h == Extended(Nothing, T!Query)
<1>1. h = [turns |-> <<Turn("user", <<>>)>>, open |-> FALSE]
  <2>1. T!Query.kind \notin {"action", "observation"}
    BY DEF T!Query
  <2>2. h = [turns |-> Nothing.turns, open |-> FALSE]
    BY <2>1, ReadNothing, ReadOther
  <2> QED
    BY <2>2, ReadNothing
<1>2. h = [turns |-> h.turns, open |-> h.open] /\ h.open \in BOOLEAN /\ h.turns = Nothing.turns
  BY <1>1, ReadNothing
<1>3. Alternates(h.turns) /\ Len(h.turns) = 1
  BY <1>2, ReadNothing DEF IsRead
<1>4. trace' = <<T!Query>>
  BY ReadNothing
<1>5. \A j \in DOMAIN trace' : trace'[j].kind # "action"
  BY <1>4 DEF T!Query
<1> HIDE DEF h
<1>6. Stands(h)'
  BY <1>2, <1>3, <1>5 DEF Stands, NoActionYet
<1> QED
  BY <1>6 DEF h

\* The turns of a trace in which nothing waits.
Complete(s) == Alternates(s) /\ Len(s) % 2 = 1 /\ AnsweredUpTo(s, Len(s))

LEMMA AllIsAnswered ==
  ASSUME trace \in Seq(T!Entry), NEW g, Stands(g), T!AllAnswered
  PROVE  Complete(g.turns)
<1> DEFINE s == g.turns
<1> HIDE DEF s
<1>1. Alternates(s) /\ Len(s) \in Nat \ {0} /\ s \in Seq(TurnType)
  BY DEF Stands, Alternates, s
<1>2. SUFFICES Len(s) % 2 = 1 /\ AnsweredUpTo(s, Len(s))
  BY <1>1 DEF Complete, s
<1>3. CASE NoActionYet(s)
  BY <1>3 DEF NoActionYet, AnsweredUpTo
<1>4. ASSUME NEW l \in DOMAIN trace, LatestAction(l) PROVE ToSet(trace[l].calls) \subseteq ObservedAfter(l)
  <2>1. trace[l] \in T!Entry /\ trace[l].kind = "action"
    BY <1>4 DEF LatestAction
  <2>2. trace[l].calls \in Actions
    BY <2>1, ActionEntries
  <2>3. ToSet(trace[l].calls) \subseteq Call
    BY <2>2, RuntimeAssumption DEF ToSet
  <2> QED
    BY <1>4, <2>3, LatestWaits DEF T!AllAnswered
<1>5. CASE \E l \in DOMAIN trace : LatestAction(l) /\ JustAsked(s, l)
  <2>1. PICK l \in DOMAIN trace : LatestAction(l) /\ JustAsked(s, l)
    BY <1>5
  <2>2. s[Len(s)].calls \in Actions /\ ToSet(s[Len(s)].calls) \subseteq {}
    <3>1. Len(s) \in 2..Len(s) /\ Len(s) % 2 = 0
      BY <1>1, <2>1 DEF JustAsked
    <3> QED
      BY <1>1, <1>4, <2>1, <3>1 DEF JustAsked, Alternates
  <2>3. \A b \in Actions : ~(ToSet(b) \subseteq {})
    <3>1. \A b \in Seq(Call) : b # <<>> => 1 \in DOMAIN b
      OBVIOUS
    <3> QED
      BY <3>1, RuntimeAssumption DEF ToSet
  <2> QED
    BY <2>2, <2>3
<1>6. CASE \E l \in DOMAIN trace : LatestAction(l) /\ Answering(s, l)
  <2>1. PICK l \in DOMAIN trace : LatestAction(l) /\ Answering(s, l)
    BY <1>6
  <2>2. AnswersAll(s[Len(s) - 1].calls, s[Len(s)].calls)
    <3>1. ToSet(trace[l].calls) = ObservedAfter(l)
      BY <1>4, <2>1 DEF Answering
    <3>2. /\ s[Len(s) - 1].calls = trace[l].calls /\ IsInjective(s[Len(s)].calls)
          /\ ToSet(s[Len(s)].calls) = ObservedAfter(l)
      BY <2>1 DEF Answering
    <3> QED
      BY <3>1, <3>2 DEF AnswersAll
  <2>3. Len(s) % 2 = 1 /\ AnsweredUpTo(s, Len(s) - 1)
    BY <2>1 DEF Answering
  <2> QED
    <3>1. SUFFICES ASSUME NEW i \in 2..Len(s), i % 2 = 0, i + 1 <= Len(s)
                   PROVE  AnswersAll(s[i].calls, s[i + 1].calls)
      BY <2>3 DEF AnsweredUpTo
    <3>2. CASE i + 1 = Len(s)
      <4>1. i = Len(s) - 1
        BY <1>1, <3>1, <3>2
      <4> QED
        BY <2>2, <3>2, <4>1
    <3>3. CASE i + 1 < Len(s)
      <4>1. i \in 2..Len(s) - 1 /\ i + 1 <= Len(s) - 1
        BY <1>1, <3>1, <3>3
      <4> QED
        BY <2>3, <3>1, <4>1 DEF AnsweredUpTo
    <3> QED
      BY <1>1, <3>1, <3>2, <3>3
<1> QED
  BY <1>3, <1>5, <1>6 DEF Stands, s

\* An action, once every call of the one before it is observed.
LEMMA StandsAction ==
  ASSUME trace \in Seq(T!Entry), NEW g, Stands(g), T!AllAnswered,
         NEW a \in Actions, NEW cs \in SUBSET Call, trace' = Append(trace, T!Action(a, cs))
  PROVE  Stands(Extended(g, T!Action(a, cs)))'
<1> DEFINE s == g.turns
           t == Turn("assistant_tools", a)
           u == Append(s, t)
           h == Extended(g, T!Action(a, cs))
<1> HIDE DEF s, t, u, h
<1>1. IsRead(g)
  BY DEF Stands, IsRead
<1>2. h = [turns |-> u, open |-> TRUE]
  BY <1>1, ReadAction DEF h, u, t, s
<1>3. t \in TurnType /\ t.kind = "assistant_tools" /\ t.calls = a
  BY RuntimeAssumption DEF Turn, TurnType, Kinds, t
<1>4. /\ Len(s) \in Nat \ {0} /\ s \in Seq(TurnType) /\ Len(u) = Len(s) + 1
      /\ \A i \in 1..Len(s) : u[i] = s[i]
      /\ u[Len(s) + 1] = t
  BY <1>1, <1>3 DEF IsRead, Alternates, s, u
<1>5. Len(s) % 2 = 1 /\ AnsweredUpTo(s, Len(s))
  BY AllIsAnswered DEF Complete, s
<1>6. (Len(s) + 1) % 2 = 0
  BY <1>4, <1>5, Parity
<1>7. Alternates(u)
  BY <1>1, <1>3, <1>6, AlternatesMore DEF IsRead, s, u
<1>8. AnsweredUpTo(u, Len(u))
  <2>1. AnsweredUpTo(u, Len(s))
    BY <1>4, <1>5, AnsweredStays
  <2> QED
    BY <1>4, <1>6, <2>1, Parity DEF AnsweredUpTo
<1>9. PICK k \in Nat : k \in DOMAIN trace' /\ Len(trace') = k /\ trace'[k] = T!Action(a, cs)
  <2>1. Len(trace) \in Nat /\ Len(trace) + 1 \in DOMAIN trace' /\ Len(trace') = Len(trace) + 1
          /\ trace'[Len(trace) + 1] = T!Action(a, cs)
    OBVIOUS
  <2> QED
    BY <2>1
<1>10. LatestAction(k)' /\ ObservedAfter(k)' = {} /\ trace'[k].calls = a
  BY <1>9 DEF LatestAction, ObservedAfter, T!Action
<1>11. JustAsked(u, k)'
  BY <1>3, <1>4, <1>6, <1>8, <1>10 DEF JustAsked
<1>12. h.turns = u /\ h.open = TRUE /\ h = [turns |-> h.turns, open |-> h.open]
  BY <1>2
<1>13. Stands(h)'
  BY <1>7, <1>9, <1>10, <1>11, <1>12 DEF Stands
<1> QED
  BY <1>13 DEF h

\* An observation of a call that waits.
LEMMA StandsObservation ==
  ASSUME trace \in Seq(T!Entry), NEW g, Stands(g), NEW c \in Call, NEW v, T!Waiting(c, v),
         NEW got \in Outcome \cup {Denied}, trace' = Append(trace, T!Observation(c, got))
  PROVE  Stands(Extended(g, T!Observation(c, got)))'
<1> DEFINE s == g.turns
           h == Extended(g, T!Observation(c, got))
<1> HIDE DEF s, h
<1>1. IsRead(g)
  BY DEF Stands, IsRead
<1>2. PICK k \in DOMAIN trace :
        g.open /\ LatestAction(k) /\ (JustAsked(s, k) \/ Answering(s, k))
  <2>1. ~NoActionYet(s)
    BY DEF NoActionYet, T!Waiting
  <2> QED
    BY <2>1 DEF Stands, s
<1>3. c \in ToSet(trace[k].calls) /\ c \notin ObservedAfter(k)
  BY <1>2, LatestWaits
<1>4. /\ k \in DOMAIN trace' /\ LatestAction(k)' /\ trace'[k] = trace[k]
      /\ ObservedAfter(k)' = ObservedAfter(k) \cup {c}
  BY <1>2, ObservationAppended
<1>5. Len(s) \in Nat \ {0} /\ s \in Seq(TurnType)
  BY <1>1 DEF IsRead, Alternates, s
<1>6. PICK u : h = [turns |-> u, open |-> TRUE]
  <2>1. CASE JustAsked(s, k)
    <3>1. Len(s) % 2 = 0
      BY <2>1 DEF JustAsked
    <3>2. h = [turns |-> Append(s, Turn("tool_observations", <<c>>)), open |-> TRUE]
      BY <1>1, <1>2, <3>1, ReadFirst DEF h, s
    <3> QED
      BY <3>2
  <2>2. CASE Answering(s, k)
    <3>1. Len(s) % 2 = 1 /\ Len(s) > 1
      BY <2>2 DEF Answering
    <3>2. h = [turns |-> [s EXCEPT ![Len(s)] = Turn("tool_observations", Append(@.calls, c))],
               open |-> TRUE]
      BY <1>1, <1>2, <3>1, ReadFurther DEF h, s
    <3> QED
      BY <3>2
  <2> QED
    BY <1>2, <2>1, <2>2
<1>7. SUFFICES Alternates(u) /\ Answering(u, k)'
  <2>1. h.turns = u /\ h.open = TRUE /\ h = [turns |-> h.turns, open |-> h.open]
    BY <1>6
  <2>2. Stands(h)'
    BY <1>4, <1>7, <2>1 DEF Stands
  <2> QED
    BY <2>2 DEF h
<1>8. CASE JustAsked(s, k)
  <2> DEFINE t == Turn("tool_observations", <<c>>)
  <2>1. t \in TurnType /\ t.kind = "tool_observations" /\ t.calls = <<c>>
    BY OneCall DEF Turn, TurnType, Kinds
  <2>2. u = Append(s, t)
    <3>1. h = [turns |-> Append(s, t), open |-> TRUE]
      BY <1>1, <1>2, <1>8, ReadFirst DEF JustAsked, h, s
    <3> QED
      BY <1>6, <3>1
  <2> HIDE DEF t
  <2>3. /\ Len(u) = Len(s) + 1
        /\ \A i \in 1..Len(s) : u[i] = s[i]
        /\ u[Len(s) + 1] = t
    BY <1>5, <2>1, <2>2
  <2>4. Len(s) % 2 = 0 /\ (Len(s) + 1) % 2 = 1
    BY <1>5, <1>8, Parity DEF JustAsked
  <2>5. Alternates(u)
    BY <1>1, <2>1, <2>2, <2>4, AlternatesAnswered DEF IsRead, s
  <2>6. AnsweredUpTo(u, Len(s))
    BY <1>5, <1>8, <2>3, AnsweredStays DEF JustAsked
  <2>7. /\ s[Len(s)].calls = trace[k].calls /\ ObservedAfter(k) = {}
    BY <1>8 DEF JustAsked
  <2>8. Len(u) - 1 = Len(s) /\ Len(s) \in 1..Len(s) /\ Len(u) > 1
    BY <1>5, <2>3
  <2>9. u[Len(u)].calls = <<c>> /\ u[Len(u) - 1].calls = trace'[k].calls
    BY <1>4, <2>1, <2>3, <2>7, <2>8
  <2>10. IsInjective(u[Len(u)].calls) /\ ToSet(u[Len(u)].calls) = ObservedAfter(k)'
    BY <1>4, <2>7, <2>9, OneCall
  <2>11. ObservedAfter(k)' \subseteq ToSet(trace'[k].calls)
    BY <1>3, <1>4, <2>7
  <2>12. Answering(u, k)'
    BY <2>3, <2>4, <2>6, <2>8, <2>9, <2>10, <2>11 DEF Answering
  <2> QED
    BY <2>5, <2>12
<1>9. CASE Answering(s, k)
  <2> DEFINE n == Len(s)
             o == s[n].calls
             t == Turn("tool_observations", Append(o, c))
  <2>1. /\ n % 2 = 1 /\ n > 1 /\ s[n - 1].calls = trace[k].calls
        /\ IsInjective(o) /\ ToSet(o) = ObservedAfter(k)
        /\ ObservedAfter(k) \subseteq ToSet(trace[k].calls)
        /\ AnsweredUpTo(s, n - 1)
    BY <1>9 DEF Answering
  <2>2. o \in Seq(Call) /\ Append(o, c) \in Seq(Call)
    <3>1. n \in DOMAIN s
      BY <1>5
    <3>2. s[n] \in TurnType
      BY <1>5, <3>1
    <3>3. o \in Seq(Call)
      BY <3>2 DEF TurnType
    <3> QED
      BY <3>3
  <2>3. IsInjective(Append(o, c)) /\ ToSet(Append(o, c)) = ToSet(o) \cup {c}
    BY <1>3, <2>1, <2>2, OneMoreCall
  <2>4. t \in TurnType /\ t.kind = "tool_observations" /\ t.calls = Append(o, c)
    BY <2>2 DEF Turn, TurnType, Kinds
  <2>5. u = [s EXCEPT ![n] = t]
    <3>1. h = [turns |-> [s EXCEPT ![n] = t], open |-> TRUE]
      BY <1>1, <1>2, <2>1, ReadFurther DEF h, s
    <3> QED
      BY <1>6, <3>1
  <2> HIDE DEF t, o
  <2>6. /\ Len(u) = n /\ u[n] = t
        /\ \A i \in 1..n - 1 : u[i] = s[i]
    BY <1>5, <2>4, <2>5
  <2>7. Alternates(u)
    BY <1>1, <2>1, <2>4, <2>5, AlternatesFurther DEF IsRead, s
  <2>8. n - 1 \in Nat /\ n - 1 \in 1..n - 1
    BY <1>5, <2>1
  <2>9. AnsweredUpTo(u, n - 1)
    BY <2>1, <2>6, <2>8, AnsweredStays
  <2> HIDE DEF n
  <2>10. u[n - 1].calls = trace'[k].calls /\ IsInjective(u[n].calls)
         /\ ToSet(u[n].calls) = ObservedAfter(k)'
    BY <1>4, <2>1, <2>3, <2>4, <2>6, <2>8
  <2>11. ObservedAfter(k)' \subseteq ToSet(trace'[k].calls)
    BY <1>3, <1>4, <2>1
  <2>12. Answering(u, k)'
    BY <2>1, <2>6, <2>9, <2>10, <2>11 DEF Answering
  <2> QED
    BY <2>7, <2>12
<1> QED
  BY <1>2, <1>8, <1>9

LEMMA ReadableInitially == Init => Readable
<1> SUFFICES ASSUME trace = <<>> PROVE Readable
  BY DEF Init
<1>1. Len(trace) = 0
  OBVIOUS
<1>2. Reads([n \in 0..Len(trace) |-> Nothing], trace)
  BY <1>1 DEF Reads
<1>3. \A f : Reads(f, trace) => f[Len(trace)] = Nothing
  BY <1>1 DEF Reads
<1> QED
  BY <1>2, <1>3, StandsInitially DEF Readable

\* A line that leaves the trace open.
LEMMA ReadableLine ==
  ASSUME trace \in Seq(T!Entry), Readable, NEW e \in T!Entry, trace' = Append(trace, e),
         \A g : Stands(g) /\ (trace = <<>> => g = Nothing) => Stands(Extended(g, e))',
         trace = <<>> \/ T!Open
  PROVE  Readable'
<1>1. PICK f : Reads(f, trace)
  BY DEF Readable
<1>2. \E h : Reads(h, trace')
  BY <1>1, ReadsMore
<1>3. Len(trace') = Len(trace) + 1 /\ Len(trace) \in Nat
  OBVIOUS
<1>4. ASSUME NEW h, Reads(h, trace'), NEW n \in Nat, n = Len(trace)
      PROVE  Stands(h[n + 1])'
  <2>1. PICK g : Reads(g, trace) /\ h[n + 1] = Extended(g[n], e)
    BY <1>4, ReadsLess
  <2>2. Stands(g[n])
    BY <1>4, <2>1 DEF Readable
  <2>3. trace = <<>> => g[n] = Nothing
    BY <1>4, <2>1 DEF Reads
  <2>4. Stands(Extended(g[n], e))'
    BY <2>2, <2>3
  <2> QED
    BY <2>1, <2>4
<1>5. (\A h : Reads(h, trace) => Stands(h[Len(trace)]))'
  BY <1>3, <1>4
<1> QED
  BY <1>2, <1>5 DEF Readable

LEMMA NextReadable ==
  ASSUME trace \in Seq(T!Entry), Readable, T!Next PROVE Readable'
<1>1. CASE T!Ask
  <2>1. trace = <<>> /\ trace' = Append(trace, T!Query) /\ T!Query \in T!Entry
    BY <1>1, EntryTypes DEF T!Ask
  <2>2. Stands(Extended(Nothing, T!Query))'
    BY <2>1, StandsQuery
  <2>3. \A g : Stands(g) /\ (trace = <<>> => g = Nothing) => Stands(Extended(g, T!Query))'
    BY <2>1, <2>2
  <2> QED
    BY <2>1, <2>3, ReadableLine
<1>2. CASE T!Act
  <2>1. PICK a, cs : /\ a \in Actions /\ cs \in SUBSET T!ToSet(a) /\ T!Open /\ T!AllAnswered
                               /\ trace' = Append(trace, T!Action(a, cs))
    BY <1>2 DEF T!Act
  <2>2. cs \in SUBSET Call /\ T!Action(a, cs) \in T!Entry
    <3>1. a \in Seq(Call)
      BY <2>1, RuntimeAssumption
    <3>2. T!ToSet(a) \subseteq Call
      BY <3>1 DEF T!ToSet
    <3> QED
      BY <2>1, <3>2, EntryTypes
  <2>3. \A g : Stands(g) => Stands(Extended(g, T!Action(a, cs)))'
    BY <2>1, <2>2, StandsAction
  <2> QED
    BY <2>1, <2>2, <2>3, ReadableLine
<1>3. CASE T!Observe
  <2>1. PICK c \in Call, v \in BOOLEAN, got \in Outcome \cup {Denied} :
          T!Open /\ T!Waiting(c, v) /\ trace' = Append(trace, T!Observation(c, got))
    BY <1>3 DEF T!Observe
  <2>2. T!Observation(c, got) \in T!Entry
    BY EntryTypes
  <2>3. \A g : Stands(g) => Stands(Extended(g, T!Observation(c, got)))'
    BY <2>1, StandsObservation
  <2> QED
    BY <2>1, <2>2, <2>3, ReadableLine
<1>4. CASE T!Finish \/ T!Fail
  <2>1. PICK e \in {T!Answer, T!Failure} : trace' = Append(trace, e)
    BY <1>4 DEF T!Finish, T!Fail
  <2>2. e \in T!Entry /\ e.kind \in {"answer", "failure"}
    BY EntryTypes DEF T!Answer, T!Failure
  <2>3. \E f : Reads(f, trace')
    BY <2>1, <2>2, ReadsMore DEF Readable
  <2>4. trace' # <<>> /\ ~(T!Open)'
    <3>1. trace' # <<>> /\ trace'[Len(trace')] = e
      BY <2>1, <2>2
    <3> QED
      BY <2>2, <3>1 DEF T!Open, T!Last
  <2> QED
    BY <2>3, <2>4 DEF Readable
<1> QED
  BY <1>1, <1>2, <1>3, <1>4 DEF T!Next

LEMMA ReadableStays ==
  ASSUME Readable, trace' = trace PROVE Readable'
<1>1. T!Open' = T!Open
  BY SameTrace
<1>2. \A g : Stands(g) => Stands(g)'
  <2>1. \A k : /\ LatestAction(k) => LatestAction(k)'
               /\ ObservedAfter(k)' = ObservedAfter(k)
    BY DEF LatestAction, ObservedAfter
  <2>2. \A s, k : (JustAsked(s, k) => JustAsked(s, k)') /\ (Answering(s, k) => Answering(s, k)')
    BY <2>1 DEF JustAsked, Answering
  <2>3. \A s : NoActionYet(s) => NoActionYet(s)'
    BY DEF NoActionYet
  <2> QED
    BY <2>1, <2>2, <2>3 DEF Stands
<1> QED
  BY <1>1, <1>2 DEF Readable

LEMMA ReadableAlways == Spec => [](TraceReady /\ Readable)
<1>1. TypeOK => trace \in Seq(T!Entry)
  BY DEF TypeOK, RecordType
<1>2. TypeOK /\ TraceReady /\ Readable /\ [Next]_vars => Readable'
  BY <1>1, NextRefines, NextReadable, ReadableStays DEF vars
<1>3. TraceReady /\ TypeOK /\ [Next]_vars => TraceReady'
  BY NextReady, ReadyStays DEF vars, work
<1> QED
  BY <1>2, <1>3, InitReady, ReadableInitially, TypeCorrect, PTL DEF Spec

------------------------------------------------------------------------------
(* The messages made of the turns.                                           *)
SpokenAt(f, s, n) == IF n = 0 THEN <<Message("system", <<>>)>> ELSE f[n - 1] \o Spoken(s[n])
Speaks(f, s, n) == f = [i \in 0..n |-> SpokenAt(f, s, i)]

\* Every request but one just made is followed by the tool messages that answer
\* it, and by no other.
MessageType == [role : {"system", "user", "assistant", "tool"}, calls : Seq(Call)]
FollowedUp(m, i) ==
  LET l == Len(m[i].calls)
  IN  /\ l > 0 /\ i + l <= Len(m)
      /\ \A j \in i + 1 .. i + l : m[j].role = "tool"
      /\ {m[j].calls[1] : j \in i + 1 .. i + l} = ToSet(m[i].calls)
      /\ i + l < Len(m) => m[i + l + 1].role # "tool"
Followed(m, n) == \A i \in 1..n : m[i].role = "assistant" => FollowedUp(m, i)
SpokenSoFar(m, s, n) ==
  /\ m \in Seq(MessageType) /\ Len(m) > 0
  /\ IF n > 0 /\ n % 2 = 0
     THEN m[Len(m)] = Message("assistant", s[n].calls) /\ Followed(m, Len(m) - 1)
     ELSE Followed(m, Len(m))

LEMMA SpeaksExists == \A N, s : s \in Seq(N) => \E f : Speaks(f, s, Len(s))
<1> SUFFICES ASSUME NEW N, NEW s \in Seq(N) PROVE \E f : Speaks(f, s, Len(s))
  OBVIOUS
<1> DEFINE K == {n \in 0..Len(s) : \E f : Speaks(f, s, n)}
<1>0. Len(s) \in Nat
  OBVIOUS
<1>1. 0 \in K
  <2>1. Speaks([i \in 0..0 |-> <<Message("system", <<>>)>>], s, 0)
    BY DEF Speaks, SpokenAt
  <2> QED
    BY <1>0, <2>1
<1>2. ASSUME NEW n \in 0..Len(s), n < Len(s), n \in K PROVE n + 1 \in K
  <2>1. PICK f : Speaks(f, s, n)
    BY <1>2
  <2> DEFINE g == [i \in 0..n + 1 |-> IF i = n + 1 THEN SpokenAt(f, s, n + 1) ELSE f[i]]
  <2>2. \A i \in 0..n : g[i] = f[i]
    OBVIOUS
  <2>3. \A i \in 0..n + 1 : SpokenAt(g, s, i) = SpokenAt(f, s, i)
    BY <2>2 DEF SpokenAt
  <2>4. \A i \in 0..n : f[i] = SpokenAt(f, s, i)
    BY <2>1 DEF Speaks
  <2>5. \A i \in 0..n + 1 : g[i] = SpokenAt(g, s, i)
    BY <2>2, <2>3, <2>4
  <2>6. g = [i \in 0..n + 1 |-> g[i]]
    OBVIOUS
  <2> HIDE DEF g
  <2>7. Speaks(g, s, n + 1)
    BY <2>5, <2>6 DEF Speaks
  <2> QED
    BY <1>0, <1>2, <2>7
<1>3. 0..Len(s) \subseteq K
  <2> HIDE DEF K
  <2> QED
    BY <1>0, <1>1, <1>2, UpTo
<1> QED
  BY <1>0, <1>3

LEMMA MessagesSpoken ==
  \A t, s, N : s = Turns(t) /\ s \in Seq(N) => \E f : Speaks(f, s, Len(s)) /\ ToolMessages(t) = f[Len(s)]
<1> SUFFICES ASSUME NEW t, NEW s, NEW N, s = Turns(t), s \in Seq(N)
             PROVE  \E f : Speaks(f, s, Len(s)) /\ ToolMessages(t) = f[Len(s)]
  OBVIOUS
<1> DEFINE f == CHOOSE g : Speaks(g, s, Len(s))
<1>1. Speaks(f, s, Len(s))
  BY SpeaksExists
<1>2. ToolMessages(t) = f[Len(s)]
  BY DEF ToolMessages, Speaks, SpokenAt
<1> QED
  BY <1>1, <1>2

\* Two ways to list a set once have the same length.
LEMMA SameLength ==
  \A a, b : a \in Seq(Call) /\ b \in Seq(Call) /\ IsInjective(a) /\ AnswersAll(a, b) => Len(a) = Len(b)
<1> SUFFICES ASSUME NEW a \in Seq(Call), NEW b \in Seq(Call), IsInjective(a), AnswersAll(a, b)
             PROVE  Len(a) = Len(b)
  OBVIOUS
<1>1. ASSUME NEW s \in Seq(Call), IsInjective(s) PROVE Cardinality(ToSet(s)) = Len(s)
  <2>1. IsFiniteSet(1..Len(s)) /\ Cardinality(1..Len(s)) = Len(s)
    <3>1. Len(s) \in Nat
      OBVIOUS
    <3>2. \A n \in Nat : IsFiniteSet(1..n) /\ Cardinality(1..n) = n
      BY FS_Interval
    <3> QED
      BY <3>1, <3>2
  <2>2. s \in Bijection(1..Len(s), ToSet(s))
    <3>1. s \in [1..Len(s) -> ToSet(s)]
      BY DEF ToSet
    <3>2. s \in Injection(1..Len(s), ToSet(s))
      BY <1>1, <3>1 DEF Injection, IsInjective
    <3>3. s \in Surjection(1..Len(s), ToSet(s))
      BY <3>1 DEF Surjection, ToSet
    <3> QED
      BY <3>2, <3>3 DEF Bijection
  <2> QED
    BY <2>1, <2>2, FS_Bijection DEF ExistsBijection
<1> QED
  BY <1>1 DEF AnswersAll

\* A message that is not a tool's ends the answer before it.
LEMMA FollowedByAnother ==
  \A m, x : m \in Seq(MessageType) /\ x \in MessageType /\ x.role # "tool" /\ Followed(m, Len(m))
              => Followed(Append(m, x), Len(m))
<1> SUFFICES ASSUME NEW m \in Seq(MessageType), NEW x \in MessageType, x.role # "tool",
                    Followed(m, Len(m)), NEW i \in 1..Len(m), Append(m, x)[i].role = "assistant"
             PROVE  FollowedUp(Append(m, x), i)
  BY DEF Followed
<1> DEFINE u == Append(m, x)
<1>1. /\ Len(m) \in Nat /\ Len(u) = Len(m) + 1
      /\ \A j \in 1..Len(m) : u[j] = m[j]
      /\ u[Len(m) + 1] = x
  OBVIOUS
<1>2. FollowedUp(m, i)
  BY <1>1 DEF Followed
<1>3. PICK l \in Nat : l = Len(m[i].calls)
  <2>1. m[i] \in MessageType
    BY <1>1
  <2>2. m[i].calls \in Seq(Call)
    BY <2>1 DEF MessageType
  <2> QED
    BY <2>2
<1>4. /\ l > 0 /\ i + l <= Len(m)
      /\ \A j \in i + 1 .. i + l : m[j].role = "tool"
      /\ {m[j].calls[1] : j \in i + 1 .. i + l} = ToSet(m[i].calls)
      /\ i + l < Len(m) => m[i + l + 1].role # "tool"
  BY <1>2, <1>3 DEF FollowedUp
<1> HIDE DEF u
<1>5. \A j \in i .. i + l : j \in 1..Len(m) /\ u[j] = m[j]
  BY <1>1, <1>4
<1>6. {u[j].calls[1] : j \in i + 1 .. i + l} = {m[j].calls[1] : j \in i + 1 .. i + l}
  BY <1>5
<1>7. u[i + l + 1].role # "tool"
  <2>1. CASE i + l < Len(m)
    <3>1. i + l + 1 \in 1..Len(m)
      BY <1>4, <2>1
    <3> QED
      BY <1>1, <1>4, <2>1, <3>1
  <2>2. CASE i + l = Len(m)
    BY <1>1, <2>2
  <2> QED
    BY <1>1, <1>4, <2>1, <2>2
<1>8. u[i] = m[i] /\ Len(u[i].calls) = l
  BY <1>3, <1>5
<1>9. FollowedUp(u, i)
  BY <1>1, <1>4, <1>5, <1>6, <1>7, <1>8 DEF FollowedUp
<1> QED
  BY <1>9 DEF u

\* The answer to the request made last.
LEMMA FollowedByAnswer ==
  \A m, a, o : /\ m \in Seq(MessageType) /\ Len(m) > 0 /\ m[Len(m)] = Message("assistant", a)
               /\ Followed(m, Len(m) - 1)
               /\ a \in Actions /\ o \in Seq(Call) /\ AnswersAll(a, o)
    => LET u == m \o [i \in DOMAIN o |-> Message("tool", <<o[i]>>)]
       IN  u \in Seq(MessageType) /\ Len(u) > 0 /\ Followed(u, Len(u))
<1> SUFFICES ASSUME NEW m \in Seq(MessageType), Len(m) > 0, NEW a \in Actions, NEW o \in Seq(Call),
                    m[Len(m)] = Message("assistant", a), Followed(m, Len(m) - 1), AnswersAll(a, o)
             PROVE  LET u == m \o [i \in DOMAIN o |-> Message("tool", <<o[i]>>)]
                    IN  u \in Seq(MessageType) /\ Len(u) > 0 /\ Followed(u, Len(u))
  OBVIOUS
<1> DEFINE w == [i \in DOMAIN o |-> Message("tool", <<o[i]>>)]
           u == m \o w
           n == Len(m)
           l == Len(o)
<1>1. n \in Nat /\ n > 0 /\ l \in Nat /\ DOMAIN o = 1..l /\ \A j \in 1..l : o[j] \in Call
  OBVIOUS
<1>2. /\ w \in Seq(MessageType) /\ Len(w) = l
      /\ \A j \in 1..l : w[j].role = "tool" /\ w[j].calls[1] = o[j]
  <2>1. \A j \in 1..l : Message("tool", <<o[j]>>) \in MessageType
    BY <1>1 DEF MessageType, Message
  <2> QED
    BY <1>1, <2>1 DEF Message
<1> HIDE DEF w
<1>3. /\ u \in Seq(MessageType) /\ Len(u) = n + l
      /\ \A j \in 1..n : u[j] = m[j]
      /\ \A j \in 1..l : u[n + j] = w[j]
  BY <1>1, <1>2
<1> HIDE DEF u
<1>4. a \in Seq(Call) /\ a # <<>> /\ l = Len(a)
  BY RuntimeAssumption, SameLength
<1>5. l > 0
  BY <1>4
<1>6. FollowedUp(u, n)
  <2>1. u[n].calls = a
    BY <1>1, <1>3 DEF Message
  <2>2. \A j \in n + 1 .. n + l : u[j].role = "tool" /\ u[j].calls[1] = o[j - n]
    <3> TAKE j \in n + 1 .. n + l
    <3>1. j - n \in 1..l /\ j = n + (j - n)
      BY <1>1
    <3> QED
      BY <1>2, <1>3, <3>1
  <2>3. {u[j].calls[1] : j \in n + 1 .. n + l} = ToSet(o)
    <3>1. \A i \in 1..l : n + i \in n + 1 .. n + l /\ (n + i) - n = i
      BY <1>1
    <3>2. \A j \in n + 1 .. n + l : j - n \in 1..l
      BY <1>1
    <3>3. ToSet(o) = {o[i] : i \in 1..l}
      BY <1>1 DEF ToSet
    <3>4. \A j \in n + 1 .. n + l : u[j].calls[1] \in ToSet(o)
      BY <2>2, <3>2, <3>3
    <3>5. \A i \in 1..l : u[n + i].calls[1] = o[i]
      BY <2>2, <3>1
    <3> HIDE DEF n, l
    <3>6. \A x \in ToSet(o) : \E j \in n + 1 .. n + l : x = u[j].calls[1]
      BY <3>1, <3>3, <3>5
    <3> QED
      BY <3>4, <3>6
  <2>4. ToSet(o) = ToSet(a)
    BY DEF AnswersAll
  <2>5. Len(u[n].calls) = l
    BY <1>4, <2>1
  <2> HIDE DEF n, l
  <2> QED
    BY <1>1, <1>3, <1>5, <2>1, <2>2, <2>3, <2>4, <2>5 DEF FollowedUp
<1>7. ASSUME NEW i \in 1..n - 1, u[i].role = "assistant" PROVE FollowedUp(u, i)
  <2>1. m[i] = u[i] /\ m[i] \in MessageType
    BY <1>1, <1>3
  <2>2. FollowedUp(m, i)
    BY <1>7, <2>1 DEF Followed
  <2>3. PICK k \in Nat : k = Len(m[i].calls)
    BY <2>1 DEF MessageType
  <2>4. /\ k > 0 /\ i + k <= n
        /\ \A j \in i + 1 .. i + k : m[j].role = "tool"
        /\ {m[j].calls[1] : j \in i + 1 .. i + k} = ToSet(m[i].calls)
        /\ i + k < n => m[i + k + 1].role # "tool"
    BY <2>2, <2>3 DEF FollowedUp
  <2>5. i + k < n
    <3>1. m[n].role = "assistant"
      BY DEF Message
    <3>2. i + k \in i + 1 .. i + k
      BY <1>1, <2>4
    <3> QED
      BY <1>1, <2>4, <3>1, <3>2
  <2> HIDE DEF n, l
  <2>6. \A j \in i .. i + k + 1 : j \in 1..n /\ u[j] = m[j]
    <3>1. \A j \in i .. i + k + 1 : j \in 1..n
      BY <1>1, <2>5
    <3> QED
      BY <1>3, <3>1
  <2>7. {u[j].calls[1] : j \in i + 1 .. i + k} = {m[j].calls[1] : j \in i + 1 .. i + k}
    BY <2>6
  <2>8. u[i + k + 1].role # "tool" /\ i + k <= Len(u)
    <3>1. i + k + 1 \in i .. i + k + 1
      BY <1>1
    <3> QED
      BY <1>1, <1>3, <2>4, <2>5, <2>6, <3>1
  <2>9. \A j \in i + 1 .. i + k : u[j].role = "tool"
    <3>1. \A j \in i + 1 .. i + k : j \in i .. i + k + 1
      BY <1>1
    <3> QED
      BY <2>4, <2>6, <3>1
  <2>10. Len(u[i].calls) = k /\ {u[j].calls[1] : j \in i + 1 .. i + k} = ToSet(u[i].calls)
    BY <2>1, <2>3, <2>4, <2>7
  <2> QED
    BY <2>4, <2>8, <2>9, <2>10 DEF FollowedUp
<1>8. ASSUME NEW i \in n + 1 .. n + l PROVE u[i].role # "assistant"
  <2>1. i - n \in 1..l /\ i = n + (i - n)
    BY <1>1
  <2> QED
    BY <1>2, <1>3, <2>1
<1>9. Followed(u, Len(u))
  <2>1. \A i \in 1..n + l : i \in 1..n - 1 \/ i = n \/ i \in n + 1 .. n + l
    BY <1>1
  <2> HIDE DEF n, l
  <2> QED
    BY <1>3, <1>6, <1>7, <1>8, <2>1 DEF Followed
<1> QED
  BY <1>1, <1>3, <1>9 DEF u, w

LEMMA SpokenTurn ==
  \A s, n, m : Complete(s) /\ n \in Nat /\ n < Len(s) /\ SpokenSoFar(m, s, n)
                 => SpokenSoFar(m \o Spoken(s[n + 1]), s, n + 1)
<1> SUFFICES ASSUME NEW s, NEW n \in Nat, NEW m, Complete(s), n < Len(s), SpokenSoFar(m, s, n)
             PROVE  SpokenSoFar(m \o Spoken(s[n + 1]), s, n + 1)
  OBVIOUS
<1>1. /\ s \in Seq(TurnType) /\ Len(s) \in Nat \ {0} /\ s[1].kind = "user"
      /\ \A i \in 2..Len(s) : s[i].kind = IF i % 2 = 0 THEN "assistant_tools" ELSE "tool_observations"
      /\ \A i \in 2..Len(s) : i % 2 = 0 => s[i].calls \in Actions
  BY DEF Complete, Alternates
<1>2. m \in Seq(MessageType) /\ Len(m) > 0
  BY DEF SpokenSoFar
<1>3. ASSUME NEW x \in MessageType, x.role # "tool", Followed(m, Len(m))
      PROVE  /\ m \o <<x>> \in Seq(MessageType) /\ Len(m \o <<x>>) = Len(m) + 1
             /\ (m \o <<x>>)[Len(m) + 1] = x /\ Followed(m \o <<x>>, Len(m))
  <2>1. m \o <<x>> = Append(m, x)
    BY <1>2
  <2>2. Followed(Append(m, x), Len(m))
    BY <1>2, <1>3, FollowedByAnother
  <2>3. /\ Append(m, x) \in Seq(MessageType) /\ Len(Append(m, x)) = Len(m) + 1
        /\ Append(m, x)[Len(m) + 1] = x
    BY <1>2
  <2> QED
    BY <2>1, <2>2, <2>3
<1>4. CASE n = 0
  <2> DEFINE x == Message("user", <<>>)
  <2>1. Spoken(s[n + 1]) = <<x>>
    BY <1>1, <1>4 DEF Spoken
  <2>2. x \in MessageType /\ x.role = "user"
    BY DEF Message, MessageType
  <2>3. Followed(m, Len(m))
    BY <1>4 DEF SpokenSoFar
  <2> HIDE DEF x
  <2> DEFINE u == m \o <<x>>
  <2>4. u \in Seq(MessageType) /\ Len(u) = Len(m) + 1 /\ u[Len(m) + 1] = x /\ Followed(u, Len(m))
    BY <1>3, <2>2, <2>3
  <2> HIDE DEF u
  <2>5. Followed(u, Len(u))
    BY <1>2, <2>2, <2>4 DEF Followed
  <2>6. (n + 1) % 2 # 0
    BY <1>4
  <2>7. SpokenSoFar(u, s, n + 1)
    BY <1>2, <2>4, <2>5, <2>6 DEF SpokenSoFar
  <2> QED
    BY <2>1, <2>7 DEF u
<1>5. CASE n > 0 /\ n % 2 = 1
  <2> DEFINE x == Message("assistant", s[n + 1].calls)
  <2>1. n + 1 \in 2..Len(s) /\ (n + 1) % 2 = 0
    BY <1>5, Parity
  <2>2. s[n + 1].kind = "assistant_tools" /\ s[n + 1].calls \in Seq(Call)
    BY <1>1, <2>1, RuntimeAssumption
  <2>3. Spoken(s[n + 1]) = <<x>>
    BY <2>2 DEF Spoken
  <2>4. x \in MessageType /\ x.role = "assistant"
    BY <2>2 DEF Message, MessageType
  <2>5. Followed(m, Len(m))
    BY <1>5 DEF SpokenSoFar
  <2> HIDE DEF x
  <2> DEFINE u == m \o <<x>>
  <2>6. u \in Seq(MessageType) /\ Len(u) = Len(m) + 1 /\ u[Len(m) + 1] = x /\ Followed(u, Len(m))
    BY <1>3, <2>4, <2>5
  <2> HIDE DEF u
  <2>7. Len(u) > 0 /\ Len(u) - 1 = Len(m) /\ u[Len(u)] = x
    BY <1>2, <2>6
  <2>8. SpokenSoFar(u, s, n + 1)
    BY <2>1, <2>6, <2>7 DEF SpokenSoFar, x
  <2> QED
    BY <2>3, <2>8 DEF u
<1>6. CASE n > 0 /\ n % 2 = 0
  <2> DEFINE a == s[n].calls
             o == s[n + 1].calls
             w == [i \in DOMAIN o |-> Message("tool", <<o[i]>>)]
  <2>1. n \in 2..Len(s) /\ n + 1 \in 2..Len(s) /\ n + 1 <= Len(s) /\ (n + 1) % 2 = 1
    BY <1>6, Parity
  <2>2. s[n + 1].kind = "tool_observations" /\ a \in Actions
    BY <1>1, <1>6, <2>1
  <2>3. o \in Seq(Call)
    <3>1. s[n + 1] \in TurnType
      BY <1>1, <2>1
    <3> QED
      BY <3>1 DEF TurnType
  <2>4. AnswersAll(a, o)
    BY <1>6, <2>1 DEF Complete, AnsweredUpTo
  <2>5. m[Len(m)] = Message("assistant", a) /\ Followed(m, Len(m) - 1)
    BY <1>6 DEF SpokenSoFar
  <2>6. Spoken(s[n + 1]) = w
    BY <2>2 DEF Spoken
  <2> HIDE DEF a, o
  <2> DEFINE u == m \o w
  <2>7. u \in Seq(MessageType) /\ Len(u) > 0 /\ Followed(u, Len(u))
    BY <1>2, <2>2, <2>3, <2>4, <2>5, FollowedByAnswer
  <2> HIDE DEF u, w
  <2>8. SpokenSoFar(u, s, n + 1)
    BY <2>1, <2>7 DEF SpokenSoFar
  <2> QED
    BY <2>6, <2>8 DEF u
<1> QED
  BY <1>4, <1>5, <1>6, Parity

LEMMA SpokenRight ==
  \A s, f : Complete(s) /\ Speaks(f, s, Len(s)) =>
    f[Len(s)] \in Seq(MessageType) /\ Followed(f[Len(s)], Len(f[Len(s)]))
<1> SUFFICES ASSUME NEW s, NEW f, Complete(s), Speaks(f, s, Len(s))
             PROVE  f[Len(s)] \in Seq(MessageType) /\ Followed(f[Len(s)], Len(f[Len(s)]))
  OBVIOUS
<1> DEFINE K == {n \in 0..Len(s) : SpokenSoFar(f[n], s, n)}
<1>0. Len(s) \in Nat \ {0}
  BY DEF Complete, Alternates
<1>1. \A n \in 0..Len(s) : f[n] = SpokenAt(f, s, n)
  BY DEF Speaks
<1>2. 0 \in K
  <2> DEFINE x == Message("system", <<>>)
  <2>1. x \in MessageType /\ x.role = "system"
    BY DEF Message, MessageType
  <2>2. f[0] = <<x>>
    BY <1>0, <1>1 DEF SpokenAt
  <2> HIDE DEF x
  <2>3. SpokenSoFar(<<x>>, s, 0)
    BY <2>1 DEF SpokenSoFar, Followed
  <2> QED
    BY <1>0, <2>2, <2>3
<1>3. ASSUME NEW n \in 0..Len(s), n < Len(s), n \in K PROVE n + 1 \in K
  <2>1. n + 1 \in 0..Len(s) /\ (n + 1) - 1 = n /\ n + 1 # 0
    BY <1>0, <1>3
  <2>2. f[n + 1] = f[n] \o Spoken(s[n + 1])
    BY <1>1, <2>1 DEF SpokenAt
  <2>3. SpokenSoFar(f[n + 1], s, n + 1)
    BY <1>3, <2>2, SpokenTurn
  <2> QED
    BY <2>1, <2>3
<1>4. 0..Len(s) \subseteq K
  <2> HIDE DEF K
  <2> QED
    BY <1>0, <1>2, <1>3, UpTo
<1>5. SpokenSoFar(f[Len(s)], s, Len(s))
  BY <1>0, <1>4
<1> QED
  BY <1>5 DEF SpokenSoFar, Complete

LEMMA RunOfTools ==
  \A m, i : m \in Seq(MessageType) /\ i \in DOMAIN m /\ FollowedUp(m, i) =>
    /\ Cardinality(ToolRun(m, i)) = Len(m[i].calls)
    /\ {m[j].calls[1] : j \in ToolRun(m, i)} = ToSet(m[i].calls)
<1> SUFFICES ASSUME NEW m \in Seq(MessageType), NEW i \in DOMAIN m, FollowedUp(m, i)
             PROVE  /\ Cardinality(ToolRun(m, i)) = Len(m[i].calls)
                    /\ {m[j].calls[1] : j \in ToolRun(m, i)} = ToSet(m[i].calls)
  OBVIOUS
<1>1. DOMAIN m = 1..Len(m) /\ Len(m) \in Nat /\ i \in Nat /\ i > 0
  OBVIOUS
<1>2. PICK l \in Nat : l = Len(m[i].calls)
  <2>1. m[i] \in MessageType
    OBVIOUS
  <2>2. m[i].calls \in Seq(Call)
    BY <2>1 DEF MessageType
  <2> QED
    BY <2>2
<1>3. /\ l > 0 /\ i + l <= Len(m)
      /\ \A j \in i + 1 .. i + l : m[j].role = "tool"
      /\ {m[j].calls[1] : j \in i + 1 .. i + l} = ToSet(m[i].calls)
      /\ i + l < Len(m) => m[i + l + 1].role # "tool"
  BY <1>2 DEF FollowedUp
<1>4. ToolRun(m, i) = i + 1 .. i + l
  <2>1. ASSUME NEW j \in i + 1 .. i + l PROVE j \in ToolRun(m, i)
    <3>1. j \in DOMAIN m /\ j > i /\ \A k \in i + 1 .. j : k \in i + 1 .. i + l
      BY <1>1, <1>3
    <3> QED
      BY <1>3, <3>1 DEF ToolRun
  <2>2. ASSUME NEW j \in ToolRun(m, i) PROVE j \in i + 1 .. i + l
    <3>1. j \in 1..Len(m) /\ j > i /\ \A k \in i + 1 .. j : m[k].role = "tool"
      BY <1>1 DEF ToolRun
    <3>2. ASSUME j > i + l PROVE FALSE
      <4>1. i + l + 1 \in i + 1 .. j /\ i + l < Len(m)
        BY <1>1, <3>1, <3>2
      <4> QED
        BY <1>3, <3>1, <4>1
    <3> QED
      BY <1>1, <3>1, <3>2
  <2> QED
    BY <2>1, <2>2
<1>5. Cardinality(i + 1 .. i + l) = l
  <2>1. \A x, y \in Int : Cardinality(x .. y) = IF x > y THEN 0 ELSE y - x + 1
    BY FS_Interval
  <2>2. i + 1 \in Int /\ i + l \in Int /\ ~(i + 1 > i + l) /\ i + l - (i + 1) + 1 = l
    BY <1>1, <1>3
  <2> QED
    BY <2>1, <2>2
<1> QED
  BY <1>2, <1>3, <1>4, <1>5

LEMMA SaidAlternates ==
  \A t : Complete(Turns(t)) =>
    LET said == UserMessages(t)
    IN  /\ Last(said).role = "user"
        /\ \A i \in DOMAIN said :
             /\ said[i].role = IF i % 2 = 1 THEN "user" ELSE "assistant"
             /\ said[i].role = "assistant" => AnswersAll(said[i].calls, said[i + 1].calls)
<1> SUFFICES ASSUME NEW t, NEW s, NEW said, s = Turns(t), Complete(s), said = UserMessages(t)
             PROVE  /\ Last(said).role = "user"
                    /\ \A i \in DOMAIN said :
                         /\ said[i].role = IF i % 2 = 1 THEN "user" ELSE "assistant"
                         /\ said[i].role = "assistant" => AnswersAll(said[i].calls, said[i + 1].calls)
  OBVIOUS
<1>1. /\ s \in Seq(TurnType) /\ Len(s) \in Nat \ {0} /\ s[1].kind = "user"
      /\ \A i \in 2..Len(s) : s[i].kind = IF i % 2 = 0 THEN "assistant_tools" ELSE "tool_observations"
  BY DEF Complete, Alternates
<1>2. DOMAIN s = 1..Len(s)
  BY <1>1
<1>3. said = [i \in 1..Len(s) |->
                Message(IF s[i].kind = "assistant_tools" THEN "assistant" ELSE "user", s[i].calls)]
  BY <1>2 DEF UserMessages
<1>4. \A i \in 1..Len(s) :
        /\ said[i].role = IF s[i].kind = "assistant_tools" THEN "assistant" ELSE "user"
        /\ said[i].calls = s[i].calls
  BY <1>3 DEF Message
<1>5. \A i \in 1..Len(s) : (i % 2 = 1 <=> s[i].kind # "assistant_tools")
  <2>1. 1 % 2 = 1
    OBVIOUS
  <2>2. \A i \in 1..Len(s) : i = 1 \/ i \in 2..Len(s)
    BY <1>1
  <2> QED
    BY <1>1, <2>1, <2>2, Parity
<1>6. DOMAIN said = 1..Len(s) /\ Len(said) = Len(s)
  BY <1>1, <1>3
<1>7. Last(said).role = "user"
  BY <1>1, <1>4, <1>5, <1>6 DEF Last, Complete
<1>8. ASSUME NEW i \in 1..Len(s), said[i].role = "assistant"
      PROVE  AnswersAll(said[i].calls, said[i + 1].calls)
  <2>1. i % 2 = 0 /\ i # Len(s) /\ i # 1
    BY <1>4, <1>5, <1>8, Parity DEF Complete
  <2>2. i \in 2..Len(s) /\ i + 1 \in 1..Len(s) /\ i + 1 <= Len(s)
    BY <1>1, <2>1
  <2>3. AnswersAll(s[i].calls, s[i + 1].calls)
    BY <2>1, <2>2 DEF Complete, AnsweredUpTo
  <2> QED
    BY <1>4, <2>2, <2>3
<1> QED
  BY <1>4, <1>5, <1>6, <1>7, <1>8

\* Whenever the model is asked, the conversation is one the providers accept,
\* however many actions the run has made and whatever became of their calls:
\* roles alternate, and the calls of each request are answered once each, right
\* after it (trace_turns.py 97-261).
THEOREM ProvidersAccept == Spec => []ConversationIsWellFormed
<1>1. ASSUME TypeOK, TraceReady, Readable PROVE ConversationIsWellFormed
  <2>1. SUFFICES ASSUME pc = "ask"
                 PROVE  LET said == UserMessages(trace)
                            chat == ToolMessages(trace)
                        IN  /\ Last(said).role = "user"
                            /\ \A i \in DOMAIN said :
                                 /\ said[i].role = IF i % 2 = 1 THEN "user" ELSE "assistant"
                                 /\ said[i].role = "assistant" => AnswersAll(said[i].calls, said[i + 1].calls)
                            /\ \A i \in DOMAIN chat : chat[i].role = "assistant" =>
                                 /\ Cardinality(ToolRun(chat, i)) = Len(chat[i].calls)
                                 /\ {chat[j].calls[1] : j \in ToolRun(chat, i)} = ToSet(chat[i].calls)
    BY DEF ConversationIsWellFormed
  <2>2. trace \in Seq(T!Entry) /\ T!Open /\ T!AllAnswered
    BY <1>1, <2>1 DEF TypeOK, RecordType, TraceReady
  <2>3. PICK f : Reads(f, trace) /\ Turns(trace) = f[Len(trace)].turns
    BY <1>1, TurnsRead DEF Readable
  <2>4. Stands(f[Len(trace)])
    BY <1>1, <2>2, <2>3 DEF Readable
  <2>5. Complete(Turns(trace))
    BY <2>2, <2>3, <2>4, AllIsAnswered
  <2>6. PICK g : Speaks(g, Turns(trace), Len(Turns(trace))) /\ ToolMessages(trace) = g[Len(Turns(trace))]
    BY <2>5, MessagesSpoken DEF Complete, Alternates
  <2>7. PICK m : m = ToolMessages(trace)
    OBVIOUS
  <2>8. m \in Seq(MessageType) /\ Followed(m, Len(m))
    BY <2>5, <2>6, <2>7, SpokenRight
  <2>9. \A i \in DOMAIN m : m[i].role = "assistant" =>
          /\ Cardinality(ToolRun(m, i)) = Len(m[i].calls)
          /\ {m[j].calls[1] : j \in ToolRun(m, i)} = ToSet(m[i].calls)
    <3>1. DOMAIN m = 1..Len(m)
      BY <2>8
    <3>2. \A i \in DOMAIN m : m[i].role = "assistant" => FollowedUp(m, i)
      BY <2>8, <3>1 DEF Followed
    <3> QED
      BY <2>8, <3>2, RunOfTools
  <2> QED
    BY <2>5, <2>7, <2>9, SaidAlternates
<1> QED
  BY <1>1, ReadableAlways, TypeCorrect, PTL

------------------------------------------------------------------------------
(* What RunTrace says of a whole log, whoever wrote it: the reference of a    *)
(* replay, or the replay's own trace.                                         *)

\* The observation at j is one of a call of the action at k, the first of it, and
\* tells whether the call was let through.
Serves(h, k, j) ==
  /\ k < j /\ h[k].kind = "action" /\ h[j].kind = "observation"
  /\ h[j].call \in ToSet(h[k].calls)
  /\ h[j].got = Denied <=> h[j].call \notin h[k].allowed
  /\ \A m \in k + 1 .. j - 1 : h[m].kind # "action" /\ ~T!Observes(h[m], h[j].call)

\* Every call of the action at k is observed between it and m.
AnsweredBefore(h, k, m) ==
  \A c \in ToSet(h[k].calls) : \E j \in DOMAIN h : j < m /\ Serves(h, k, j) /\ h[j].call = c

IsTrace(h) ==
  /\ h \in Seq(T!Entry)
  /\ \A k \in DOMAIN h : h[k].kind = "query" <=> k = 1
  /\ \A k \in DOMAIN h : h[k].kind \in {"answer", "failure"} => k = Len(h)
  /\ \A k \in DOMAIN h : h[k].kind = "action" => h[k].allowed \subseteq ToSet(h[k].calls)
  /\ \A j \in DOMAIN h : h[j].kind = "observation" => \E k \in DOMAIN h : Serves(h, k, j)
  /\ \A k, m \in DOMAIN h :
       k < m /\ h[k].kind = "action" /\ h[m].kind \in {"action", "answer"} => AnsweredBefore(h, k, m)

\* Call c of the action at k, the latest, has no observation yet.
Waits(h, k, c) ==
  /\ h[k].kind = "action" /\ c \in ToSet(h[k].calls)
  /\ \A j \in k + 1 .. Len(h) : h[j].kind # "action" /\ ~T!Observes(h[j], c)
NothingWaits(h) == \A k \in DOMAIN h : \A c \in Call : ~Waits(h, k, c)

\* One step of RunTrace adds e to h.
Adds(h, e) ==
  \/ h = <<>> /\ e = T!Query
  \/ /\ h # <<>> /\ h[Len(h)].kind \notin {"answer", "failure"}
     /\ \/ /\ \E calls \in Actions : \E cs \in SUBSET ToSet(calls) : e = T!Action(calls, cs)
           /\ NothingWaits(h)
        \/ \E c \in Call : \E k \in DOMAIN h :
             /\ Waits(h, k, c)
             /\ \/ c \notin h[k].allowed /\ e = T!Observation(c, Denied)
                \/ c \in h[k].allowed /\ \E got \in Outcome : e = T!Observation(c, got)
        \/ e = T!Answer /\ NothingWaits(h)
        \/ e = T!Failure

LEMMA CallsOfActions == \A a \in Actions : a \in Seq(Call) /\ a # <<>> /\ ToSet(a) \subseteq Call
<1>1. \A a \in Actions : a \in Seq(Call) /\ a # <<>>
  BY RuntimeAssumption
<1>2. \A a \in Seq(Call) : \A i \in DOMAIN a : a[i] \in Call
  OBVIOUS
<1> QED
  BY <1>1, <1>2 DEF ToSet

LEMMA EntryFields ==
  \A e \in T!Entry :
    /\ e.kind \in {"query", "answer", "failure", "action", "observation"}
    /\ e.kind = "query" <=> e = T!Query
    /\ e.kind = "answer" <=> e = T!Answer
    /\ e.kind = "action" =>
         e.calls \in Actions /\ e.allowed \in SUBSET Call /\ e = T!Action(e.calls, e.allowed)
    /\ e.kind = "observation" =>
         e.call \in Call /\ e.got \in Outcome \cup {Denied} /\ e = T!Observation(e.call, e.got)
  BY DEF T!Entry, T!Query, T!Answer, T!Failure, T!Action, T!Observation

LEMMA AddsAnEntry == \A h : \A e : Adds(h, e) => e \in T!Entry
<1> SUFFICES ASSUME NEW h, NEW e, Adds(h, e) PROVE e \in T!Entry
  OBVIOUS
<1>1. CASE e \in {T!Query, T!Answer, T!Failure}
  BY <1>1, EntryTypes
<1>2. CASE \E calls \in Actions : \E cs \in SUBSET ToSet(calls) : e = T!Action(calls, cs)
  BY <1>2, EntryTypes, CallsOfActions
<1>3. CASE \E c \in Call : e = T!Observation(c, Denied) \/ \E got \in Outcome : e = T!Observation(c, got)
  BY <1>3, EntryTypes
<1> QED
  BY <1>1, <1>2, <1>3 DEF Adds

LEMMA TraceGrows ==
  \A h : \A e : IsTrace(h) /\ Adds(h, e) => IsTrace(Append(h, e))
<1> SUFFICES ASSUME NEW h, NEW e, IsTrace(h), Adds(h, e) PROVE IsTrace(Append(h, e))
  OBVIOUS
<1> DEFINE g == Append(h, e)
           n == Len(h)
<1>1. e \in T!Entry /\ h \in Seq(T!Entry)
  BY AddsAnEntry DEF IsTrace
<1>2. /\ g \in Seq(T!Entry) /\ n \in Nat /\ Len(g) = n + 1 /\ g[n + 1] = e
      /\ DOMAIN h = 1..n /\ DOMAIN g = 1..n + 1 /\ \A i \in 1..n : g[i] = h[i]
      /\ \A i \in 1..n + 1 : i \in 1..n \/ i = n + 1
  BY <1>1
<1>3. \A i \in 1..n : h[i] \in T!Entry
  BY <1>1
<1> HIDE DEF g, n
<1>4. /\ \A k \in 1..n : h[k].kind = "query" <=> k = 1
      /\ \A k \in 1..n : h[k].kind \in {"answer", "failure"} => k = n
      /\ \A k \in 1..n : h[k].kind = "action" => h[k].allowed \subseteq ToSet(h[k].calls)
      /\ \A j \in 1..n : h[j].kind = "observation" => \E k \in 1..n : Serves(h, k, j)
      /\ \A k, m \in 1..n :
           k < m /\ h[k].kind = "action" /\ h[m].kind \in {"action", "answer"} =>
             AnsweredBefore(h, k, m)
  BY <1>2 DEF IsTrace, n
<1>5. n = 0 \/ h[n].kind \notin {"answer", "failure"}
  BY <1>1, <1>2 DEF Adds, n
<1>6. (n = 0 /\ e = T!Query) \/ (n > 0 /\ e.kind # "query")
  BY <1>1, <1>2, EntryFields DEF Adds, n, T!Query, T!Answer, T!Failure, T!Action, T!Observation
<1>7. \A k \in 1..n + 1 : g[k].kind = "query" <=> k = 1
  BY <1>2, <1>4, <1>6 DEF T!Query
<1>8. \A k \in 1..n + 1 : g[k].kind \in {"answer", "failure"} => k = n + 1
  BY <1>2, <1>4, <1>5
<1>9. \A k \in 1..n + 1 : g[k].kind = "action" => g[k].allowed \subseteq ToSet(g[k].calls)
  <2>1. e.kind = "action" => e.allowed \subseteq ToSet(e.calls)
    BY DEF Adds, T!Query, T!Answer, T!Failure, T!Action, T!Observation
  <2> QED
    BY <1>2, <1>4, <2>1
<1>10. \A k, j \in 1..n : Serves(h, k, j) <=> Serves(g, k, j)
  <2> SUFFICES ASSUME NEW k \in 1..n, NEW j \in 1..n PROVE Serves(h, k, j) <=> Serves(g, k, j)
    OBVIOUS
  <2>1. \A m \in k + 1 .. j - 1 : m \in 1..n /\ g[m] = h[m]
    BY <1>2
  <2>2. g[k] = h[k] /\ g[j] = h[j]
    BY <1>2
  <2> QED
    BY <2>1, <2>2 DEF Serves
<1>11. \A j \in 1..n + 1 : g[j].kind = "observation" => \E k \in 1..n + 1 : Serves(g, k, j)
  <2>1. ASSUME NEW j \in 1..n, g[j].kind = "observation" PROVE \E k \in 1..n + 1 : Serves(g, k, j)
    <3>1. PICK k \in 1..n : Serves(h, k, j)
      BY <1>2, <1>4, <2>1
    <3> QED
      BY <1>2, <1>10, <3>1
  <2>2. ASSUME e.kind = "observation" PROVE \E k \in 1..n + 1 : Serves(g, k, n + 1)
    <3>1. PICK c \in Call, k \in 1..n :
            /\ Waits(h, k, c)
            /\ \/ c \notin h[k].allowed /\ e = T!Observation(c, Denied)
               \/ c \in h[k].allowed /\ \E got \in Outcome : e = T!Observation(c, got)
      BY <1>2, <2>2 DEF Adds, T!Query, T!Answer, T!Failure, T!Action
    <3>2. e.call = c /\ (e.got = Denied <=> c \notin h[k].allowed)
      BY <3>1, RuntimeAssumption DEF T!Observation
    <3>3. \A m \in k + 1 .. n : g[m] = h[m]
      BY <1>2
    <3>4. g[k] = h[k] /\ g[n + 1] = e /\ k < n + 1 /\ (n + 1) - 1 = n
      BY <1>2
    <3>5. Serves(g, k, n + 1)
      BY <2>2, <3>1, <3>2, <3>3, <3>4 DEF Serves, Waits, n
    <3> QED
      BY <1>2, <3>5
  <2> QED
    BY <1>2, <2>1, <2>2
<1>12. ASSUME NEW k \in 1..n + 1, NEW m \in 1..n + 1, k < m, g[k].kind = "action",
              g[m].kind \in {"action", "answer"}
       PROVE  AnsweredBefore(g, k, m)
  <2> SUFFICES ASSUME NEW c \in ToSet(g[k].calls)
               PROVE  \E j \in 1..n + 1 : j < m /\ Serves(g, k, j) /\ g[j].call = c
    BY <1>2 DEF AnsweredBefore
  <2>1. k \in 1..n /\ g[k] = h[k] /\ h[k] \in T!Entry
    BY <1>2, <1>3, <1>12
  <2>2. CASE m \in 1..n
    <3>0. AnsweredBefore(h, k, m)
      BY <1>2, <1>4, <1>12, <2>1, <2>2
    <3>1. PICK j \in 1..n : j < m /\ Serves(h, k, j) /\ h[j].call = c
      BY <1>2, <1>12, <2>1, <3>0 DEF AnsweredBefore
    <3> QED
      BY <1>2, <1>10, <2>1, <3>1
  <2>3. CASE m = n + 1 /\ \E l \in k + 1 .. n : h[l].kind = "action"
    <3>1. PICK l \in 1..n : k < l /\ h[l].kind = "action"
      BY <2>3
    <3>0. AnsweredBefore(h, k, l)
      BY <1>2, <1>4, <1>12, <2>1, <3>1
    <3>2. PICK j \in 1..n : j < l /\ Serves(h, k, j) /\ h[j].call = c
      BY <1>2, <1>12, <2>1, <3>0 DEF AnsweredBefore
    <3> QED
      BY <1>2, <1>10, <2>1, <2>3, <3>1, <3>2
  <2>4. CASE m = n + 1 /\ \A l \in k + 1 .. n : h[l].kind # "action"
    <3>1. NothingWaits(h)
      BY <1>2, <1>12, <2>4 DEF Adds, T!Query, T!Failure, T!Observation
    <3>2. c \in Call
      BY <1>12, <2>1, EntryFields, CallsOfActions
    <3>3. ~Waits(h, k, c)
      BY <1>2, <2>1, <3>1, <3>2 DEF NothingWaits
    <3>4. PICK j \in k + 1 .. n : T!Observes(h[j], c)
      BY <1>12, <2>1, <2>4, <3>3 DEF Waits, n
    <3>5. j \in 1..n /\ h[j].kind = "observation" /\ h[j].call = c
      BY <2>1, <3>4 DEF T!Observes
    <3>6. PICK i \in 1..n : Serves(h, i, j)
      BY <1>4, <3>5
    <3>7. i = k
      <4>1. ~(i < k)
        <5>1. i < k => k \in i + 1 .. j - 1
          BY <2>1, <3>4, <3>6
        <5> QED
          BY <1>12, <2>1, <3>6, <5>1 DEF Serves
      <4>2. ~(k < i)
        <5>1. i < j /\ h[i].kind = "action"
          BY <3>6 DEF Serves
        <5>2. k < i => i \in k + 1 .. n
          BY <2>1, <3>6
        <5> QED
          BY <2>4, <5>1, <5>2
      <4> QED
        BY <2>1, <3>6, <4>1, <4>2
    <3> QED
      BY <1>2, <1>10, <2>1, <2>4, <3>5, <3>6, <3>7
  <2> QED
    BY <1>2, <1>12, <2>2, <2>3, <2>4
<1>13. IsTrace(g)
  BY <1>2, <1>7, <1>8, <1>9, <1>11, <1>12 DEF IsTrace
<1> QED
  BY <1>13 DEF g

\* RunTrace's steps are such additions, of both logs.
LEMMA RunTraceAdds ==
  /\ T!Next => \E e : Adds(trace, e) /\ trace' = Append(trace, e)
  /\ R!Next => \E e : Adds(reference, e) /\ reference' = Append(reference, e)
<1>1. ASSUME T!AllAnswered PROVE NothingWaits(trace)
  <2> SUFFICES ASSUME NEW k \in DOMAIN trace, NEW c \in Call, Waits(trace, k, c) PROVE FALSE
    BY DEF NothingWaits
  <2>1. T!Waiting(c, TRUE) \/ T!Waiting(c, FALSE)
    BY DEF Waits, T!Waiting, T!ToSet, ToSet
  <2> QED
    BY <1>1, <2>1 DEF T!AllAnswered
<1>2. ASSUME R!AllAnswered PROVE NothingWaits(reference)
  <2> SUFFICES ASSUME NEW k \in DOMAIN reference, NEW c \in Call, Waits(reference, k, c) PROVE FALSE
    BY DEF NothingWaits
  <2>1. R!Waiting(c, TRUE) \/ R!Waiting(c, FALSE)
    BY DEF Waits, R!Waiting, R!ToSet, ToSet, T!Observes, R!Observes
  <2> QED
    BY <1>2, <2>1 DEF R!AllAnswered
<1>3. \A c \in Call :
        /\ T!Waiting(c, TRUE) => \E k \in DOMAIN trace : Waits(trace, k, c) /\ c \in trace[k].allowed
        /\ T!Waiting(c, FALSE) => \E k \in DOMAIN trace : Waits(trace, k, c) /\ c \notin trace[k].allowed
  BY DEF Waits, T!Waiting, T!ToSet, ToSet
<1>4. \A c \in Call :
        /\ R!Waiting(c, TRUE) =>
             \E k \in DOMAIN reference : Waits(reference, k, c) /\ c \in reference[k].allowed
        /\ R!Waiting(c, FALSE) =>
             \E k \in DOMAIN reference : Waits(reference, k, c) /\ c \notin reference[k].allowed
  BY DEF Waits, R!Waiting, R!ToSet, ToSet, T!Observes, R!Observes
<1>5. T!Next => \E e : Adds(trace, e) /\ trace' = Append(trace, e)
  <2>1. ASSUME T!Ask PROVE \E e : Adds(trace, e) /\ trace' = Append(trace, e)
    <3>1. trace' = Append(trace, T!Query) /\ Adds(trace, T!Query)
      <4>1. trace = <<>> /\ trace' = <<T!Query>>
        BY <2>1 DEF T!Ask
      <4> QED
        BY <4>1 DEF Adds
    <3> QED
      BY <3>1
  <2>2. ASSUME T!Open, T!Act \/ T!Finish \/ T!Fail
        PROVE  \E e : Adds(trace, e) /\ trace' = Append(trace, e)
    BY <1>1, <2>2 DEF T!Act, T!Finish, T!Fail, T!Open, Adds, T!Last, T!ToSet, ToSet
  <2>3. ASSUME T!Observe PROVE \E e : Adds(trace, e) /\ trace' = Append(trace, e)
    BY <1>3, <2>3 DEF T!Observe, T!Open, T!Last, Adds
  <2> QED
    BY <2>1, <2>2, <2>3 DEF T!Next, T!Act, T!Finish, T!Fail
<1>6. R!Next => \E e : Adds(reference, e) /\ reference' = Append(reference, e)
  <2>1. ASSUME R!Ask PROVE \E e : Adds(reference, e) /\ reference' = Append(reference, e)
    <3>1. reference' = Append(reference, T!Query) /\ Adds(reference, T!Query)
      <4>1. reference = <<>> /\ reference' = <<T!Query>>
        BY <2>1 DEF R!Ask, R!Query, T!Query
      <4> QED
        BY <4>1 DEF Adds
    <3> QED
      BY <3>1
  <2>2. ASSUME R!Open, R!Act \/ R!Finish \/ R!Fail
        PROVE  \E e : Adds(reference, e) /\ reference' = Append(reference, e)
    BY <1>2, <2>2 DEF R!Act, R!Finish, R!Fail, R!Open, Adds, R!Last, R!ToSet, ToSet,
       R!Action, R!Answer, R!Failure, T!Action, T!Answer, T!Failure
  <2>3. ASSUME R!Observe PROVE \E e : Adds(reference, e) /\ reference' = Append(reference, e)
    BY <1>4, <2>3 DEF R!Observe, R!Open, R!Last, Adds, R!Observation, T!Observation
  <2> QED
    BY <2>1, <2>2, <2>3 DEF R!Next, R!Act, R!Finish, R!Fail
<1> QED
  BY <1>5, <1>6

------------------------------------------------------------------------------
(* What a log says: the calls of its actions, and its answer.                 *)
Kept(h, kinds) == Selected(h, {e \in ToSet(h) : e.kind \in kinds})
Acts(h) == Kept(h, {"action"})
CallsOf(h) == [i \in DOMAIN Acts(h) |-> Acts(h)[i].calls]

Concluded(h) == h # <<>> /\ h[Len(h)].kind = "answer"
SaysItsCalls(h) ==
  /\ Answered(h) <=> Concluded(h)
  /\ Messages(h) = IF Answered(h) THEN Append(CallsOf(h), <<>>) ELSE CallsOf(h)

LEMMA KeptAppend ==
  \A h \in Seq(T!Entry), x \in T!Entry : \A kinds :
    /\ Kept(h, kinds) \in Seq(T!Entry)
    /\ \A i \in DOMAIN Kept(h, kinds) : Kept(h, kinds)[i].kind \in kinds
    /\ Kept(Append(h, x), kinds) = IF x.kind \in kinds THEN Append(Kept(h, kinds), x) ELSE Kept(h, kinds)
<1> SUFFICES ASSUME NEW h \in Seq(T!Entry), NEW x \in T!Entry, NEW kinds
             PROVE  /\ Kept(h, kinds) \in Seq(T!Entry)
                    /\ \A i \in DOMAIN Kept(h, kinds) : Kept(h, kinds)[i].kind \in kinds
                    /\ Kept(Append(h, x), kinds) =
                         IF x.kind \in kinds THEN Append(Kept(h, kinds), x) ELSE Kept(h, kinds)
  OBVIOUS
<1> DEFINE C == {e \in T!Entry : e.kind \in kinds}
<1>1. ASSUME NEW g \in Seq(T!Entry) PROVE Kept(g, kinds) = Selected(g, C)
  <2>1. \A i \in DOMAIN g : g[i] \in T!Entry /\ g[i] \in ToSet(g)
    BY DEF ToSet
  <2>2. \A i \in DOMAIN g : g[i] \in {e \in ToSet(g) : e.kind \in kinds} <=> g[i] \in C
    BY <2>1
  <2> HIDE DEF C
  <2> QED
    BY <2>2, SelectedSame DEF Kept
<1>2. Append(h, x) \in Seq(T!Entry)
  OBVIOUS
<1>3. Selected(h, C) \in Seq(T!Entry \cap C)
  <2> HIDE DEF C
  <2> QED
    BY SelectedType
<1>4. T!Entry \cap C = C /\ C \subseteq T!Entry /\ \A e \in C : e.kind \in kinds
  OBVIOUS
<1>5. Selected(Append(h, x), C) = IF x \in C THEN Append(Selected(h, C), x) ELSE Selected(h, C)
  <2> HIDE DEF C
  <2> QED
    BY SelectedAppend
<1>6. x \in C <=> x.kind \in kinds
  OBVIOUS
<1> HIDE DEF C
<1>7. Selected(h, C) \in Seq(C)
  BY <1>3, <1>4
<1>8. /\ Selected(h, C) \in Seq(T!Entry)
      /\ \A i \in DOMAIN Selected(h, C) : Selected(h, C)[i].kind \in kinds
  BY <1>4, <1>7
<1> QED
  BY <1>1, <1>2, <1>5, <1>6, <1>8

LEMMA ActsAppend ==
  \A h \in Seq(T!Entry), x \in T!Entry :
    /\ Acts(h) \in Seq(T!Entry)
    /\ \A i \in DOMAIN Acts(h) : Acts(h)[i].kind = "action"
    /\ Acts(Append(h, x)) = IF x.kind = "action" THEN Append(Acts(h), x) ELSE Acts(h)
BY KeptAppend DEF Acts

ActEntry == {e \in T!Entry : e.kind = "action"}
LEMMA ActsType == \A h \in Seq(T!Entry) : Acts(h) \in Seq(ActEntry)
<1>1. \A s \in Seq(T!Entry) : (\A i \in DOMAIN s : s[i] \in ActEntry) => s \in Seq(ActEntry)
  OBVIOUS
<1>2. \A h \in Seq(T!Entry) : Acts(h) \in Seq(T!Entry) /\ \A i \in DOMAIN Acts(h) : Acts(h)[i] \in ActEntry
  <2>1. T!Query \in T!Entry
    BY EntryTypes
  <2>2. \A s \in Seq(T!Entry) : \A i \in DOMAIN s : s[i] \in T!Entry
    OBVIOUS
  <2> QED
    BY ActsAppend, <2>1, <2>2 DEF ActEntry
<1> QED
  BY <1>1, <1>2

\* A field of every element of a sequence.
Mapped(s, f) == [i \in DOMAIN s |-> f[s[i]]]
LEMMA MappedAppend ==
  ASSUME NEW D, NEW E, NEW s \in Seq(D), NEW f \in [D -> E]
  PROVE  /\ Mapped(s, f) \in Seq(E) /\ Len(Mapped(s, f)) = Len(s)
         /\ \A x \in D : Mapped(Append(s, x), f) = Append(Mapped(s, f), f[x])
<1>0. Mapped(s, f) \in Seq(E) /\ Len(Mapped(s, f)) = Len(s)
  <2>1. \A i \in 1..Len(s) : s[i] \in D /\ f[s[i]] \in E
    OBVIOUS
  <2> QED
    BY <2>1 DEF Mapped
<1> SUFFICES ASSUME NEW x \in D
             PROVE  Mapped(Append(s, x), f) = Append(Mapped(s, f), f[x])
  BY <1>0
<1> DEFINE n == Len(s)
           w == Mapped(s, f)
           t == Append(s, x)
           c == Mapped(t, f)
<1>1. /\ n \in Nat /\ DOMAIN s = 1..n /\ \A i \in 1..n : s[i] \in D
      /\ DOMAIN t = 1..n + 1 /\ t[n + 1] = x /\ \A i \in 1..n : t[i] = s[i]
  OBVIOUS
<1> HIDE DEF t, n
<1>2. w = [i \in 1..n |-> f[s[i]]] /\ c = [i \in 1..n + 1 |-> f[t[i]]]
  BY <1>1 DEF Mapped
<1> HIDE DEF w, c
<1>3. w \in Seq(E) /\ Len(w) = n /\ \A i \in 1..n : w[i] = f[s[i]]
  BY <1>0, <1>2 DEF w, n
<1>4. \A i \in 1..n + 1 : i \in 1..n \/ i = n + 1
  BY <1>1
<1>5. \A i \in 1..n + 1 : c[i] = IF i = n + 1 THEN f[x] ELSE w[i]
  BY <1>1, <1>2, <1>3, <1>4
<1>6. Append(w, f[x]) = [i \in 1..n + 1 |-> IF i = n + 1 THEN f[x] ELSE w[i]]
  BY <1>3
<1> QED
  BY <1>2, <1>5, <1>6 DEF w, c, t

\* The calls, the decisions and the messages of a log are those of its lines.
LEMMA CallsAppend ==
  \A h \in Seq(T!Entry), x \in T!Entry :
    /\ CallsOf(h) \in Seq(Actions) /\ Len(CallsOf(h)) = Len(Acts(h))
    /\ CallsOf(Append(h, x)) = IF x.kind = "action" THEN Append(CallsOf(h), x.calls) ELSE CallsOf(h)
<1> DEFINE A == {e \in T!Entry : e.kind = "action"}
           f == [e \in A |-> e.calls]
<1>1. f \in [A -> Actions] /\ \A e \in A : f[e] = e.calls
  BY EntryFields
<1>2. \A h \in Seq(T!Entry) : Acts(h) \in Seq(A)
  BY ActsType DEF ActEntry
<1>3. ASSUME NEW h \in Seq(T!Entry) PROVE CallsOf(h) = Mapped(Acts(h), f)
  <2> HIDE DEF A, f
  <2>1. \A i \in DOMAIN Acts(h) : Acts(h)[i] \in A
    BY <1>2
  <2> QED
    BY <1>1, <2>1 DEF CallsOf, Mapped
<1>4. \A x \in T!Entry : x.kind = "action" => x \in A
  OBVIOUS
<1> HIDE DEF A, f
<1> SUFFICES ASSUME NEW h \in Seq(T!Entry), NEW x \in T!Entry
             PROVE  /\ CallsOf(h) \in Seq(Actions) /\ Len(CallsOf(h)) = Len(Acts(h))
                    /\ CallsOf(Append(h, x)) =
                         IF x.kind = "action" THEN Append(CallsOf(h), x.calls) ELSE CallsOf(h)
  OBVIOUS
<1>5. Append(h, x) \in Seq(T!Entry)
  OBVIOUS
<1>6. /\ Mapped(Acts(h), f) \in Seq(Actions) /\ Len(Mapped(Acts(h), f)) = Len(Acts(h))
      /\ \A y \in A : Mapped(Append(Acts(h), y), f) = Append(Mapped(Acts(h), f), f[y])
  <2>1. Acts(h) \in Seq(A) /\ f \in [A -> Actions]
    BY <1>1, <1>2
  <2> QED
    BY <2>1, MappedAppend
<1>7. CASE x.kind = "action"
  BY <1>1, <1>3, <1>4, <1>5, <1>6, <1>7, ActsAppend
<1>8. CASE x.kind # "action"
  BY <1>3, <1>5, <1>6, <1>8, ActsAppend
<1> QED
  BY <1>3, <1>6, <1>7, <1>8

LEMMA DecisionsAppend ==
  \A h \in Seq(T!Entry), x \in T!Entry :
    /\ Decisions(h) \in Seq(SUBSET Call) /\ Len(Decisions(h)) = Len(Acts(h))
    /\ Decisions(Append(h, x)) =
         IF x.kind = "action" THEN Append(Decisions(h), x.allowed) ELSE Decisions(h)
<1> DEFINE A == {e \in T!Entry : e.kind = "action"}
           D == SUBSET Call
           f == [e \in A |-> e.allowed]
<1>1. f \in [A -> D] /\ \A e \in A : f[e] = e.allowed
  BY EntryFields
<1>2. \A h \in Seq(T!Entry) : Acts(h) \in Seq(A)
  BY ActsType DEF ActEntry
<1>3. ASSUME NEW h \in Seq(T!Entry) PROVE Decisions(h) = Mapped(Acts(h), f)
  <2> HIDE DEF A, f
  <2>1. \A i \in DOMAIN Acts(h) : Acts(h)[i] \in A
    BY <1>2
  <2>2. {e \in ToSet(h) : e.kind = "action"} = {e \in ToSet(h) : e.kind \in {"action"}}
    OBVIOUS
  <2>3. Decisions(h) = [i \in DOMAIN Acts(h) |-> Acts(h)[i].allowed]
    BY <2>2 DEF Decisions, Acts, Kept
  <2> QED
    BY <1>1, <2>1, <2>3 DEF Mapped
<1>4. \A x \in T!Entry : x.kind = "action" => x \in A
  OBVIOUS
<1> HIDE DEF A, f, D
<1> SUFFICES ASSUME NEW h \in Seq(T!Entry), NEW x \in T!Entry
             PROVE  /\ Decisions(h) \in Seq(D) /\ Len(Decisions(h)) = Len(Acts(h))
                    /\ Decisions(Append(h, x)) =
                         IF x.kind = "action" THEN Append(Decisions(h), x.allowed) ELSE Decisions(h)
  BY DEF D
<1>5. Append(h, x) \in Seq(T!Entry)
  OBVIOUS
<1>6. /\ Mapped(Acts(h), f) \in Seq(D) /\ Len(Mapped(Acts(h), f)) = Len(Acts(h))
      /\ \A y \in A : Mapped(Append(Acts(h), y), f) = Append(Mapped(Acts(h), f), f[y])
  <2>1. Acts(h) \in Seq(A) /\ f \in [A -> D]
    BY <1>1, <1>2
  <2> QED
    BY <2>1, MappedAppend
<1>7. CASE x.kind = "action"
  BY <1>1, <1>3, <1>4, <1>5, <1>6, <1>7, ActsAppend
<1>8. CASE x.kind # "action"
  BY <1>3, <1>5, <1>6, <1>8, ActsAppend
<1> QED
  BY <1>3, <1>6, <1>7, <1>8

LEMMA MessagesAppend ==
  \A h \in Seq(T!Entry), x \in T!Entry :
    /\ Messages(h) \in Seq(Seq(Call))
    /\ Messages(Append(h, x)) =
         IF x.kind = "action" THEN Append(Messages(h), x.calls)
         ELSE IF x.kind = "answer" THEN Append(Messages(h), <<>>) ELSE Messages(h)
<1> DEFINE A == {e \in T!Entry : e.kind \in {"action", "answer"}}
           D == Seq(Call)
           f == [e \in A |-> IF e.kind = "action" THEN e.calls ELSE <<>>]
           said(h) == Kept(h, {"action", "answer"})
<1>1. f \in [A -> D] /\ \A e \in A : f[e] = IF e.kind = "action" THEN e.calls ELSE <<>>
  <2>1. <<>> \in D
    OBVIOUS
  <2>2. \A e \in A : e.kind = "action" => e.calls \in D
    BY EntryFields, CallsOfActions
  <2> HIDE DEF D
  <2> QED
    BY <2>1, <2>2
<1>2. ASSUME NEW h \in Seq(T!Entry) PROVE said(h) \in Seq(A)
  <2>1. said(h) \in Seq(T!Entry) /\ \A i \in DOMAIN said(h) : said(h)[i].kind \in {"action", "answer"}
    BY EntryTypes, KeptAppend
  <2> HIDE DEF said
  <2>2. \A i \in DOMAIN said(h) : said(h)[i] \in T!Entry
    BY <2>1
  <2>3. \A i \in DOMAIN said(h) : said(h)[i] \in A
    BY <2>1, <2>2
  <2> HIDE DEF A
  <2> QED
    BY <2>1, <2>3
<1>3. ASSUME NEW h \in Seq(T!Entry) PROVE Messages(h) = Mapped(said(h), f)
  <2>1. Messages(h) = [i \in DOMAIN said(h) |-> IF said(h)[i].kind = "action" THEN said(h)[i].calls ELSE <<>>]
    BY DEF Messages, Kept
  <2> HIDE DEF A, f, said
  <2>2. \A i \in DOMAIN said(h) : said(h)[i] \in A
    BY <1>2
  <2> QED
    BY <1>1, <2>1, <2>2 DEF Mapped
<1>4. \A x \in T!Entry : x.kind \in {"action", "answer"} => x \in A
  OBVIOUS
<1>5. ASSUME NEW h \in Seq(T!Entry), NEW x \in T!Entry
      PROVE  said(Append(h, x)) =
               IF x.kind \in {"action", "answer"} THEN Append(said(h), x) ELSE said(h)
  BY KeptAppend
<1> HIDE DEF A, f, D, said
<1> SUFFICES ASSUME NEW h \in Seq(T!Entry), NEW x \in T!Entry
             PROVE  /\ Messages(h) \in Seq(D)
                    /\ Messages(Append(h, x)) =
                         IF x.kind = "action" THEN Append(Messages(h), x.calls)
                         ELSE IF x.kind = "answer" THEN Append(Messages(h), <<>>) ELSE Messages(h)
  BY DEF D
<1>6. Append(h, x) \in Seq(T!Entry)
  OBVIOUS
<1>7. /\ Mapped(said(h), f) \in Seq(D)
      /\ \A y \in A : Mapped(Append(said(h), y), f) = Append(Mapped(said(h), f), f[y])
  <2>1. said(h) \in Seq(A) /\ f \in [A -> D]
    BY <1>1, <1>2
  <2> QED
    BY <2>1, MappedAppend
<1>8. CASE x.kind \in {"action", "answer"}
  <2>1. Messages(Append(h, x)) = Append(Messages(h), f[x])
    BY <1>3, <1>4, <1>5, <1>6, <1>7, <1>8
  <2>2. f[x] = IF x.kind = "action" THEN x.calls ELSE <<>>
    BY <1>1, <1>4, <1>8
  <2> QED
    BY <1>3, <1>7, <1>8, <2>1, <2>2
<1>9. CASE x.kind \notin {"action", "answer"}
  BY <1>3, <1>5, <1>6, <1>7, <1>9
<1> QED
  BY <1>8, <1>9

\* Nothing is said of an empty log.
LEMMA EmptyLog ==
  /\ IsTrace(<<>>) /\ SaysItsCalls(<<>>)
  /\ Messages(<<>>) = <<>> /\ Decisions(<<>>) = <<>> /\ ~Answered(<<>>)
<1>1. IsTrace(<<>>)
  <2>1. <<>> \in Seq(T!Entry) /\ DOMAIN <<>> = {}
    OBVIOUS
  <2> QED
    BY <2>1 DEF IsTrace
<1>2. /\ Messages(<<>>) = <<>> /\ Decisions(<<>>) = <<>> /\ CallsOf(<<>>) = <<>>
  BY SelectedEmpty DEF Messages, Decisions, CallsOf, Acts, Kept
<1>3. ~Answered(<<>>) /\ ~Concluded(<<>>)
  BY DEF Answered, Concluded, ToSet
<1> QED
  BY <1>1, <1>2, <1>3 DEF SaysItsCalls

LEMMA AnsweredAppend ==
  \A h \in Seq(T!Entry), x \in T!Entry :
    Answered(Append(h, x)) <=> Answered(h) \/ x.kind = "answer"
<1> SUFFICES ASSUME NEW h \in Seq(T!Entry), NEW x \in T!Entry
             PROVE  Answered(Append(h, x)) <=> Answered(h) \/ x.kind = "answer"
  OBVIOUS
<1> DEFINE g == Append(h, x)
           n == Len(h)
<1>0. /\ n \in Nat /\ DOMAIN h = 1..n /\ DOMAIN g = 1..n + 1 /\ g[n + 1] = x
      /\ \A i \in 1..n : g[i] = h[i]
      /\ \A i \in 1..n + 1 : i \in 1..n \/ i = n + 1
  OBVIOUS
<1> HIDE DEF g, n
<1>1. ToSet(g) = ToSet(h) \cup {x}
  BY <1>0 DEF ToSet
<1> QED
  BY <1>1 DEF Answered, g

LEMMA SaysMore ==
  \A h : \A e : IsTrace(h) /\ SaysItsCalls(h) /\ Adds(h, e) => SaysItsCalls(Append(h, e))
<1> SUFFICES ASSUME NEW h, NEW e, IsTrace(h), SaysItsCalls(h), Adds(h, e)
             PROVE  SaysItsCalls(Append(h, e))
  OBVIOUS
<1>1. e \in T!Entry /\ h \in Seq(T!Entry)
  BY AddsAnEntry DEF IsTrace
<1>2. ~Answered(h)
  BY <1>1 DEF SaysItsCalls, Concluded, Adds
<1>3. Concluded(Append(h, e)) <=> e.kind = "answer"
  BY <1>1 DEF Concluded
<1>4. Answered(Append(h, e)) <=> e.kind = "answer"
  BY <1>1, <1>2, AnsweredAppend
<1>5. Messages(h) = CallsOf(h)
  BY <1>2 DEF SaysItsCalls
<1>6. /\ Messages(Append(h, e)) =
           IF e.kind = "action" THEN Append(Messages(h), e.calls)
           ELSE IF e.kind = "answer" THEN Append(Messages(h), <<>>) ELSE Messages(h)
      /\ CallsOf(Append(h, e)) = IF e.kind = "action" THEN Append(CallsOf(h), e.calls) ELSE CallsOf(h)
  BY <1>1, MessagesAppend, CallsAppend
<1> QED
  BY <1>3, <1>4, <1>5, <1>6 DEF SaysItsCalls

------------------------------------------------------------------------------
(* A replay is a run, with what its model and its scheduler say fixed.        *)
LEMMA ReplayInitIsInit == ReplayInit => Init
BY DEF ReplayInit

LEMMA ReplayStepIsAStep == ReplayNext => Next \/ UNCHANGED vars
BY DEF ReplayNext, Store, Load, ScriptedMessage, ServeRecorded, OwnStep, Next, Run, vars, work

(* Whatever holds of every run of the Core Runtime holds of every replay: *)
(* TraceReplayModelClient and the recordings only choose among what a    *)
(* model and a scheduler may say.                                        *)
THEOREM ReplayIsARun == ReplaySpec => Spec
<1>1. [ReplayNext]_<<vars, replayVars>> => [Next]_vars
  BY ReplayStepIsAStep
<1> QED
  BY <1>1, ReplayInitIsInit, PTL DEF ReplaySpec, Spec

\* Both logs are traces, and hold what they say.
ReplayLogs ==
  IsTrace(trace) /\ SaysItsCalls(trace) /\ IsTrace(reference) /\ SaysItsCalls(reference)

LEMMA LogsGrow == ReplayLogs /\ [T!Next]_trace /\ [R!Next]_reference => ReplayLogs'
<1> SUFFICES ASSUME ReplayLogs, [T!Next]_trace, [R!Next]_reference PROVE ReplayLogs'
  OBVIOUS
<1>1. ASSUME NEW h, NEW g, IsTrace(h), SaysItsCalls(h),
             g = h \/ \E e : Adds(h, e) /\ g = Append(h, e)
      PROVE  IsTrace(g) /\ SaysItsCalls(g)
  BY <1>1, TraceGrows, SaysMore
<1>2. trace' = trace \/ \E e : Adds(trace, e) /\ trace' = Append(trace, e)
  BY RunTraceAdds
<1>3. reference' = reference \/ \E e : Adds(reference, e) /\ reference' = Append(reference, e)
  BY RunTraceAdds
<1>4. IsTrace(trace') /\ SaysItsCalls(trace')
  BY <1>1, <1>2 DEF ReplayLogs
<1>5. IsTrace(reference') /\ SaysItsCalls(reference')
  BY <1>1, <1>3 DEF ReplayLogs
<1> QED
  BY <1>4, <1>5 DEF ReplayLogs

LEMMA ReferenceSteps == [ReplayNext]_<<vars, replayVars>> => [R!Next]_reference
BY DEF ReplayNext, Store, Load, ScriptedMessage, ServeRecorded, OwnStep, replayVars

LEMMA LogsStand == ReplaySpec => []ReplayLogs
<1>1. ReplayInit => ReplayLogs
  BY EmptyLog DEF ReplayInit, Init, ReplayLogs
<1> QED
  BY <1>1, LogsGrow, ReferenceSteps, ReplayIsARun, TraceIsARunTrace,
     PTL DEF ReplaySpec, ImplementsRunTrace, T!Spec

\* What a step of the run adds to what its trace says.
SaysNothing ==
  /\ Messages(trace') = Messages(trace) /\ Decisions(trace') = Decisions(trace)
  /\ Answered(trace') <=> Answered(trace)
SaysAction ==
  /\ pc = "act" /\ pc' = "announce" /\ outcome' = outcome
  /\ Messages(trace') = Append(Messages(trace), action)
  /\ Decisions(trace') = Append(Decisions(trace), allowed)
  /\ Answered(trace') <=> Answered(trace)
SaysAnswer ==
  /\ pc = "answer" /\ pc' = "finally" /\ outcome' = "answered"
  /\ Messages(trace') = Append(Messages(trace), <<>>)
  /\ Decisions(trace') = Decisions(trace)
  /\ Answered(trace')
SaysNoMore ==
  /\ SaysNothing
  /\ pc = "act" => pc' \in {"act", "finally"}
  /\ pc = "answer" => pc' \in {"answer", "finally"} /\ outcome' \in {outcome, "raised"}

\* What every other step does: no line, or one of another kind.
LEMMA QuietLines ==
  ASSUME TypeOK, \/ Begin \/ PersistQuery \/ StartMemory \/ Checkpoint \/ Retrieve \/ NextMessage
                 \/ EnforcePolicy \/ Announce \/ Charge \/ Dispatch \/ Execute \/ RecordObservation
                 \/ PersistFailure \/ Finally \/ Operator \/ WallClockRunsOut \/ Returned
  PROVE  /\ \/ trace' = trace
            \/ \E e \in T!Entry : trace' = Append(trace, e) /\ e.kind \notin {"action", "answer"}
         /\ pc \in {"act", "answer"} => pc' = pc /\ outcome' = outcome
<1>1. T!Query.kind = "query" /\ T!Failure.kind = "failure" /\ T!Query \in T!Entry /\ T!Failure \in T!Entry
  BY EntryTypes DEF T!Query, T!Failure
<1>2. \A c, got : T!Observation(c, got).kind = "observation"
  BY DEF T!Observation
<1>3. CASE Begin \/ StartMemory \/ Checkpoint \/ Retrieve \/ NextMessage \/ EnforcePolicy
           \/ Charge \/ Dispatch \/ Execute \/ Finally \/ Operator \/ WallClockRunsOut \/ Returned
  BY <1>3 DEF Begin, StartMemory, Checkpoint, Retrieve, NextMessage, EnforcePolicy, Charge, Dispatch,
     Execute, Finally, Operator, RequestPause, RequestResume, RequestInterrupt, Request,
     WallClockRunsOut, Returned, vars
<1>4. CASE PersistQuery \/ PersistFailure
  BY <1>1, <1>4 DEF PersistQuery, PersistFailure, Persist
<1>5. CASE Announce
  <2>1. pc = "announce" /\ action[next] \in Call
    BY <1>5, ActionCalls DEF Announce, TypeOK, CursorType
  <2>2. T!Observation(action[next], Denied) \in T!Entry
    BY <2>1, EntryTypes
  <2> QED
    BY <1>2, <1>5, <2>1, <2>2 DEF Announce, Persist
<1>6. CASE RecordObservation
  <2>1. pc = "record" /\ action[next] \in Call /\ results[action[next]] \in Outcome
    BY <1>6, ActionCalls DEF RecordObservation, TypeOK, CursorType, ApprovedAfter
  <2>2. T!Observation(action[next], results[action[next]]) \in T!Entry
    BY <2>1, EntryTypes
  <2> QED
    BY <1>2, <1>6, <2>1, <2>2 DEF RecordObservation, Persist
<1> QED
  BY <1>3, <1>4, <1>5, <1>6

LEMMA StepSays ==
  ASSUME TypeOK, Next
  PROVE  SaysNoMore \/ SaysAction \/ SaysAnswer
<1>1. trace \in Seq(T!Entry) /\ allowed \subseteq Call
  BY ActionCalls DEF TypeOK, RecordType, WorkType
<1>2. trace' = trace => SaysNothing
  BY DEF SaysNothing
<1>3. ASSUME NEW e \in T!Entry, trace' = Append(trace, e), e.kind \notin {"action", "answer"}
      PROVE  SaysNothing
  <2>1. /\ Messages(trace') = Messages(trace) /\ Decisions(trace') = Decisions(trace)
        /\ Answered(trace') <=> Answered(trace)
    BY <1>1, <1>3, MessagesAppend, DecisionsAppend, AnsweredAppend
  <2> QED
    BY <2>1 DEF SaysNothing
<1>4. CASE PersistAnswer
  <2>1. pc = "answer"
    BY <1>4 DEF PersistAnswer
  <2>2. CASE trace' = trace /\ pc' = "finally" /\ outcome' = "raised"
    BY <1>2, <2>1, <2>2 DEF SaysNoMore
  <2>3. CASE trace' = Append(trace, T!Answer) /\ pc' = "finally" /\ outcome' = "answered"
    <3>1. T!Answer \in T!Entry /\ T!Answer.kind = "answer"
      BY EntryTypes DEF T!Answer
    <3> QED
      BY <1>1, <2>1, <2>3, <3>1, MessagesAppend, DecisionsAppend, AnsweredAppend DEF SaysAnswer
  <2> QED
    BY <1>4, <2>2, <2>3 DEF PersistAnswer, Persist, Raise
<1>5. CASE PersistAction
  <2>1. pc = "act"
    BY <1>5 DEF PersistAction
  <2>2. CASE trace' = trace /\ pc' = "finally"
    BY <1>2, <2>1, <2>2 DEF SaysNoMore
  <2>3. CASE trace' = Append(trace, T!Action(action, allowed)) /\ pc' = "announce" /\ outcome' = outcome
    <3> DEFINE e == T!Action(action, allowed)
    <3>1. action \in Actions
      BY <2>1 DEF TypeOK, CursorType
    <3>2. e \in T!Entry /\ e.kind = "action" /\ e.calls = action /\ e.allowed = allowed
      BY <1>1, <3>1, EntryTypes DEF T!Action
    <3> HIDE DEF e
    <3>3. /\ Messages(trace') = Append(Messages(trace), action)
          /\ Decisions(trace') = Append(Decisions(trace), allowed)
          /\ Answered(trace') <=> Answered(trace)
      BY <1>1, <2>3, <3>2, MessagesAppend, DecisionsAppend, AnsweredAppend DEF e
    <3> QED
      BY <2>1, <2>3, <3>3 DEF SaysAction
  <2> QED
    BY <1>5, <2>2, <2>3 DEF PersistAction, Persist, Raise, Continue
<1>6. CASE \/ Begin \/ PersistQuery \/ StartMemory \/ Checkpoint \/ Retrieve \/ NextMessage
           \/ EnforcePolicy \/ Announce \/ Charge \/ Dispatch \/ Execute \/ RecordObservation
           \/ PersistFailure \/ Finally \/ Operator \/ WallClockRunsOut \/ Returned
  BY <1>2, <1>3, <1>6, QuietLines DEF SaysNoMore
<1> QED
  BY <1>4, <1>5, <1>6 DEF Next, Run

\* A run ends as its trace says.
EndsAsItSays ==
  /\ outcome = "answered" => Answered(trace)
  /\ outcome \in FailureCode => ~Answered(trace)
  /\ pc \notin {"finally", "done"} => ~Answered(trace)

LEMMA InitEnds == Init => EndsAsItSays
BY EmptyLog DEF Init, EndsAsItSays, FailureCode

LEMMA NextEnds ==
  ASSUME TypeOK, Next, EndsAsItSays PROVE EndsAsItSays'
<1>1. \/ outcome' \in {outcome, "raised"}
      \/ outcome' \in FailureCode /\ pc \notin {"answer", "finally", "done"} /\ pc' \notin {"finally", "done"}
      \/ PersistAnswer /\ outcome' = "answered"
  BY DEF Next, Run, Begin, PersistQuery, StartMemory, Checkpoint, Retrieve, NextMessage, PersistAnswer,
     EnforcePolicy, PersistAction, Announce, AfterAnnouncing, Charge, Dispatch, Execute,
     RecordObservation, PersistFailure, Finally, Operator, RequestPause, RequestResume,
     RequestInterrupt, Request, WallClockRunsOut, Returned, vars, FailWith, Raise, Continue, FailureCode
<1>2. pc \in {"finally", "done"} => pc' \in {"finally", "done"}
  BY DEF Next, Run, Begin, PersistQuery, StartMemory, Checkpoint, Retrieve, NextMessage, PersistAnswer,
     EnforcePolicy, PersistAction, Announce, Charge, Dispatch, Execute,
     RecordObservation, PersistFailure, Finally, Operator, RequestPause, RequestResume,
     RequestInterrupt, Request, WallClockRunsOut, Returned, vars
<1>3. CASE SaysAction
  BY <1>3 DEF SaysAction, EndsAsItSays
<1>4. CASE SaysAnswer
  BY <1>4 DEF SaysAnswer, EndsAsItSays, FailureCode
<1>5. CASE SaysNoMore
  <2>1. Answered(trace') <=> Answered(trace)
    BY <1>5 DEF SaysNoMore, SaysNothing
  <2>2. PersistAnswer => outcome' # "answered" \/ outcome' = outcome
    BY <1>5 DEF SaysNoMore, PersistAnswer
  <2> QED
    BY <1>1, <1>2, <2>1, <2>2 DEF EndsAsItSays, FailureCode
<1> QED
  BY <1>3, <1>4, <1>5, StepSays

LEMMA EndsAreRight == Spec => []EndsAsItSays
<1>1. EndsAsItSays /\ UNCHANGED vars => EndsAsItSays'
  BY DEF EndsAsItSays, vars
<1> QED
  BY <1>1, InitEnds, NextEnds, TypeCorrect, PTL DEF Spec

------------------------------------------------------------------------------
(* The replay reads the reference from its beginning: what it has said is the *)
(* first of what the reference says, and the script is the rest.              *)
Between == {"idle", "query", "start_memory", "loop", "retrieve", "ask"}
Deciding == {"enforce", "act"}
Executing == {"announce", "charge", "dispatch", "executing", "record"}
Ending == {"failing", "finally", "done"}

Rest(s, n) == SubSeq(s, n + 1, Len(s))

Follows ==
  LET said == Messages(trace)
      all == Messages(reference)
      n == Len(said)
  IN  /\ n <= Len(all) /\ \A i \in 1..n : said[i] = all[i]
      /\ pc \in Between => script = Rest(all, n) /\ action = <<>>
      /\ pc \in Deciding => n < Len(all) /\ script = Rest(all, n + 1) /\ action = all[n + 1]
      /\ pc = "answer" => n < Len(all) /\ script = Rest(all, n + 1) /\ all[n + 1] = <<>>
      /\ pc \in Executing => script = Rest(all, n) /\ n > 0 /\ action = said[n]

LEMMA RestOf ==
  \A S : \A s \in Seq(S) :
    /\ Rest(s, 0) = s
    /\ \A n \in 0..Len(s) :
         /\ Rest(s, n) = <<>> <=> n = Len(s)
         /\ n < Len(s) => Head(Rest(s, n)) = s[n + 1] /\ Tail(Rest(s, n)) = Rest(s, n + 1)
<1> SUFFICES ASSUME NEW S, NEW s \in Seq(S)
             PROVE  /\ Rest(s, 0) = s
                    /\ \A n \in 0..Len(s) :
                         /\ Rest(s, n) = <<>> <=> n = Len(s)
                         /\ n < Len(s) => Head(Rest(s, n)) = s[n + 1] /\ Tail(Rest(s, n)) = Rest(s, n + 1)
  OBVIOUS
<1>1. Rest(s, 0) = s
  BY DEF Rest
<1>2. ASSUME NEW n \in 0..Len(s) PROVE Rest(s, n) = <<>> <=> n = Len(s)
  <2>1. Rest(s, n) \in Seq(S) /\ Len(Rest(s, n)) = Len(s) - n
    BY DEF Rest
  <2>2. \A r \in Seq(S) : r = <<>> <=> Len(r) = 0
    OBVIOUS
  <2> QED
    BY <2>1, <2>2
<1>3. ASSUME NEW n \in 0..Len(s), n < Len(s)
      PROVE  Head(Rest(s, n)) = s[n + 1] /\ Tail(Rest(s, n)) = Rest(s, n + 1)
  BY <1>3 DEF Rest
<1> QED
  BY <1>1, <1>2, <1>3

\* How a step moves the thread.
LEMMA Moves ==
  ASSUME TypeOK, Next
  PROVE  \/ pc' \in Ending
         \/ pc \in Between /\ pc' \in Between /\ action' = action
         \/ NextMessage
         \/ pc \in Deciding /\ pc' \in Deciding /\ action' = action
         \/ pc = "act" /\ pc' = "announce" /\ action' = action
         \/ pc \in Executing /\ pc' \in Executing /\ action' = action
         \/ pc \in Executing /\ pc' = "loop" /\ action' = <<>>
         \/ pc = "answer" /\ pc' = "answer" /\ action' = action
<1>1. CASE Begin \/ PersistQuery \/ StartMemory \/ Checkpoint \/ Retrieve \/ NextMessage
  BY <1>1 DEF Begin, PersistQuery, StartMemory, Checkpoint, Retrieve, work, FailWith, Raise, Continue,
     Ending, Between
<1>2. CASE PersistAnswer \/ EnforcePolicy \/ PersistAction \/ PersistFailure \/ Finally
  BY <1>2 DEF PersistAnswer, EnforcePolicy, PersistAction, PersistFailure, Finally, work, Raise,
     Continue, Ending, Deciding
<1>3. CASE Announce
  BY <1>3 DEF Announce, AfterAnnouncing, Raise, Continue, Ending, Executing
<1>4. CASE Charge \/ Dispatch \/ Execute
  BY <1>4 DEF Charge, Dispatch, Execute, work, FailWith, Raise, Continue, Ending, Executing
<1>5. CASE RecordObservation
  BY <1>5 DEF RecordObservation, work, FailWith, Raise, Continue, Idle, Ending, Executing
<1>6. CASE Operator \/ WallClockRunsOut \/ Returned
  <2>1. pc' = pc /\ action' = action
    BY <1>6 DEF Operator, RequestPause, RequestResume, RequestInterrupt, Request, WallClockRunsOut,
       Returned, vars, work
  <2> QED
    BY <2>1 DEF TypeOK, ControlType, Ending, Between, Deciding, Executing
<1> QED
  BY <1>1, <1>2, <1>3, <1>4, <1>5, <1>6 DEF Next, Run

\* The script moves on with the messages, and nothing else does.
LEMMA ReplayMoves ==
  ASSUME ReplayNext, phase = "replaying"
  PROVE  /\ phase' = "replaying" /\ reference' = reference /\ recorded' = recorded
         /\ ScriptedMessage \/ (script' = script /\ pc # "ask") \/ UNCHANGED <<vars, script>>
         /\ Next \/ UNCHANGED vars
<1>1. CASE Over /\ UNCHANGED <<vars, replayVars>>
  BY <1>1 DEF replayVars
<1>2. CASE ScriptedMessage
  BY <1>2, ReplayStepIsAStep DEF ScriptedMessage
<1>3. CASE ServeRecorded
  BY <1>3, ReplayStepIsAStep DEF ServeRecorded, Execute
<1>4. CASE OwnStep
  BY <1>4, ReplayStepIsAStep DEF OwnStep, replayVars
<1> QED
  BY <1>1, <1>2, <1>3, <1>4 DEF ReplayNext, Store, Load

LEMMA FollowsOn ==
  ASSUME TypeOK, ReplayLogs, Follows, ReplayNext, phase = "replaying"
  PROVE  Follows'
<1> DEFINE said == Messages(trace)
           all == Messages(reference)
           n == Len(said)
           then == Messages(trace')
<1>1. said \in Seq(Seq(Call)) /\ all \in Seq(Seq(Call)) /\ n \in Nat /\ Len(all) \in Nat
  <2>1. said \in Seq(Seq(Call)) /\ all \in Seq(Seq(Call))
    BY EntryTypes, MessagesAppend DEF ReplayLogs, IsTrace
  <2> HIDE DEF said, all
  <2> QED
    BY <2>1
<1>2. Messages(reference') = all /\ phase' = "replaying"
  BY ReplayMoves
<1>3. /\ n <= Len(all) /\ \A i \in 1..n : said[i] = all[i]
      /\ pc \in Between => script = Rest(all, n) /\ action = <<>>
      /\ pc \in Deciding => n < Len(all) /\ script = Rest(all, n + 1) /\ action = all[n + 1]
      /\ pc = "answer" => n < Len(all) /\ script = Rest(all, n + 1) /\ all[n + 1] = <<>>
      /\ pc \in Executing => script = Rest(all, n) /\ n > 0 /\ action = said[n]
  BY DEF Follows
<1>4. SUFFICES
        /\ Len(then) <= Len(all) /\ \A i \in 1..Len(then) : then[i] = all[i]
        /\ pc' \in Between => script' = Rest(all, Len(then)) /\ action' = <<>>
        /\ pc' \in Deciding => Len(then) < Len(all) /\ script' = Rest(all, Len(then) + 1)
                               /\ action' = all[Len(then) + 1]
        /\ pc' = "answer" => Len(then) < Len(all) /\ script' = Rest(all, Len(then) + 1)
                             /\ all[Len(then) + 1] = <<>>
        /\ pc' \in Executing => script' = Rest(all, Len(then)) /\ Len(then) > 0
                                /\ action' = then[Len(then)]
  BY <1>2 DEF Follows
<1>5. CASE UNCHANGED <<vars, script>>
  BY <1>3, <1>5 DEF vars, work
<1>6. CASE Next /\ SaysAction
  <2>1. then = Append(said, action) /\ pc = "act" /\ pc' = "announce"
    BY <1>6 DEF SaysAction
  <2>2. script' = script
    BY <2>1, ReplayMoves DEF ScriptedMessage, NextMessage
  <2>3. action' = action
    BY <1>6, <2>1, Moves DEF Ending, Between, Deciding, Executing, NextMessage
  <2>4. action \in Seq(Call)
    BY ActionCalls
  <2> HIDE DEF said, all, then
  <2>5. Len(then) = n + 1 /\ then[n + 1] = action /\ \A i \in 1..n : then[i] = said[i]
    BY <1>1, <2>1, <2>4 DEF n
  <2>6. \A i \in 1..n + 1 : i \in 1..n \/ i = n + 1
    BY <1>1
  <2>7. n < Len(all) /\ script = Rest(all, n + 1) /\ action = all[n + 1]
    BY <1>3, <2>1 DEF Deciding
  <2>8. Len(then) <= Len(all) /\ \A i \in 1..Len(then) : then[i] = all[i]
    BY <1>1, <1>3, <2>5, <2>6, <2>7
  <2>9. Len(then) > 0 /\ action' = then[Len(then)]
    BY <1>1, <2>3, <2>5
  <2>10. script' = Rest(all, Len(then))
    BY <2>2, <2>5, <2>7
  <2> QED
    BY <2>1, <2>8, <2>9, <2>10 DEF Between, Deciding, Executing
<1>7. CASE SaysAnswer
  <2> DEFINE none == <<>>
  <2>1. then = Append(said, none) /\ pc = "answer" /\ pc' = "finally"
    BY <1>7 DEF SaysAnswer
  <2>2. none \in Seq(Call)
    OBVIOUS
  <2>5. n < Len(all) /\ all[n + 1] = none
    BY <1>3, <2>1
  <2> HIDE DEF said, all, then, none
  <2>3. Len(then) = n + 1 /\ then[n + 1] = none /\ \A i \in 1..n : then[i] = said[i]
    BY <1>1, <2>1, <2>2 DEF n
  <2>4. \A i \in 1..n + 1 : i \in 1..n \/ i = n + 1
    BY <1>1
  <2>6. Len(then) <= Len(all) /\ \A i \in 1..Len(then) : then[i] = all[i]
    <3>1. \A i \in 1..n : said[i] = all[i]
      BY <1>3
    <3>2. Len(then) = n + 1 /\ n + 1 <= Len(all)
      BY <1>1, <2>3, <2>5
    <3>3. \A i \in 1..n + 1 : then[i] = all[i]
      BY <2>3, <2>4, <2>5, <3>1
    <3> HIDE DEF n
    <3> QED
      BY <3>2, <3>3
  <2> QED
    BY <2>1, <2>6 DEF Between, Deciding, Executing
<1>8. CASE Next /\ SaysNoMore /\ ~NextMessage
  <2>1. then = said
    BY <1>8 DEF SaysNoMore, SaysNothing
  <2>2. script' = script
    BY <1>8, ReplayMoves DEF ScriptedMessage
  <2>3. ~(pc = "act" /\ pc' = "announce")
    BY <1>8 DEF SaysNoMore
  <2> HIDE DEF said, all, then
  <2>4. CASE pc' \in Ending
    BY <1>3, <2>1, <2>4 DEF Between, Deciding, Executing, Ending, n
  <2>5. CASE pc \in Between /\ pc' \in Between /\ action' = action
    BY <1>3, <2>1, <2>2, <2>5 DEF Between, Deciding, Executing, n
  <2>6. CASE pc \in Deciding /\ pc' \in Deciding /\ action' = action
    BY <1>3, <2>1, <2>2, <2>6 DEF Between, Deciding, Executing, n
  <2>7. CASE pc \in Executing /\ pc' \in Executing /\ action' = action
    BY <1>3, <2>1, <2>2, <2>7 DEF Between, Deciding, Executing, n
  <2>8. CASE pc \in Executing /\ pc' = "loop" /\ action' = <<>>
    BY <1>3, <2>1, <2>2, <2>8 DEF Between, Deciding, Executing, n
  <2>9. CASE pc = "answer" /\ pc' = "answer" /\ action' = action
    BY <1>3, <2>1, <2>2, <2>9 DEF Between, Deciding, Executing, n
  <2> QED
    BY <1>8, <2>3, <2>4, <2>5, <2>6, <2>7, <2>8, <2>9, Moves
<1>9. CASE ScriptedMessage
  <2>1. /\ pc = "ask" /\ trace' = trace /\ then = said
        /\ script = Rest(all, n) /\ action = <<>> /\ n <= Len(all)
    BY <1>3, <1>9 DEF ScriptedMessage, NextMessage, Between
  <2>2. CASE Exhausted
    BY <1>3, <2>1, <2>2 DEF Exhausted, Between, Deciding, Executing
  <2>3. CASE PopLeft
    <3>1. n < Len(all) /\ Head(script) = all[n + 1] /\ script' = Rest(all, n + 1)
      <4> HIDE DEF said, all, then
      <4>1. n \in 0..Len(all)
        BY <1>1, <2>1
      <4>2. /\ Rest(all, n) = <<>> <=> n = Len(all)
            /\ n < Len(all) => Head(Rest(all, n)) = all[n + 1] /\ Tail(Rest(all, n)) = Rest(all, n + 1)
        BY <1>1, <4>1, RestOf
      <4> QED
        BY <1>1, <2>1, <2>3, <4>2 DEF PopLeft
    <3>2. CASE Head(script) = <<>>
      BY <1>3, <2>1, <2>3, <3>1, <3>2 DEF PopLeft, Between, Deciding, Executing
    <3>3. CASE Head(script) # <<>>
      <4>1. action' = all[n + 1] /\ action' # action
        BY <2>1, <2>3, <3>1, <3>3 DEF PopLeft
      <4>2. pc' = "enforce"
        BY <1>9, <4>1 DEF ScriptedMessage, NextMessage, Raise, Continue
      <4> QED
        BY <1>3, <2>1, <3>1, <4>1, <4>2 DEF Between, Deciding, Executing
    <3> QED
      BY <3>2, <3>3
  <2> QED
    BY <1>9, <2>2, <2>3 DEF ScriptedMessage
<1>10. NextMessage /\ ReplayNext => ScriptedMessage \/ UNCHANGED <<vars, script>>
  BY ReplayMoves DEF NextMessage
<1> QED
  BY <1>5, <1>6, <1>7, <1>8, <1>9, <1>10, ReplayMoves, StepSays

------------------------------------------------------------------------------
(* Where the actions of a log are.                                            *)
ActPlaces(at, h) ==
  /\ at \in [1..Len(Acts(h)) -> 1..Len(h)]
  /\ \A i, j \in 1..Len(Acts(h)) : i < j => at[i] < at[j]
  /\ \A i \in 1..Len(Acts(h)) : Acts(h)[i] = h[at[i]] /\ h[at[i]].kind = "action"
  /\ \A k \in 1..Len(h) : h[k].kind = "action" => \E i \in 1..Len(Acts(h)) : at[i] = k

LEMMA ActsPlaced == \A h \in Seq(T!Entry) : \E at : ActPlaces(at, h)
<1> SUFFICES ASSUME NEW h \in Seq(T!Entry) PROVE \E at : ActPlaces(at, h)
  OBVIOUS
<1> DEFINE C == {e \in ToSet(h) : e.kind \in {"action"}}
<1>1. PICK at : Places(at, h, C)
  <2> HIDE DEF C
  <2> QED
    BY SelectedPlaces
<1>2. Acts(h) = Selected(h, C)
  BY DEF Acts, Kept
<1>3. \A k \in 1..Len(h) : h[k].kind = "action" => h[k] \in C
  BY DEF ToSet
<1>4. /\ Acts(h) \in Seq(T!Entry) /\ \A i \in 1..Len(Acts(h)) : Acts(h)[i].kind = "action"
  BY EntryTypes, ActsAppend
<1> HIDE DEF C
<1>5. ActPlaces(at, h)
  BY <1>1, <1>2, <1>3, <1>4 DEF Places, ActPlaces
<1> QED
  BY <1>5

\* A replay of a reference that answered has the next message as long as it has
\* not answered itself.
LEMMA NotExhausted ==
  ASSUME ReplayLogs, Follows, Answered(reference), ~Answered(trace)
  PROVE  /\ Len(Messages(trace)) \in Nat /\ Len(Messages(trace)) < Len(Messages(reference))
         /\ Len(Messages(trace)) = Len(Decisions(trace))
         /\ Len(Messages(reference)) = Len(Decisions(reference)) + 1
         /\ \A i \in 1..Len(Messages(trace)) :
              i \in 1..Len(Acts(reference)) /\ Messages(trace)[i] = Acts(reference)[i].calls
<1> DEFINE said == Messages(trace)
           all == Messages(reference)
           calls == CallsOf(reference)
           n == Len(said)
           none == <<>>
<1>1. /\ said = CallsOf(trace) /\ said \in Seq(Actions) /\ n = Len(Decisions(trace))
      /\ trace \in Seq(T!Entry) /\ reference \in Seq(T!Entry)
  BY EntryTypes, CallsAppend, DecisionsAppend DEF ReplayLogs, IsTrace, SaysItsCalls
<1>2. /\ all = Append(calls, none) /\ calls \in Seq(Actions)
      /\ Len(calls) = Len(Decisions(reference)) /\ Len(calls) = Len(Acts(reference))
  BY EntryTypes, CallsAppend, DecisionsAppend DEF ReplayLogs, IsTrace, SaysItsCalls
<1>3. none \notin Actions /\ Actions \subseteq Seq(Call) /\ none \in Seq(Call)
  BY CallsOfActions
<1>4. n <= Len(all) /\ \A i \in 1..n : said[i] = all[i]
  BY DEF Follows
<1>5. \A i \in 1..Len(Acts(reference)) : calls[i] = Acts(reference)[i].calls
  <2>1. Acts(reference) \in Seq(T!Entry)
    BY <1>1, EntryTypes, ActsAppend
  <2> QED
    BY <2>1 DEF CallsOf
<1> HIDE DEF said, all, calls, none
<1>6. calls \in Seq(Seq(Call)) /\ Len(calls) \in Nat
  BY <1>2, <1>3
<1>7. /\ Len(all) = Len(calls) + 1 /\ all[Len(calls) + 1] = none
      /\ \A i \in 1..Len(calls) : all[i] = calls[i]
  BY <1>2, <1>3, <1>6
<1>8. n \in Nat /\ \A i \in 1..n : said[i] \in Actions
  BY <1>1
<1>9. n # Len(calls) + 1
  <2>1. n = Len(calls) + 1 => Len(calls) + 1 \in 1..n
    BY <1>6
  <2> QED
    BY <1>3, <1>4, <1>7, <1>8, <2>1
<1>10. n <= Len(calls)
  BY <1>4, <1>6, <1>7, <1>8, <1>9
<1>11. \A i \in 1..n : i \in 1..Len(calls) /\ said[i] = calls[i]
  BY <1>4, <1>6, <1>7, <1>8, <1>10
<1> QED
  BY <1>1, <1>2, <1>5, <1>6, <1>7, <1>8, <1>10, <1>11 DEF said, all

\* In a log that ends with an answer, every call of every action is observed.
LEMMA AllObservedIn ==
  \A h : IsTrace(h) /\ Concluded(h) =>
    \A i \in 1..Len(Acts(h)) : \A c \in ToSet(Acts(h)[i].calls) :
      \E j \in DOMAIN h : T!Observes(h[j], c)
<1> SUFFICES ASSUME NEW h, IsTrace(h), Concluded(h), NEW i \in 1..Len(Acts(h)),
                    NEW c \in ToSet(Acts(h)[i].calls)
             PROVE  \E j \in DOMAIN h : T!Observes(h[j], c)
  OBVIOUS
<1>1. h \in Seq(T!Entry) /\ DOMAIN h = 1..Len(h) /\ Len(h) \in Nat
  BY DEF IsTrace
<1>2. PICK at : ActPlaces(at, h)
  BY <1>1, ActsPlaced
<1>3. PICK k \in 1..Len(h) : Acts(h)[i] = h[k] /\ h[k].kind = "action"
  BY <1>2 DEF ActPlaces
<1>4. Len(h) \in DOMAIN h /\ h[Len(h)].kind = "answer" /\ k < Len(h)
  BY <1>1, <1>3 DEF Concluded
<1>5. AnsweredBefore(h, k, Len(h))
  BY <1>1, <1>3, <1>4 DEF IsTrace
<1>6. PICK j \in DOMAIN h : Serves(h, k, j) /\ h[j].call = c
  BY <1>3, <1>5 DEF AnsweredBefore
<1> QED
  BY <1>6 DEF Serves, T!Observes

Loaded == recorded = Recordings(reference) /\ ~ObservedTwice(reference)
Suffices == Answered(reference) => replayError = "none"

\* A replay of a reference that answered finds a recording of every call it is
\* to execute.
LEMMA NothingMissing ==
  ASSUME TypeOK, ReplayLogs, Follows, EndsAsItSays, Loaded, Answered(reference), pc = "executing"
  PROVE  allowed \subseteq DOMAIN recorded
<1> SUFFICES ASSUME NEW c \in allowed PROVE c \in DOMAIN recorded
  OBVIOUS
<1> DEFINE n == Len(Messages(trace))
<1>1. ~Answered(trace)
  BY DEF EndsAsItSays
<1>2. n > 0 /\ action = Messages(trace)[n]
  BY DEF Follows, Executing
<1>3. n \in 1..Len(Acts(reference)) /\ action = Acts(reference)[n].calls
  BY <1>1, <1>2, NotExhausted
<1>4. c \in ToSet(action) /\ c \in Call
  BY ActionCalls DEF TypeOK, WorkType
<1>5. IsTrace(reference) /\ Concluded(reference)
  BY DEF ReplayLogs, SaysItsCalls
<1>6. PICK j \in DOMAIN reference : T!Observes(reference[j], c)
  BY <1>3, <1>4, <1>5, AllObservedIn
<1>7. c \in ObservedCalls(reference)
  BY <1>4, <1>6 DEF ObservedCalls, ToSet, R!Observes, T!Observes
<1> QED
  BY <1>7 DEF Loaded, Recordings

LEMMA SufficesOn ==
  ASSUME TypeOK, ReplayLogs, Follows, EndsAsItSays, Loaded, Suffices, ReplayNext, phase = "replaying"
  PROVE  Suffices'
<1> SUFFICES ASSUME Answered(reference') PROVE replayError' = "none"
  BY DEF Suffices
<1>1. Answered(reference) /\ replayError = "none"
  BY ReplayMoves DEF Suffices
<1>2. CASE UNCHANGED replayError
  BY <1>1, <1>2
<1>3. CASE ScriptedMessage
  <2>1. pc = "ask" /\ ~Answered(trace)
    BY <1>3 DEF ScriptedMessage, NextMessage, EndsAsItSays
  <2> DEFINE n == Len(Messages(trace))
             all == Messages(reference)
  <2>2. n \in Nat /\ n < Len(all)
    BY <1>1, <2>1, NotExhausted
  <2>3. all \in Seq(Seq(Call))
    BY EntryTypes, MessagesAppend DEF ReplayLogs, IsTrace
  <2>4. script = Rest(all, n)
    BY <2>1 DEF Follows, Between
  <2> HIDE DEF n, all
  <2>5. n \in 0..Len(all) /\ n # Len(all)
    BY <2>2, <2>3
  <2>6. script # <<>>
    BY <2>3, <2>4, <2>5, RestOf
  <2> QED
    BY <1>1, <1>3, <2>6 DEF ScriptedMessage, PopLeft, Exhausted
<1>4. CASE ServeRecorded
  <2>1. allowed \subseteq DOMAIN recorded
    BY <1>1, <1>4, NothingMissing DEF ServeRecorded, Execute
  <2> QED
    BY <1>1, <1>4, <2>1 DEF ServeRecorded
<1> QED
  BY <1>2, <1>3, <1>4 DEF ReplayNext, Store, Load, OwnStep, replayVars

\* A replay observes of an executed call what was recorded of it.
AsRecorded ==
  /\ pc = "record" => \A c \in allowed : c \in DOMAIN recorded /\ results[c] = recorded[c]
  /\ \A j \in DOMAIN trace : trace[j].kind = "observation" /\ trace[j].got # Denied =>
       trace[j].call \in DOMAIN recorded /\ trace[j].got = recorded[trace[j].call]

LEMMA AsRecordedOn ==
  ASSUME TypeOK, AsRecorded, ReplayNext, phase = "replaying"
  PROVE  AsRecorded'
<1>1. recorded' = recorded /\ (Next \/ UNCHANGED vars)
  BY ReplayMoves
<1>2. trace \in Seq(T!Entry) /\ DOMAIN trace = 1..Len(trace) /\ Len(trace) \in Nat
  BY DEF TypeOK, RecordType
<1>3. pc' = "record" => \A c \in allowed' : c \in DOMAIN recorded /\ results'[c] = recorded[c]
  <2>1. CASE ServeRecorded
    <3>1. pc' = "record" => allowed' = allowed /\ allowed \subseteq DOMAIN recorded
                            /\ results' = [c \in allowed |-> recorded[c]]
      BY <2>1 DEF ServeRecorded, Execute, FailWith, Raise
    <3> QED
      BY <3>1
  <2>2. CASE OwnStep
    <3>1. pc' = "record" => pc = "record" /\ allowed' = allowed /\ results' = results
      BY <2>2 DEF OwnStep, Run, Begin, PersistQuery, StartMemory, Checkpoint, Retrieve, NextMessage,
         PersistAnswer, EnforcePolicy, PersistAction, Announce, AfterAnnouncing, Charge, Dispatch,
         Execute, RecordObservation, PersistFailure, Finally, WallClockRunsOut, FailWith, Raise,
         Continue, Idle, work
    <3> QED
      BY <3>1 DEF AsRecorded
  <2>3. CASE ScriptedMessage
    BY <2>3 DEF ScriptedMessage, NextMessage, Raise, Continue
  <2>4. CASE UNCHANGED vars
    BY <2>4 DEF vars, work, AsRecorded
  <2> QED
    BY <2>1, <2>2, <2>3, <2>4 DEF ReplayNext, Store, Load
<1>4. \/ trace' = trace
      \/ \E e \in T!Entry : /\ trace' = Append(trace, e)
                            /\ e.kind = "observation" /\ e.got # Denied =>
                                 e.call \in DOMAIN recorded /\ e.got = recorded[e.call]
  <2>1. CASE RecordObservation
    <3> DEFINE c == action[next]
               e == T!Observation(c, results[c])
    <3>1. pc = "record" /\ c \in allowed /\ c \in Call /\ results[c] \in Outcome
      BY <2>1, ActionCalls DEF RecordObservation, TypeOK, CursorType, ApprovedAfter
    <3>2. e \in T!Entry /\ e.call = c /\ e.got = results[c]
      BY <3>1, EntryTypes DEF T!Observation
    <3>3. trace' = trace \/ trace' = Append(trace, e)
      BY <2>1 DEF RecordObservation, Persist
    <3>4. c \in DOMAIN recorded /\ results[c] = recorded[c]
      BY <3>1 DEF AsRecorded
    <3> HIDE DEF e, c
    <3> QED
      BY <3>2, <3>3, <3>4
  <2>2. CASE Announce
    <3> DEFINE e == T!Observation(action[next], Denied)
    <3>1. action[next] \in Call
      BY <2>2, ActionCalls DEF Announce, TypeOK, CursorType
    <3>2. e \in T!Entry /\ e.got = Denied
      BY <3>1, EntryTypes DEF T!Observation
    <3>3. trace' = trace \/ trace' = Append(trace, e)
      BY <2>2 DEF Announce, Persist
    <3> HIDE DEF e
    <3> QED
      BY <3>2, <3>3
  <2>3. CASE PersistAction
    <3> DEFINE e == T!Action(action, allowed)
    <3>1. action \in Actions /\ allowed \subseteq Call
      BY <2>3, ActionCalls DEF PersistAction, TypeOK, CursorType, WorkType
    <3>2. e \in T!Entry /\ e.kind = "action"
      BY <3>1, EntryTypes DEF T!Action
    <3>3. trace' = trace \/ trace' = Append(trace, e)
      BY <2>3 DEF PersistAction, Persist
    <3> HIDE DEF e
    <3> QED
      BY <3>2, <3>3
  <2>4. CASE PersistQuery \/ PersistAnswer \/ PersistFailure
    <3>1. /\ T!Query \in T!Entry /\ T!Answer \in T!Entry /\ T!Failure \in T!Entry
          /\ T!Query.kind = "query" /\ T!Answer.kind = "answer" /\ T!Failure.kind = "failure"
      BY EntryTypes DEF T!Query, T!Answer, T!Failure
    <3> QED
      BY <2>4, <3>1 DEF PersistQuery, PersistAnswer, PersistFailure, Persist
  <2>5. CASE \/ Begin \/ StartMemory \/ Checkpoint \/ Retrieve \/ NextMessage \/ EnforcePolicy
             \/ Charge \/ Dispatch \/ Execute \/ Finally \/ Operator \/ WallClockRunsOut \/ Returned
             \/ UNCHANGED vars
    BY <2>5 DEF Begin, StartMemory, Checkpoint, Retrieve, NextMessage, EnforcePolicy, Charge, Dispatch,
       Execute, Finally, Operator, RequestPause, RequestResume, RequestInterrupt, Request,
       WallClockRunsOut, Returned, vars
  <2> QED
    BY <1>1, <2>1, <2>2, <2>3, <2>4, <2>5 DEF Next, Run
<1>5. ASSUME NEW j \in DOMAIN trace', trace'[j].kind = "observation", trace'[j].got # Denied
      PROVE  trace'[j].call \in DOMAIN recorded /\ trace'[j].got = recorded[trace'[j].call]
  <2>1. CASE trace' = trace
    BY <1>5, <2>1 DEF AsRecorded
  <2>2. ASSUME NEW e \in T!Entry, trace' = Append(trace, e),
               e.kind = "observation" /\ e.got # Denied =>
                 e.call \in DOMAIN recorded /\ e.got = recorded[e.call]
        PROVE  trace'[j].call \in DOMAIN recorded /\ trace'[j].got = recorded[trace'[j].call]
    <3>1. (j \in DOMAIN trace /\ trace'[j] = trace[j]) \/ trace'[j] = e
      BY <1>2, <2>2
    <3> QED
      BY <1>5, <2>2, <3>1 DEF AsRecorded
  <2> QED
    BY <1>4, <2>1, <2>2
<1> QED
  BY <1>1, <1>3, <1>5 DEF AsRecorded

------------------------------------------------------------------------------
(* A replay begins where a run begins, with the whole script before it.       *)
Fresh ==
  /\ pc = "idle" /\ outcome = "none" /\ trace = <<>> /\ action = <<>>
  /\ steps = 0 /\ toolCalls = 0 /\ replayError = "none"

ReplayInv ==
  /\ phase \in {"storing", "replaying", "refused"}
  /\ phase # "replaying" => Fresh
  /\ phase = "replaying" => Loaded /\ Follows /\ AsRecorded /\ Suffices

LEMMA LoadedFresh ==
  ASSUME ReplayLogs, Fresh, Load, phase' = "replaying"
  PROVE  Fresh' /\ Loaded' /\ Follows' /\ AsRecorded' /\ Suffices'
<1>1. /\ script' = Messages(reference) /\ recorded' = Recordings(reference)
      /\ ~ObservedTwice(reference) /\ reference' = reference
  BY DEF Load
<1>2. Fresh'
  BY DEF Fresh, Load, vars, work, meter
<1>3. Loaded'
  BY <1>1 DEF Loaded
<1>4. Follows'
  <2> DEFINE all == Messages(reference)
  <2>1. all \in Seq(Seq(Call))
    BY EntryTypes, MessagesAppend DEF ReplayLogs, IsTrace
  <2>2. Messages(trace') = <<>> /\ Messages(reference') = all
    BY <1>1, <1>2, EmptyLog DEF Fresh
  <2>3. script' = all /\ pc' = "idle" /\ action' = <<>>
    BY <1>1, <1>2 DEF Fresh
  <2> HIDE DEF all
  <2>4. script' = Rest(all, 0)
    BY <2>1, <2>3, RestOf
  <2>5. Len(<<>>) = 0 /\ 0 <= Len(all)
    BY <2>1
  <2> QED
    BY <2>2, <2>3, <2>4, <2>5 DEF Follows, Between, Deciding, Executing
<1>5. AsRecorded'
  <2>1. trace' = <<>> /\ pc' = "idle" /\ DOMAIN <<>> = {}
    BY <1>2 DEF Fresh
  <2> QED
    BY <2>1 DEF AsRecorded
<1>6. Suffices'
  BY <1>2 DEF Fresh, Suffices
<1> QED
  BY <1>2, <1>3, <1>4, <1>5, <1>6

LEMMA LoadedOn ==
  ASSUME Loaded, ReplayNext, phase = "replaying" PROVE Loaded'
<1>1. recorded' = recorded /\ reference' = reference
  BY ReplayMoves
<1> QED
  BY <1>1 DEF Loaded

LEMMA ReplayInvOn ==
  ASSUME TypeOK, ReplayLogs, EndsAsItSays, ReplayInv, [ReplayNext]_<<vars, replayVars>>
  PROVE  ReplayInv'
<1>1. CASE UNCHANGED <<vars, replayVars>>
  <2>1. ReplayInv' <=> ReplayInv
    BY <1>1 DEF ReplayInv, Fresh, Loaded, Follows, AsRecorded, Suffices, vars, work, meter, replayVars
  <2> QED
    BY <2>1
<1>2. CASE ReplayNext /\ phase = "replaying"
  <2>1. phase' = "replaying"
    BY <1>2, ReplayMoves
  <2> QED
    BY <1>2, <2>1, LoadedOn, FollowsOn, AsRecordedOn, SufficesOn DEF ReplayInv
<1>3. CASE Store
  BY <1>3 DEF Store, ReplayInv, Fresh, vars, work, meter
<1>4. CASE Load
  <2>1. Fresh /\ phase' \in {"replaying", "refused"}
    BY <1>4 DEF Load, ReplayInv
  <2>2. CASE phase' = "refused"
    BY <1>4, <2>1, <2>2 DEF Load, ReplayInv, Fresh, vars, work, meter
  <2>3. CASE phase' = "replaying"
    BY <1>4, <2>1, <2>3, LoadedFresh DEF ReplayInv
  <2> QED
    BY <2>1, <2>2, <2>3
<1> QED
  BY <1>1, <1>2, <1>3, <1>4 DEF ReplayNext

LEMMA ReplayStands == ReplaySpec => []ReplayInv
<1>1. ReplayInit => ReplayInv
  BY DEF ReplayInit, Init, ReplayInv, Fresh
<1> QED
  BY <1>1, ReplayInvOn, ReplayIsARun, TypeCorrect, LogsStand, EndsAreRight, PTL DEF ReplaySpec

(* The trace of a run that answered is complete: its replay asks neither    *)
(* for a message nor for an observation that is not there, whatever policy  *)
(* and gate decide this time.                                               *)
THEOREM ReferenceSuffices == ReplaySpec => []AnsweredReferenceSuffices
<1>1. ReplayInv => AnsweredReferenceSuffices
  BY DEF ReplayInv, Fresh, Suffices, AnsweredReferenceSuffices
<1> QED
  BY <1>1, ReplayStands, PTL

------------------------------------------------------------------------------
(* The meter counts what the trace says: one step for each message, one tool  *)
(* call for each call let through.                                            *)
Grants(d) == UNION {{i} \X d[i] : i \in DOMAIN d}

LEMMA GrantsFinite ==
  ASSUME NEW D, NEW d \in Seq(D), \A i \in DOMAIN d : IsFiniteSet(d[i])
  PROVE  IsFiniteSet(Grants(d)) /\ Cardinality(Grants(d)) \in Nat
<1> DEFINE G == {{i} \X d[i] : i \in DOMAIN d}
           f == [i \in DOMAIN d |-> {i} \X d[i]]
<1>1. IsFiniteSet(DOMAIN d)
  <2>1. DOMAIN d = 1..Len(d) /\ Len(d) \in Int /\ 1 \in Int
    OBVIOUS
  <2> QED
    BY <2>1, FS_Interval
<1>2. f \in Surjection(DOMAIN d, G)
  BY DEF Surjection
<1>3. IsFiniteSet(G)
  <2> HIDE DEF f, G
  <2> QED
    BY <1>1, <1>2, FS_Surjection
<1>4. \A i \in DOMAIN d : IsFiniteSet({i} \X d[i])
  BY FS_Singleton, FS_Product
<1>5. IsFiniteSet(UNION G)
  <2>1. \A t \in G : IsFiniteSet(t)
    BY <1>4
  <2> HIDE DEF G
  <2> QED
    BY <1>3, <2>1, FS_UNION
<1> QED
  BY <1>5, FS_CardinalityType DEF Grants

LEMMA GrantsAppend ==
  ASSUME NEW D, NEW d \in Seq(D), NEW s \in D, IsFiniteSet(s), \A i \in DOMAIN d : IsFiniteSet(d[i])
  PROVE  Cardinality(Grants(Append(d, s))) = Cardinality(Grants(d)) + Cardinality(s)
<1> DEFINE n == Len(d)
           g == Append(d, s)
           new == {n + 1} \X s
<1>1. /\ n \in Nat /\ DOMAIN d = 1..n /\ DOMAIN g = 1..n + 1 /\ g[n + 1] = s
      /\ \A i \in 1..n : g[i] = d[i]
      /\ \A i \in 1..n + 1 : i \in 1..n \/ i = n + 1
  OBVIOUS
<1>2. IsFiniteSet(Grants(d)) /\ Cardinality(Grants(d)) \in Nat
  BY GrantsFinite
<1>3. IsFiniteSet(new) /\ Cardinality(new) = Cardinality(s) /\ Cardinality(s) \in Nat
  <2>1. IsFiniteSet({n + 1}) /\ Cardinality({n + 1}) = 1
    BY FS_Singleton
  <2>2. IsFiniteSet(new) /\ Cardinality(new) = Cardinality({n + 1}) * Cardinality(s)
    BY <2>1, FS_Product
  <2>3. Cardinality(s) \in Nat
    BY FS_CardinalityType
  <2> QED
    BY <2>1, <2>2, <2>3
<1> HIDE DEF g, n
<1>4. Grants(g) = Grants(d) \cup new
  <2>1. Grants(g) \subseteq Grants(d) \cup new
    <3> SUFFICES ASSUME NEW x \in Grants(g) PROVE x \in Grants(d) \cup new
      OBVIOUS
    <3>1. PICK i \in DOMAIN g : x \in {i} \X g[i]
      BY DEF Grants
    <3> QED
      BY <1>1, <3>1 DEF Grants
  <2>2. Grants(d) \subseteq Grants(g)
    BY <1>1 DEF Grants
  <2>3. new \subseteq Grants(g)
    BY <1>1 DEF Grants
  <2> QED
    BY <2>1, <2>2, <2>3
<1>5. Grants(d) \cap new = {}
  <2> SUFFICES ASSUME NEW x \in Grants(d), x \in new PROVE FALSE
    OBVIOUS
  <2>1. PICK i \in 1..n : x \in {i} \X d[i]
    BY <1>1 DEF Grants
  <2>2. x[1] = i /\ x[1] = n + 1
    BY <2>1
  <2> QED
    BY <1>1, <2>2
<1> HIDE DEF new
<1>6. Cardinality(Grants(d) \cup new) = Cardinality(Grants(d)) + Cardinality(new)
  <2>1. /\ Cardinality(Grants(d) \cup new) =
             Cardinality(Grants(d)) + Cardinality(new) - Cardinality(Grants(d) \cap new)
    BY <1>2, <1>3, FS_Union
  <2>2. Cardinality(Grants(d) \cap new) = 0
    BY <1>5, FS_EmptySet, Zenon
  <2> QED
    BY <1>2, <1>3, <2>1, <2>2
<1> QED
  BY <1>3, <1>4, <1>6 DEF g

LEMMA DecisionsFinite ==
  \A h : IsTrace(h) =>
    /\ Decisions(h) \in Seq(SUBSET Call)
    /\ \A i \in DOMAIN Decisions(h) : IsFiniteSet(Decisions(h)[i])
<1> SUFFICES ASSUME NEW h, IsTrace(h)
             PROVE  /\ Decisions(h) \in Seq(SUBSET Call)
                    /\ \A i \in DOMAIN Decisions(h) : IsFiniteSet(Decisions(h)[i])
  OBVIOUS
<1>1. h \in Seq(T!Entry) /\ T!Query \in T!Entry
  BY EntryTypes DEF IsTrace
<1>2. /\ Decisions(h) \in Seq(SUBSET Call) /\ Len(Decisions(h)) = Len(Acts(h))
      /\ Acts(h) \in Seq(T!Entry)
  BY <1>1, DecisionsAppend, ActsAppend
<1>3. Decisions(h) = [i \in DOMAIN Acts(h) |-> Acts(h)[i].allowed]
  <2>1. {e \in ToSet(h) : e.kind = "action"} = {e \in ToSet(h) : e.kind \in {"action"}}
    OBVIOUS
  <2> QED
    BY <2>1 DEF Decisions, Acts, Kept
<1>4. PICK at : ActPlaces(at, h)
  BY <1>1, ActsPlaced
<1>5. ASSUME NEW i \in DOMAIN Acts(h) PROVE IsFiniteSet(Acts(h)[i].allowed)
  <2>1. i \in 1..Len(Acts(h))
    BY <1>2
  <2>2. PICK k \in 1..Len(h) : Acts(h)[i] = h[k] /\ h[k].kind = "action"
    BY <1>4, <2>1 DEF ActPlaces
  <2>3. h[k] \in T!Entry /\ k \in DOMAIN h
    BY <1>1
  <2>4. h[k].calls \in Seq(Call) /\ h[k].allowed \subseteq ToSet(h[k].calls)
    BY <2>2, <2>3, EntryFields, CallsOfActions DEF IsTrace
  <2> DEFINE a == h[k].calls
  <2>5. IsFiniteSet(ToSet(a))
    <3>1. IsFiniteSet(DOMAIN a)
      <4>1. DOMAIN a = 1..Len(a) /\ Len(a) \in Int /\ 1 \in Int
        BY <2>4
      <4> QED
        BY <4>1, FS_Interval
    <3> DEFINE f == [j \in DOMAIN a |-> a[j]]
    <3>2. f \in Surjection(DOMAIN a, ToSet(a))
      BY DEF Surjection, ToSet
    <3> HIDE DEF f, a
    <3> QED
      BY <3>1, <3>2, FS_Surjection
  <2> QED
    BY <2>2, <2>4, <2>5, FS_Subset
<1> QED
  BY <1>2, <1>3, <1>5

Preparing == {"idle", "query", "start_memory", "loop"}
InStep == {"retrieve", "ask", "answer", "enforce", "act"}
Granting == {"announce", "charge"}
Granted == {"dispatch", "executing", "record"}

MeterTells ==
  /\ pc \in Preparing \cup Granting \cup Granted => steps = Len(Messages(trace))
  /\ pc \in InStep => steps = Len(Messages(trace)) + 1
  /\ pc \in Granting => toolCalls + Cardinality(allowed) = ApprovedCalls(trace)
  /\ pc \in Preparing \cup InStep \cup Granted => toolCalls = ApprovedCalls(trace)

LEMMA MeterMoves ==
  ASSUME TypeOK, Next
  PROVE  \/ pc' \in Ending
         \/ /\ steps' = steps /\ toolCalls' = toolCalls
            /\ \/ pc \in Preparing /\ pc' \in Preparing
               \/ pc \in InStep /\ pc' \in InStep
               \/ pc \in Granting /\ pc' \in Granting /\ allowed' = allowed
               \/ pc = "act" /\ pc' = "announce" /\ allowed' = allowed
               \/ pc \in Granting /\ pc' = "loop" /\ allowed = {}
               \/ pc \in Granted /\ pc' \in Granted \cup {"loop"}
         \/ pc = "loop" /\ pc' = "retrieve" /\ steps' = steps + 1 /\ toolCalls' = toolCalls
         \/ pc = "charge" /\ pc' = "dispatch" /\ steps' = steps
            /\ toolCalls' = toolCalls + Cardinality(allowed)
<1>1. CASE Begin \/ PersistQuery \/ StartMemory \/ Checkpoint \/ Retrieve \/ NextMessage
  BY <1>1 DEF Begin, PersistQuery, StartMemory, Checkpoint, Retrieve, NextMessage, meter, FailWith, Raise,
     Continue, Ending, Preparing, InStep
<1>2. CASE PersistAnswer \/ EnforcePolicy \/ PersistFailure \/ Finally
  BY <1>2 DEF PersistAnswer, EnforcePolicy, PersistFailure, Finally, meter, Raise,
     Continue, Ending, InStep
<1>3. CASE PersistAction
  BY <1>3 DEF PersistAction, meter, work, Raise, Continue, Ending
<1>4. CASE Announce
  BY <1>4 DEF Announce, AfterAnnouncing, meter, Raise, Continue, Ending, Granting
<1>5. CASE Charge
  BY <1>5 DEF Charge, Approvals, FailWith, Continue, Ending
<1>6. CASE Dispatch \/ Execute \/ RecordObservation
  BY <1>6 DEF Dispatch, Execute, RecordObservation, meter, FailWith, Raise, Continue, Ending, Granted
<1>7. CASE Operator \/ WallClockRunsOut \/ Returned
  <2>1. pc' = pc /\ steps' = steps /\ toolCalls' = toolCalls /\ allowed' = allowed
    BY <1>7 DEF Operator, RequestPause, RequestResume, RequestInterrupt, Request, WallClockRunsOut,
       Returned, vars, work, meter
  <2> QED
    BY <2>1 DEF TypeOK, ControlType, Ending, Preparing, InStep, Granting, Granted
<1> QED
  BY <1>1, <1>2, <1>3, <1>4, <1>5, <1>6, <1>7 DEF Next, Run

LEMMA NextMeterTells ==
  ASSUME TypeOK, ReplayLogs, Next, MeterTells PROVE MeterTells'
<1> DEFINE n == Len(Messages(trace))
           g == ApprovedCalls(trace)
           granted == Cardinality(allowed)
<1>1. n \in Nat /\ Messages(trace) \in Seq(Seq(Call))
  <2>1. Messages(trace) \in Seq(Seq(Call))
    BY EntryTypes, MessagesAppend DEF ReplayLogs, IsTrace
  <2> QED
    BY <2>1
<1>2. /\ Decisions(trace) \in Seq(SUBSET Call)
      /\ \A i \in DOMAIN Decisions(trace) : IsFiniteSet(Decisions(trace)[i])
  BY DecisionsFinite DEF ReplayLogs
<1>3. g = Cardinality(Grants(Decisions(trace))) /\ g \in Nat
  BY <1>2, GrantsFinite DEF ApprovedCalls, Grants
<1>4. granted \in Nat /\ IsFiniteSet(allowed) /\ allowed \in SUBSET Call
  BY ActionCalls, FS_CardinalityType DEF TypeOK, WorkType
<1>5. /\ pc \in Preparing \cup Granting \cup Granted => steps = n
      /\ pc \in InStep => steps = n + 1
      /\ pc \in Granting => toolCalls + granted = g
      /\ pc \in Preparing \cup InStep \cup Granted => toolCalls = g
  BY DEF MeterTells
<1>6. steps \in Nat /\ toolCalls \in Nat
  BY RuntimeAssumption DEF TypeOK, MeterType
<1>7. CASE SaysAnswer
  BY <1>7 DEF SaysAnswer, MeterTells, Preparing, InStep, Granting, Granted
<1>8. CASE SaysAction
  <2>1. pc = "act" /\ pc' = "announce" /\ Messages(trace') = Append(Messages(trace), action)
        /\ Decisions(trace') = Append(Decisions(trace), allowed)
    BY <1>8 DEF SaysAction
  <2>2. allowed' = allowed /\ steps' = steps /\ toolCalls' = toolCalls
    BY <2>1, MeterMoves DEF Ending, Preparing, InStep, Granting, Granted
  <2>3. action \in Seq(Call)
    BY ActionCalls
  <2>4. Len(Messages(trace')) = n + 1
    BY <1>1, <2>1, <2>3
  <2>5. ApprovedCalls(trace') = g + granted
    <3>1. Cardinality(Grants(Append(Decisions(trace), allowed))) = g + granted
      BY <1>2, <1>3, <1>4, GrantsAppend
    <3> QED
      BY <2>1, <3>1 DEF ApprovedCalls, Grants
  <2> HIDE DEF n, g, granted
  <2>6. steps' = Len(Messages(trace'))
    BY <1>5, <2>1, <2>2, <2>4 DEF InStep
  <2>7. toolCalls' + Cardinality(allowed') = ApprovedCalls(trace')
    BY <1>5, <2>1, <2>2, <2>5 DEF InStep, granted
  <2> QED
    BY <2>1, <2>6, <2>7 DEF MeterTells, Preparing, InStep, Granting, Granted
<1>9. CASE SaysNoMore
  <2>1. Len(Messages(trace')) = n /\ ApprovedCalls(trace') = g
    BY <1>9 DEF SaysNoMore, SaysNothing, ApprovedCalls
  <2>2. ~(pc = "act" /\ pc' = "announce")
    BY <1>9 DEF SaysNoMore
  <2>3. Cardinality({}) = 0
    BY FS_EmptySet
  <2> SUFFICES /\ pc' \in Preparing \cup Granting \cup Granted => steps' = n
               /\ pc' \in InStep => steps' = n + 1
               /\ pc' \in Granting => toolCalls' + Cardinality(allowed') = g
               /\ pc' \in Preparing \cup InStep \cup Granted => toolCalls' = g
    BY <2>1 DEF MeterTells
  <2> HIDE DEF n, g
  <2>4. CASE pc' \in Ending
    BY <2>4 DEF Ending, Preparing, InStep, Granting, Granted
  <2>5. CASE pc = "loop" /\ pc' = "retrieve" /\ steps' = steps + 1 /\ toolCalls' = toolCalls
    BY <1>5, <2>5 DEF Preparing, InStep, Granting, Granted
  <2>6. CASE /\ pc = "charge" /\ pc' = "dispatch" /\ steps' = steps
             /\ toolCalls' = toolCalls + Cardinality(allowed)
    BY <1>5, <2>6 DEF Preparing, InStep, Granting, Granted
  <2>7. CASE /\ steps' = steps /\ toolCalls' = toolCalls
             /\ pc \in Granting /\ pc' = "loop" /\ allowed = {}
    <3>1. granted = 0
      BY <2>3, <2>7
    <3> HIDE DEF granted
    <3> QED
      BY <1>3, <1>5, <1>6, <2>7, <3>1 DEF Preparing, InStep, Granting, Granted
  <2>8. CASE /\ steps' = steps /\ toolCalls' = toolCalls
             /\ \/ pc \in Preparing /\ pc' \in Preparing
                \/ pc \in InStep /\ pc' \in InStep
                \/ pc \in Granting /\ pc' \in Granting /\ allowed' = allowed
                \/ pc \in Granted /\ pc' \in Granted \cup {"loop"}
    BY <1>5, <2>8 DEF Preparing, InStep, Granting, Granted
  <2> QED
    BY <2>2, <2>4, <2>5, <2>6, <2>7, <2>8, MeterMoves
<1> QED
  BY <1>7, <1>8, <1>9, StepSays

LEMMA MeterStands == ReplaySpec => []MeterTells
<1>1. ReplayInit => MeterTells
  <2>1. Grants(<<>>) = {} /\ Cardinality({}) = 0 /\ Len(<<>>) = 0
    BY FS_EmptySet DEF Grants
  <2>2. ApprovedCalls(<<>>) = 0
    BY <2>1, EmptyLog DEF ApprovedCalls, Grants
  <2> QED
    BY <2>1, <2>2, EmptyLog DEF ReplayInit, Init, MeterTells, Preparing, InStep, Granting, Granted
<1>2. MeterTells /\ UNCHANGED vars => MeterTells'
  BY DEF MeterTells, vars, work, meter
<1>3. TypeOK /\ ReplayLogs /\ MeterTells /\ [ReplayNext]_<<vars, replayVars>> => MeterTells'
  BY <1>2, NextMeterTells, ReplayStepIsAStep
<1> QED
  BY <1>1, <1>3, ReplayIsARun, TypeCorrect, LogsStand, PTL DEF ReplaySpec

\* What can fail a run for its budget.
LEMMA Overruns ==
  ASSUME TypeOK, Next, outcome' = "budget_exceeded"
  PROVE  \/ outcome = "budget_exceeded"
         \/ late
         \/ pc = "loop" /\ trace' = trace /\ steps + 1 > MaxSteps
         \/ pc = "charge" /\ trace' = trace /\ toolCalls + Cardinality(allowed) > MaxToolCalls
BY DEF Next, Run, Begin, PersistQuery, StartMemory, Checkpoint, Retrieve, NextMessage, PersistAnswer,
   EnforcePolicy, PersistAction, Announce, AfterAnnouncing, Charge, Dispatch, Execute,
   RecordObservation, PersistFailure, Finally, Operator, RequestPause, RequestResume,
   RequestInterrupt, Request, WallClockRunsOut, Returned, vars, FailWith, Raise, Continue,
   StepBudgetExceeded, ToolBudgetExceeded, Approvals, TypeOK, MeterType

LEMMA LateStays == ASSUME Next PROVE late => late'
BY DEF Next, Run, Begin, PersistQuery, StartMemory, Checkpoint, Retrieve, NextMessage, PersistAnswer,
   EnforcePolicy, PersistAction, Announce, Charge, Dispatch, Execute,
   RecordObservation, PersistFailure, Finally, Operator, RequestPause, RequestResume,
   RequestInterrupt, Request, WallClockRunsOut, Returned, vars

\* What was granted before was granted.
LEMMA GrantedBefore ==
  ASSUME TypeOK, ReplayLogs, Next, GrantsNoMore(trace', reference)
  PROVE  GrantsNoMore(trace, reference)
<1> DEFINE d == Decisions(trace)
           e == Decisions(trace')
<1>1. d \in Seq(SUBSET Call)
  BY DecisionsFinite DEF ReplayLogs
<1>2. \A i \in DOMAIN e : e[i] \subseteq Decisions(reference)[i]
  BY DEF GrantsNoMore
<1>3. \A i \in DOMAIN d : i \in DOMAIN e /\ e[i] = d[i]
  <2>1. CASE e = d
    BY <2>1
  <2>2. CASE SaysAction
    <3>1. e = Append(d, allowed)
      BY <2>2 DEF SaysAction
    <3> HIDE DEF d, e
    <3> QED
      BY <1>1, <3>1
  <2> QED
    BY <2>1, <2>2, StepSays DEF SaysAnswer, SaysNoMore, SaysNothing
<1> QED
  BY <1>2, <1>3 DEF GrantsNoMore

\* A replay that lets through no more than the reference did charges no more.
LEMMA ChargesNoMore ==
  ASSUME ReplayLogs, Follows, Answered(reference), ~Answered(trace), GrantsNoMore(trace, reference)
  PROVE  ApprovedCalls(trace) <= ApprovedCalls(reference) /\ ApprovedCalls(trace) \in Nat
         /\ ApprovedCalls(reference) \in Nat
<1> DEFINE d == Decisions(trace)
           all == Decisions(reference)
<1>1. /\ d \in Seq(SUBSET Call) /\ \A i \in DOMAIN d : IsFiniteSet(d[i])
      /\ all \in Seq(SUBSET Call) /\ \A i \in DOMAIN all : IsFiniteSet(all[i])
  BY DecisionsFinite DEF ReplayLogs
<1>2. Len(d) < Len(all) + 1
  BY NotExhausted
<1>3. ApprovedCalls(trace) = Cardinality(Grants(d)) /\ ApprovedCalls(reference) = Cardinality(Grants(all))
  BY DEF ApprovedCalls, Grants
<1>4. \A i \in DOMAIN d : d[i] \subseteq all[i]
  BY DEF GrantsNoMore
<1> HIDE DEF d, all
<1>5. \A i \in DOMAIN d : i \in DOMAIN all
  BY <1>1, <1>2
<1>6. Grants(d) \in SUBSET Grants(all)
  <2> SUFFICES ASSUME NEW x \in Grants(d) PROVE x \in Grants(all)
    OBVIOUS
  <2>1. PICK i \in DOMAIN d : x \in {i} \X d[i]
    BY DEF Grants
  <2>2. i \in DOMAIN all /\ x \in {i} \X all[i]
    BY <1>4, <1>5, <2>1
  <2> QED
    BY <2>2 DEF Grants
<1>7. /\ IsFiniteSet(Grants(all)) /\ Cardinality(Grants(all)) \in Nat
      /\ Cardinality(Grants(d)) \in Nat
  BY <1>1, GrantsFinite
<1>8. Cardinality(Grants(d)) <= Cardinality(Grants(all))
  BY <1>6, <1>7, FS_Subset
<1> QED
  BY <1>3, <1>7, <1>8

LEMMA StaysInBudgetOn ==
  ASSUME TypeOK, ReplayLogs, EndsAsItSays, ReplayInv, ReplayInv', MeterTells, ReplayStaysInBudget,
         [ReplayNext]_<<vars, replayVars>>
  PROVE  ReplayStaysInBudget'
<1> SUFFICES ASSUME Answered(reference'), Len(Messages(reference')) <= MaxSteps,
                    ApprovedCalls(reference') <= MaxToolCalls, GrantsNoMore(trace', reference'),
                    outcome' = "budget_exceeded"
             PROVE  late'
  BY DEF ReplayStaysInBudget
<1>1. phase' = "replaying"
  BY DEF ReplayInv, Fresh
<1>2. CASE UNCHANGED <<vars, reference>>
  <2>1. trace' = trace /\ outcome' = outcome /\ late' = late /\ reference' = reference
    BY <1>2 DEF vars
  <2> QED
    BY <2>1 DEF ReplayStaysInBudget
<1>3. CASE Load
  <2>1. outcome' = outcome /\ phase = "storing"
    BY <1>3 DEF Load, vars
  <2> QED
    BY <2>1 DEF ReplayInv, Fresh
<1>4. CASE Next /\ phase = "replaying" /\ reference' = reference
  <2>1. GrantsNoMore(trace, reference)
    BY <1>4, GrantedBefore
  <2>2. CASE outcome = "budget_exceeded"
    BY <1>4, <2>1, <2>2, LateStays DEF ReplayStaysInBudget
  <2>3. CASE late
    BY <1>4, <2>3, LateStays
  <2>4. Follows /\ Answered(reference)
    BY <1>4 DEF ReplayInv
  <2>5. CASE pc = "loop" /\ trace' = trace /\ steps + 1 > MaxSteps
    <3>1. ~Answered(trace) /\ steps = Len(Messages(trace))
      BY <2>5 DEF EndsAsItSays, MeterTells, Preparing
    <3>2. Len(Messages(trace)) \in Nat /\ Len(Messages(trace)) < Len(Messages(reference))
      BY <2>4, <3>1, NotExhausted
    <3>3. Len(Messages(reference)) \in Nat
      <4> DEFINE all == Messages(reference)
      <4>1. all \in Seq(Seq(Call))
        BY EntryTypes, MessagesAppend DEF ReplayLogs, IsTrace
      <4> HIDE DEF all
      <4>2. Len(all) \in Nat
        BY <4>1
      <4> QED
        BY <4>2 DEF all
    <3> DEFINE n == Len(Messages(trace))
               m == Len(Messages(reference))
    <3>4. n \in Nat /\ m \in Nat /\ n < m /\ m <= MaxSteps /\ n + 1 > MaxSteps
      BY <1>4, <2>5, <3>1, <3>2, <3>3
    <3> HIDE DEF n, m
    <3> QED
      BY <3>4, RuntimeAssumption
  <2>6. CASE pc = "charge" /\ trace' = trace /\ toolCalls + Cardinality(allowed) > MaxToolCalls
    <3>1. ~Answered(trace) /\ toolCalls + Cardinality(allowed) = ApprovedCalls(trace)
      BY <2>6 DEF EndsAsItSays, MeterTells, Granting
    <3>2. /\ ApprovedCalls(trace) <= ApprovedCalls(reference) /\ ApprovedCalls(trace) \in Nat
          /\ ApprovedCalls(reference) \in Nat
      BY <2>1, <2>4, <3>1, ChargesNoMore
    <3>3. ApprovedCalls(trace) > MaxToolCalls /\ ApprovedCalls(reference) <= MaxToolCalls
      BY <1>4, <2>6, <3>1
    <3> QED
      BY <3>2, <3>3, RuntimeAssumption
  <2> QED
    BY <1>4, <2>2, <2>3, <2>5, <2>6, Overruns
<1>5. CASE Store
  BY <1>1, <1>5 DEF Store, ReplayInv
<1> QED
  BY <1>1, <1>2, <1>3, <1>4, <1>5, ReplayMoves DEF ReplayNext, replayVars

(* A run that answered within the limits stays within them when it is       *)
(* replayed, if nothing more is approved this time.                         *)
THEOREM ReplayBudget == ReplaySpec => []ReplayStaysInBudget
<1>1. ReplayInit => ReplayStaysInBudget
  BY DEF ReplayInit, Init, ReplayStaysInBudget
<1> QED
  BY <1>1, StaysInBudgetOn, ReplayIsARun, TypeCorrect, LogsStand, EndsAreRight, MeterStands,
     ReplayStands, PTL DEF ReplaySpec

------------------------------------------------------------------------------
(* A log that ends with an answer, and observes no call twice.                *)

\* No call belongs to two actions.
OnceEach(acts) ==
  \A i, j \in DOMAIN acts : \A c \in Call :
    c \in ToSet(acts[i].calls) /\ c \in ToSet(acts[j].calls) => i = j

LEMMA ObservedOnce ==
  ASSUME NEW g \in Seq(T!Entry), ~ObservedTwice(g), NEW i \in DOMAIN g, NEW j \in DOMAIN g, NEW c \in Call,
         T!Observes(g[i], c), T!Observes(g[j], c)
  PROVE  i = j
<1> SUFFICES ASSUME i # j PROVE FALSE
  OBVIOUS
<1> DEFINE O == {k \in DOMAIN g : R!Observes(g[k], c)}
<1>1. DOMAIN g = 1..Len(g) /\ Len(g) \in Int /\ 1 \in Int
  OBVIOUS
<1>2. IsFiniteSet(DOMAIN g)
  BY <1>1, FS_Interval
<1>3. O \in SUBSET DOMAIN g
  OBVIOUS
<1>4. IsFiniteSet(O) /\ Cardinality(O) \in Nat
  <2> HIDE DEF O
  <2> QED
    BY <1>2, <1>3, FS_Subset, FS_CardinalityType
<1>5. ~(Cardinality(O) > 1)
  BY DEF ObservedTwice, CountOf
<1>6. {i} \cup {j} \in SUBSET O
  BY DEF R!Observes, T!Observes
<1> HIDE DEF O
<1>7. IsFiniteSet({i}) /\ Cardinality({i}) = 1
  BY FS_Singleton
<1>8. Cardinality({i} \cup {j}) = Cardinality({i}) + 1
  <2>1. j \notin {i}
    OBVIOUS
  <2> QED
    BY <1>7, <2>1, FS_AddElement
<1>9. Cardinality({i} \cup {j}) <= Cardinality(O)
  BY <1>4, <1>6, FS_Subset
<1>10. Cardinality({i} \cup {j}) = 2
  BY <1>7, <1>8
<1> DEFINE x == Cardinality(O)
<1>11. x \in Nat /\ ~(x > 1) /\ 2 <= x
  BY <1>4, <1>5, <1>9, <1>10
<1> HIDE DEF x
<1> QED
  BY <1>11

\* An observation is one of a call of one action.
LEMMA ServesOne ==
  ASSUME NEW h, IsTrace(h), NEW k \in DOMAIN h, NEW l \in DOMAIN h, NEW j \in DOMAIN h,
         Serves(h, k, j), Serves(h, l, j)
  PROVE  k = l
<1>1. DOMAIN h = 1..Len(h) /\ Len(h) \in Nat
  BY DEF IsTrace
<1>2. /\ k < j /\ h[k].kind = "action" /\ \A m \in k + 1 .. j - 1 : h[m].kind # "action"
      /\ l < j /\ h[l].kind = "action" /\ \A m \in l + 1 .. j - 1 : h[m].kind # "action"
  BY DEF Serves
<1>3. ~(k < l)
  <2>1. k < l => l \in k + 1 .. j - 1
    BY <1>1, <1>2
  <2> QED
    BY <1>2, <2>1
<1>4. ~(l < k)
  <2>1. l < k => k \in l + 1 .. j - 1
    BY <1>1, <1>2
  <2> QED
    BY <1>2, <2>1
<1> QED
  BY <1>1, <1>3, <1>4

\* In a log that ends with an answer each call of an action has its observation.
LEMMA ServedIn ==
  ASSUME NEW h, IsTrace(h), Concluded(h), NEW k \in DOMAIN h, h[k].kind = "action",
         NEW c \in ToSet(h[k].calls)
  PROVE  \E j \in DOMAIN h : Serves(h, k, j) /\ h[j].call = c
<1>1. DOMAIN h = 1..Len(h) /\ Len(h) \in Nat
  BY DEF IsTrace
<1>2. Len(h) \in DOMAIN h /\ h[Len(h)].kind = "answer" /\ k < Len(h)
  BY <1>1 DEF Concluded, IsTrace
<1>3. AnsweredBefore(h, k, Len(h))
  BY <1>2 DEF IsTrace
<1> QED
  BY <1>3 DEF AnsweredBefore

LEMMA CallsOnce ==
  ASSUME NEW g, IsTrace(g), Concluded(g), ~ObservedTwice(g)
  PROVE  OnceEach(Acts(g))
<1> SUFFICES ASSUME NEW i \in DOMAIN Acts(g), NEW j \in DOMAIN Acts(g), NEW c \in Call,
                    c \in ToSet(Acts(g)[i].calls), c \in ToSet(Acts(g)[j].calls)
             PROVE  i = j
  BY DEF OnceEach
<1>1. g \in Seq(T!Entry) /\ DOMAIN g = 1..Len(g) /\ Len(g) \in Nat
  BY DEF IsTrace
<1>2. Acts(g) \in Seq(T!Entry)
  BY <1>1, EntryTypes, ActsAppend
<1>3. i \in 1..Len(Acts(g)) /\ j \in 1..Len(Acts(g)) /\ Len(Acts(g)) \in Nat
  BY <1>2
<1>4. PICK at : ActPlaces(at, g)
  BY <1>1, ActsPlaced
<1>5. /\ at[i] \in DOMAIN g /\ at[j] \in DOMAIN g
      /\ g[at[i]] = Acts(g)[i] /\ g[at[i]].kind = "action"
      /\ g[at[j]] = Acts(g)[j] /\ g[at[j]].kind = "action"
      /\ i < j => at[i] < at[j]
      /\ j < i => at[j] < at[i]
  BY <1>1, <1>3, <1>4 DEF ActPlaces
<1>6. PICK k \in DOMAIN g : Serves(g, at[i], k) /\ g[k].call = c
  BY <1>5, ServedIn
<1>7. PICK l \in DOMAIN g : Serves(g, at[j], l) /\ g[l].call = c
  BY <1>5, ServedIn
<1>8. k = l
  <2>1. T!Observes(g[k], c) /\ T!Observes(g[l], c)
    BY <1>6, <1>7 DEF Serves, T!Observes
  <2> QED
    BY <1>1, <2>1, ObservedOnce
<1>9. at[i] = at[j]
  BY <1>5, <1>6, <1>7, <1>8, ServesOne
<1> QED
  BY <1>1, <1>3, <1>5, <1>9

\* Such a log holds no line twice.
LEMMA LinesOnce ==
  ASSUME NEW h, IsTrace(h), OnceEach(Acts(h))
  PROVE  Cardinality(ToSet(h)) = Len(h)
<1>1. h \in Seq(T!Entry) /\ DOMAIN h = 1..Len(h) /\ Len(h) \in Nat /\ \A i \in DOMAIN h : h[i] \in T!Entry
  BY DEF IsTrace
<1>2. PICK at : ActPlaces(at, h)
  BY <1>1, ActsPlaced
<1>3. Acts(h) \in Seq(T!Entry) /\ DOMAIN Acts(h) = 1..Len(Acts(h))
  BY <1>1, EntryTypes, ActsAppend
\* The places of two actions that share a call are the same.
<1>4. ASSUME NEW k \in DOMAIN h, NEW l \in DOMAIN h, h[k].kind = "action", h[l].kind = "action",
             NEW c \in Call, c \in ToSet(h[k].calls), c \in ToSet(h[l].calls)
      PROVE  k = l
  <2>1. PICK i \in 1..Len(Acts(h)) : at[i] = k
    BY <1>1, <1>2, <1>4 DEF ActPlaces
  <2>2. PICK j \in 1..Len(Acts(h)) : at[j] = l
    BY <1>1, <1>2, <1>4 DEF ActPlaces
  <2>3. Acts(h)[i] = h[k] /\ Acts(h)[j] = h[l]
    BY <1>2, <2>1, <2>2 DEF ActPlaces
  <2>4. i = j
    BY <1>3, <1>4, <2>3 DEF OnceEach
  <2> QED
    BY <2>1, <2>2, <2>4
<1>5. ASSUME NEW i \in DOMAIN h, NEW j \in DOMAIN h, h[i] = h[j] PROVE i = j
  <2>1. h[i] \in T!Entry /\ h[j] \in T!Entry
    BY <1>1
  <2>2. CASE h[i].kind = "query"
    BY <1>5, <2>2 DEF IsTrace
  <2>3. CASE h[i].kind \in {"answer", "failure"}
    BY <1>5, <2>3 DEF IsTrace
  <2>4. CASE h[i].kind = "action"
    <3>1. h[i].calls \in Actions
      BY <2>1, <2>4, EntryFields
    <3>2. h[i].calls \in Seq(Call) /\ h[i].calls # <<>> /\ ToSet(h[i].calls) \subseteq Call
      BY <3>1, CallsOfActions
    <3>3. 1 \in DOMAIN h[i].calls
      BY <3>2
    <3>4. h[i].calls[1] \in ToSet(h[i].calls)
      BY <3>3 DEF ToSet
    <3> QED
      BY <1>4, <1>5, <2>4, <3>2, <3>4
  <2>5. CASE h[i].kind = "observation"
    <3>1. PICK k \in DOMAIN h : Serves(h, k, i)
      BY <2>5 DEF IsTrace
    <3>2. PICK l \in DOMAIN h : Serves(h, l, j)
      BY <1>5, <2>5 DEF IsTrace
    <3>3. h[i].call \in Call /\ h[j].call = h[i].call
      BY <1>5, <2>1, <2>5, EntryFields
    <3>4. k = l
      BY <1>4, <3>1, <3>2, <3>3 DEF Serves
    <3>5. /\ k < i /\ k < j /\ T!Observes(h[i], h[i].call) /\ T!Observes(h[j], h[i].call)
          /\ \A m \in k + 1 .. i - 1 : ~T!Observes(h[m], h[i].call)
          /\ \A m \in k + 1 .. j - 1 : ~T!Observes(h[m], h[i].call)
      BY <1>5, <2>5, <3>1, <3>2, <3>3, <3>4 DEF Serves, T!Observes
    <3>6. ~(i < j)
      <4>1. i < j => i \in k + 1 .. j - 1
        BY <1>1, <3>5
      <4> QED
        BY <3>5, <4>1
    <3>7. ~(j < i)
      <4>1. j < i => j \in k + 1 .. i - 1
        BY <1>1, <3>5
      <4> QED
        BY <3>5, <4>1
    <3> QED
      BY <1>1, <3>6, <3>7
  <2> QED
    BY <2>1, <2>2, <2>3, <2>4, <2>5, EntryFields
<1> DEFINE D == DOMAIN h
           S == ToSet(h)
<1>6. h \in [D -> S]
  BY <1>1 DEF ToSet
<1>7. h \in Bijection(D, S)
  <2>1. h \in Injection(D, S)
    BY <1>5, <1>6 DEF Injection, IsInjective
  <2>2. h \in Surjection(D, S)
    BY <1>6 DEF Surjection, ToSet
  <2> QED
    BY <2>1, <2>2 DEF Bijection
<1>8. IsFiniteSet(D) /\ Cardinality(D) = Len(h)
  <2>1. IsFiniteSet(1..Len(h)) /\ Cardinality(1..Len(h)) = Len(h)
    BY <1>1, FS_Interval
  <2> QED
    BY <1>1, <2>1
<1>9. Cardinality(S) = Cardinality(D)
  <2> HIDE DEF D, S
  <2>1. ExistsBijection(D, S)
    BY <1>7 DEF ExistsBijection
  <2> QED
    BY <1>8, <2>1, FS_Bijection
<1> QED
  BY <1>8, <1>9

\* Every line of h is one of g.
LinesIn(h, g) ==
  /\ \A k \in DOMAIN h : h[k].kind = "action" => \E l \in DOMAIN g : g[l] = h[k]
  /\ \A k, j \in DOMAIN h : \A l, m \in DOMAIN g :
       Serves(h, k, j) /\ Serves(g, l, m) /\ h[k] = g[l] /\ h[j].call = g[m].call => h[j] = g[m]

LEMMA AllLinesIn ==
  ASSUME NEW h, NEW g, IsTrace(h), Concluded(h), IsTrace(g), Concluded(g), LinesIn(h, g)
  PROVE  ToSet(h) \subseteq ToSet(g)
<1> SUFFICES ASSUME NEW j \in DOMAIN h PROVE \E m \in DOMAIN g : h[j] = g[m]
  BY DEF ToSet
<1>1. /\ h \in Seq(T!Entry) /\ DOMAIN h = 1..Len(h) /\ Len(h) \in Nat
      /\ g \in Seq(T!Entry) /\ DOMAIN g = 1..Len(g) /\ Len(g) \in Nat
      /\ \A m \in DOMAIN g : g[m] \in T!Entry
      /\ h[j] \in T!Entry
  BY DEF IsTrace
<1>2. g # <<>> /\ Len(g) \in DOMAIN g /\ 1 \in DOMAIN g /\ g[Len(g)].kind = "answer"
  BY <1>1 DEF Concluded
<1>3. CASE h[j].kind = "query"
  <2>1. g[1].kind = "query"
    BY <1>2 DEF IsTrace
  <2> QED
    BY <1>1, <1>2, <1>3, <2>1, EntryFields
<1>4. CASE h[j].kind \in {"answer", "failure"}
  <2>1. h[j].kind = "answer"
    BY <1>4 DEF IsTrace, Concluded
  <2>2. h[j] = T!Answer
    BY <1>1, <2>1, EntryFields
  <2>3. g[Len(g)] = T!Answer
    BY <1>1, <1>2, EntryFields
  <2> QED
    BY <1>2, <2>2, <2>3
<1>5. CASE h[j].kind = "action"
  BY <1>5 DEF LinesIn
<1>6. CASE h[j].kind = "observation"
  <2>1. PICK k \in DOMAIN h : Serves(h, k, j)
    BY <1>6 DEF IsTrace
  <2>2. h[k].kind = "action" /\ h[j].call \in ToSet(h[k].calls)
    BY <2>1 DEF Serves
  <2>3. PICK l \in DOMAIN g : g[l] = h[k]
    BY <2>2 DEF LinesIn
  <2>4. PICK m \in DOMAIN g : Serves(g, l, m) /\ g[m].call = h[j].call
    BY <2>2, <2>3, ServedIn
  <2>5. h[j] = g[m]
    BY <2>1, <2>3, <2>4 DEF LinesIn
  <2> QED
    BY <2>5
<1> QED
  BY <1>1, <1>3, <1>4, <1>5, <1>6, EntryFields

\* Two logs with the same actions have each an equal of the other's.
LEMMA SameActs ==
  ASSUME NEW h \in Seq(T!Entry), NEW g \in Seq(T!Entry), Acts(h) = Acts(g)
  PROVE  \A k \in DOMAIN h : h[k].kind = "action" => \E l \in DOMAIN g : g[l] = h[k]
<1> SUFFICES ASSUME NEW k \in DOMAIN h, h[k].kind = "action" PROVE \E l \in DOMAIN g : g[l] = h[k]
  OBVIOUS
<1>1. DOMAIN h = 1..Len(h) /\ DOMAIN g = 1..Len(g)
  OBVIOUS
<1>2. PICK at : ActPlaces(at, h)
  BY ActsPlaced
<1>3. PICK in : ActPlaces(in, g)
  BY ActsPlaced
<1>4. PICK i \in 1..Len(Acts(h)) : at[i] = k
  BY <1>1, <1>2 DEF ActPlaces
<1>5. Acts(h)[i] = h[k]
  BY <1>2, <1>4 DEF ActPlaces
<1>6. i \in 1..Len(Acts(g)) /\ in[i] \in 1..Len(g) /\ Acts(g)[i] = g[in[i]]
  BY <1>3 DEF ActPlaces
<1> QED
  BY <1>1, <1>5, <1>6

\* A replay that answered said all that the reference says.
LEMMA SaidAll ==
  ASSUME ReplayLogs, Follows, Answered(trace)
  PROVE  /\ Answered(reference) /\ Messages(trace) = Messages(reference)
         /\ CallsOf(trace) = CallsOf(reference)
<1> DEFINE said == Messages(trace)
           all == Messages(reference)
           c == CallsOf(trace)
           d == CallsOf(reference)
           none == <<>>
           D == Seq(Call)
<1>1. /\ said = Append(c, none) /\ c \in Seq(Actions) /\ d \in Seq(Actions)
      /\ all = IF Answered(reference) THEN Append(d, none) ELSE d
  BY EntryTypes, CallsAppend DEF ReplayLogs, IsTrace, SaysItsCalls
<1>2. none \notin Actions /\ none \in D /\ Actions \subseteq D
  BY CallsOfActions
<1>3. Len(said) <= Len(all) /\ \A i \in 1..Len(said) : said[i] = all[i]
  BY DEF Follows
<1> HIDE DEF said, all, none, c, d, D
<1>4. c \in Seq(D) /\ d \in Seq(D) /\ Len(c) \in Nat /\ Len(d) \in Nat
      /\ \A i \in 1..Len(d) : d[i] # none
  BY <1>1, <1>2
<1>5. ASSUME NEW s \in Seq(D)
      PROVE  /\ Len(Append(s, none)) = Len(s) + 1 /\ Append(s, none)[Len(s) + 1] = none
             /\ \A i \in 1..Len(s) : Append(s, none)[i] = s[i]
  BY <1>2
<1>6. /\ Len(said) = Len(c) + 1 /\ said[Len(c) + 1] = none
      /\ \A i \in 1..Len(c) : said[i] = c[i]
  BY <1>1, <1>4, <1>5
<1>7. /\ Len(all) = IF Answered(reference) THEN Len(d) + 1 ELSE Len(d)
      /\ \A i \in 1..Len(d) : all[i] = d[i]
  BY <1>1, <1>4, <1>5
<1>8. Len(c) + 1 \notin 1..Len(d)
  <2>1. all[Len(c) + 1] = none
    BY <1>3, <1>4, <1>6
  <2> QED
    BY <1>4, <1>7, <2>1
<1>9. Answered(reference) /\ Len(c) = Len(d)
  BY <1>3, <1>4, <1>6, <1>7, <1>8
<1>10. \A i \in 1..Len(c) : c[i] = d[i]
  BY <1>3, <1>4, <1>6, <1>7, <1>9
<1>11. c = d
  BY <1>4, <1>9, <1>10
<1>12. said = all
  BY <1>1, <1>9, <1>11
<1> QED
  BY <1>9, <1>11, <1>12 DEF said, all, c, d

\* A replay that made the decisions of the reference and answered made its actions.
LEMMA ActsAgain ==
  ASSUME ReplayLogs, Follows, Answered(trace), Decisions(trace) = Decisions(reference)
  PROVE  Answered(reference) /\ Acts(trace) = Acts(reference)
<1>1. trace \in Seq(T!Entry) /\ reference \in Seq(T!Entry) /\ T!Query \in T!Entry
  BY EntryTypes DEF ReplayLogs, IsTrace
<1>2. /\ Len(CallsOf(trace)) = Len(Acts(trace)) /\ Len(CallsOf(reference)) = Len(Acts(reference))
      /\ Answered(reference) /\ CallsOf(trace) = CallsOf(reference)
  BY <1>1, CallsAppend, SaidAll
<1>3. ASSUME NEW h \in Seq(T!Entry)
      PROVE  /\ Acts(h) \in Seq(T!Entry) /\ DOMAIN Acts(h) = 1..Len(Acts(h))
             /\ \A i \in DOMAIN Acts(h) : Acts(h)[i] = T!Action(CallsOf(h)[i], Decisions(h)[i])
  <2>1. Acts(h) \in Seq(T!Entry) /\ \A i \in DOMAIN Acts(h) : Acts(h)[i].kind = "action"
    BY <1>1, ActsAppend
  <2>2. {e \in ToSet(h) : e.kind = "action"} = {e \in ToSet(h) : e.kind \in {"action"}}
    OBVIOUS
  <2>3. Decisions(h) = [i \in DOMAIN Acts(h) |-> Acts(h)[i].allowed]
    BY <2>2 DEF Decisions, Acts, Kept
  <2>4. CallsOf(h) = [i \in DOMAIN Acts(h) |-> Acts(h)[i].calls]
    BY DEF CallsOf
  <2>5. \A i \in DOMAIN Acts(h) : Acts(h)[i] \in T!Entry
    BY <2>1
  <2>6. \A i \in DOMAIN Acts(h) : Acts(h)[i] = T!Action(Acts(h)[i].calls, Acts(h)[i].allowed)
    BY <2>1, <2>5, EntryFields
  <2> QED
    BY <2>1, <2>3, <2>4, <2>6
<1>4. \A i \in 1..Len(Acts(trace)) : Acts(trace)[i] = Acts(reference)[i]
  BY <1>1, <1>2, <1>3
<1>5. Len(Acts(trace)) = Len(Acts(reference))
  BY <1>2
<1> DEFINE a == Acts(trace)
           b == Acts(reference)
<1>6. a \in Seq(T!Entry) /\ b \in Seq(T!Entry) /\ Len(a) = Len(b) /\ \A i \in 1..Len(a) : a[i] = b[i]
  BY <1>1, <1>3, <1>4, <1>5
<1>7. a = b
  <2> HIDE DEF a, b
  <2> QED
    BY <1>6
<1> QED
  BY <1>2, <1>7

\* What was recorded of a call that the reference observes.
LEMMA RecordedAs ==
  ASSUME IsTrace(reference), Loaded, NEW c \in DOMAIN recorded
  PROVE  \E j \in DOMAIN reference : T!Observes(reference[j], c) /\ recorded[c] = AsServed(reference[j].got)
<1> DEFINE f == CHOOSE e \in ToSet(reference) : R!Observes(e, c)
<1>1. c \in ObservedCalls(reference) /\ recorded[c] = AsServed(f.got)
  BY DEF Loaded, Recordings
<1>2. f \in ToSet(reference) /\ R!Observes(f, c)
  BY <1>1 DEF ObservedCalls
<1> HIDE DEF f
<1> QED
  BY <1>1, <1>2 DEF ToSet, R!Observes, T!Observes

\* An observation the replay makes of a call is the one the reference holds.
LEMMA SameObservation ==
  ASSUME ReplayLogs, Loaded, AsRecorded,
         NEW k \in DOMAIN trace, NEW j \in DOMAIN trace, NEW l \in DOMAIN reference, NEW m \in DOMAIN reference,
         Serves(trace, k, j), Serves(reference, l, m), trace[k] = reference[l],
         trace[j].call = reference[m].call
  PROVE  trace[j] = reference[m]
<1> DEFINE c == trace[j].call
<1>1. /\ trace[j] \in T!Entry /\ reference[m] \in T!Entry
      /\ trace[j].kind = "observation" /\ reference[m].kind = "observation"
      /\ trace[j].got = Denied <=> c \notin trace[k].allowed
      /\ reference[m].got = Denied <=> c \notin trace[k].allowed
  BY DEF ReplayLogs, IsTrace, Serves
<1>2. /\ c \in Call /\ trace[j] = T!Observation(c, trace[j].got)
      /\ reference[m] = T!Observation(c, reference[m].got)
  BY <1>1, EntryFields
<1>3. CASE trace[j].got = Denied
  BY <1>1, <1>2, <1>3
<1>4. CASE trace[j].got # Denied
  <2>1. c \in DOMAIN recorded /\ trace[j].got = recorded[c]
    BY <1>1, <1>4 DEF AsRecorded
  <2>2. PICK i \in DOMAIN reference : T!Observes(reference[i], c) /\ recorded[c] = AsServed(reference[i].got)
    BY <2>1, RecordedAs DEF ReplayLogs
  <2>3. i = m
    <3>1. T!Observes(reference[m], c)
      BY <1>1 DEF T!Observes
    <3> QED
      BY <1>2, <2>2, <3>1, ObservedOnce DEF ReplayLogs, IsTrace, Loaded
  <2>4. trace[j].got = reference[m].got
    BY <1>1, <1>4, <2>1, <2>2, <2>3 DEF AsServed
  <2> QED
    BY <1>2, <2>4
<1> QED
  BY <1>3, <1>4

LEMMA SameEvents ==
  ASSUME ReplayLogs, Loaded, Follows, AsRecorded, Answered(trace), Decisions(trace) = Decisions(reference)
  PROVE  ToSet(trace) = ToSet(reference) /\ Len(trace) = Len(reference)
<1>1. Answered(reference) /\ Acts(trace) = Acts(reference)
  BY ActsAgain
<1>2. /\ IsTrace(trace) /\ Concluded(trace) /\ trace \in Seq(T!Entry)
      /\ IsTrace(reference) /\ Concluded(reference) /\ reference \in Seq(T!Entry)
  BY <1>1 DEF ReplayLogs, SaysItsCalls, IsTrace
<1>3. LinesIn(trace, reference)
  <2>1. \A k \in DOMAIN trace : trace[k].kind = "action" => \E l \in DOMAIN reference : reference[l] = trace[k]
    BY <1>1, <1>2, SameActs
  <2> QED
    BY <2>1, SameObservation DEF LinesIn
<1>4. LinesIn(reference, trace)
  <2>1. \A k \in DOMAIN reference : reference[k].kind = "action" => \E l \in DOMAIN trace : trace[l] = reference[k]
    BY <1>1, <1>2, SameActs
  <2>2. ASSUME NEW k \in DOMAIN reference, NEW j \in DOMAIN reference, NEW l \in DOMAIN trace, NEW m \in DOMAIN trace,
               Serves(reference, k, j), Serves(trace, l, m), reference[k] = trace[l],
               reference[j].call = trace[m].call
        PROVE  reference[j] = trace[m]
    BY <2>2, SameObservation
  <2> QED
    BY <2>1, <2>2 DEF LinesIn
<1>5. ToSet(trace) = ToSet(reference)
  <2>1. ToSet(trace) \subseteq ToSet(reference)
    BY <1>2, <1>3, AllLinesIn
  <2>2. ToSet(reference) \subseteq ToSet(trace)
    BY <1>2, <1>4, AllLinesIn
  <2> QED
    BY <2>1, <2>2
<1>6. OnceEach(Acts(reference)) /\ OnceEach(Acts(trace))
  <2>1. OnceEach(Acts(reference))
    BY <1>2, CallsOnce DEF Loaded
  <2> QED
    BY <1>1, <2>1
<1>7. Cardinality(ToSet(trace)) = Len(trace) /\ Cardinality(ToSet(reference)) = Len(reference)
  BY <1>2, <1>6, LinesOnce
<1> QED
  BY <1>5, <1>7

LEMMA FollowedPrefix ==
  ASSUME ReplayLogs, Follows PROVE IsPrefix(Messages(trace), Messages(reference))
<1> DEFINE said == Messages(trace)
           all == Messages(reference)
           D == Seq(Call)
<1>1. said \in Seq(D) /\ all \in Seq(D)
  BY EntryTypes, MessagesAppend DEF ReplayLogs, IsTrace
<1>2. Len(said) <= Len(all) /\ \A i \in 1..Len(said) : said[i] = all[i]
  BY DEF Follows
<1> HIDE DEF said, all, D
<1>3. IsPrefix(said, all)
  BY <1>1, <1>2 DEF IsPrefix
<1> QED
  BY <1>3 DEF said, all

(* The replay of an unambiguous reference says what the reference said, in  *)
(* the same order, whatever policy and gate decide this time; it observes   *)
(* of an executed call what was recorded of it; and when the decisions are  *)
(* the same and it answers, its trace holds the same events.                *)
THEOREM ReplayFollows == ReplaySpec => []ReplayFollowsReference
<1>1. ASSUME ReplayLogs, EndsAsItSays, ReplayInv, phase = "replaying" PROVE ReplayFollowsReference
  <2>1. Loaded /\ Follows /\ AsRecorded
    BY <1>1 DEF ReplayInv
  <2>2. IsPrefix(Messages(trace), Messages(reference))
    BY <1>1, <2>1, FollowedPrefix
  <2>3. ASSUME NEW e \in ToSet(trace), e.kind = "observation", e.got # Denied
        PROVE  \E f \in ToSet(reference) : R!Observes(f, e.call) /\ e.got = AsServed(f.got)
    <3>1. e.call \in DOMAIN recorded /\ e.got = recorded[e.call]
      BY <2>1, <2>3 DEF AsRecorded, ToSet
    <3>2. PICK j \in DOMAIN reference :
            T!Observes(reference[j], e.call) /\ recorded[e.call] = AsServed(reference[j].got)
      BY <1>1, <2>1, <3>1, RecordedAs DEF ReplayLogs
    <3> QED
      BY <3>1, <3>2 DEF ToSet, T!Observes, R!Observes
  <2>4. outcome = "answered" /\ Decisions(trace) = Decisions(reference) =>
          ToSet(trace) = ToSet(reference) /\ Len(trace) = Len(reference)
    BY <1>1, <2>1, SameEvents DEF EndsAsItSays
  <2> QED
    BY <2>2, <2>3, <2>4 DEF ReplayFollowsReference
<1>2. ASSUME ReplayLogs, ReplayInv, phase # "replaying" PROVE ReplayFollowsReference
  <2>1. trace = <<>> /\ outcome = "none"
    BY <1>2 DEF ReplayInv, Fresh
  <2> DEFINE all == Messages(reference)
             D == Seq(Call)
  <2>2. all \in Seq(D)
    BY <1>2, EntryTypes, MessagesAppend DEF ReplayLogs, IsTrace
  <2> HIDE DEF all, D
  <2>3. IsPrefix(<<>>, all)
    BY <2>2 DEF IsPrefix
  <2>4. Messages(trace) = <<>> /\ ToSet(trace) = {}
    BY <2>1, EmptyLog DEF ToSet
  <2> QED
    BY <2>1, <2>3, <2>4 DEF ReplayFollowsReference, all
<1>3. ReplayLogs /\ EndsAsItSays /\ ReplayInv => ReplayFollowsReference
  BY <1>1, <1>2
<1> QED
  BY <1>3, LogsStand, EndsAreRight, ReplayIsARun, ReplayStands, PTL

(* The comparison of the two traces finds no difference unless the replay   *)
(* itself fails: the exit status tells whether it answered, and no more.    *)
THEOREM ExitTells == ReplaySpec => []ExitTellsOfAnswer
<1>1. ASSUME EndsAsItSays, ReplayLogs, ReplayInv, outcome = "answered"
      PROVE  AnswerMatches /\ ToolCallsMatch
  <2>1. phase = "replaying" /\ Follows /\ Answered(trace)
    BY <1>1 DEF ReplayInv, Fresh, EndsAsItSays
  <2>2. Answered(reference) /\ Messages(trace) = Messages(reference)
    BY <1>1, <2>1, SaidAll
  <2> QED
    BY <2>1, <2>2 DEF AnswerMatches, ToolCallsMatch, Chronology
<1>2. EndsAsItSays /\ ReplayLogs /\ ReplayInv => ExitTellsOfAnswer
  BY <1>1 DEF ExitTellsOfAnswer, ReplayExitsClean, RunReturned
<1> QED
  BY <1>2, LogsStand, EndsAreRight, ReplayIsARun, ReplayStands, PTL

(* `naqsha replay --re-execute` and `naqsha eval check` come to the same    *)
(* verdict on a reference that answered, and the first never approves one   *)
(* that did not: a run that fails leaves no answer on disk, and a run that  *)
(* answers leaves one. It approves every replay that answers.               *)
THEOREM SameVerdict == ReplaySpec => []VerdictsAgree
<1>1. EndsAsItSays /\ ExitTellsOfAnswer => VerdictsAgree
  BY DEF EndsAsItSays, VerdictsAgree, EvalPasses, ReplayExitsClean, RunReturned, AnswerMatches
<1> QED
  BY <1>1, ExitTells, ReplayIsARun, EndsAreRight, PTL
==============================================================================

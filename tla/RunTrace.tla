------------------------------ MODULE RunTrace ------------------------------
(***************************************************************************)
(* The Query - Action - Observation - Answer trace of one run, as readers  *)
(* of a trace (replay, transcripts, evaluation fixtures) rely on it: the   *)
(* query comes first; each action is followed by the observations of its   *)
(* own calls, each at most once; nothing new is decided while a call of    *)
(* the latest action is unanswered; a denied call is answered by the       *)
(* denial and by nothing else; and nothing follows an answer or a failure. *)
(***************************************************************************)
EXTENDS Integers, Sequences

CONSTANTS Call, Actions, Outcome, Denied

VARIABLE log

\* Those of SequencesExt, which as a whole cannot be instantiated once for each
\* of several logs and be reasoned about.
ToSet(s) == {s[i] : i \in DOMAIN s}
Last(s) == s[Len(s)]

Query == [kind |-> "query"]
Action(calls, allowed) == [kind |-> "action", calls |-> calls, allowed |-> allowed]
Observation(c, got) == [kind |-> "observation", call |-> c, got |-> got]
Answer == [kind |-> "answer"]
Failure == [kind |-> "failure"]

Entry == {Query, Answer, Failure}
           \cup {Action(calls, allowed) : calls \in Actions, allowed \in SUBSET Call}
           \cup {Observation(c, got) : c \in Call, got \in Outcome \cup {Denied}}

Observes(e, c) == e.kind = "observation" /\ e.call = c

(* c belongs to the latest action and has no observation yet; `verdict`    *)
(* says whether the action's policy decisions allowed it.                  *)
Waiting(c, verdict) ==
  \E k \in DOMAIN log :
    /\ log[k].kind = "action"
    /\ c \in ToSet(log[k].calls)
    /\ verdict = (c \in log[k].allowed)
    /\ \A j \in k + 1 .. Len(log) : log[j].kind # "action" /\ ~Observes(log[j], c)

AllAnswered == \A c \in Call : ~Waiting(c, TRUE) /\ ~Waiting(c, FALSE)

Open == /\ log # <<>>
        /\ Last(log).kind \notin {"answer", "failure"}

Init == log = <<>>

Ask == log = <<>> /\ log' = <<Query>>

Act == \E calls \in Actions : \E allowed \in SUBSET ToSet(calls) :
  Open /\ AllAnswered /\ log' = Append(log, Action(calls, allowed))

Observe == \E c \in Call :
  /\ Open
  /\ \/ Waiting(c, FALSE) /\ log' = Append(log, Observation(c, Denied))
     \/ Waiting(c, TRUE) /\ \E got \in Outcome : log' = Append(log, Observation(c, got))

Finish == Open /\ AllAnswered /\ log' = Append(log, Answer)

Fail == Open /\ log' = Append(log, Failure)

Next == Ask \/ Act \/ Observe \/ Finish \/ Fail

Spec == Init /\ [][Next]_log
=============================================================================

--------------------------- MODULE BatchExecution ---------------------------
(***************************************************************************)
(* What the run loop may assume about one ToolScheduler.execute call: the  *)
(* approved calls of one NAP action are invoked, and the call comes back   *)
(* either with one observation per call, in the order of the calls, or     *)
(* with an exception.  Whichever it is, no invocation is left behind: all  *)
(* of them have ended by then, so nothing a tool of this batch does can    *)
(* happen after the run loop has moved on.                                 *)
(***************************************************************************)
EXTENDS SequencesExt

CONSTANTS Call,        \* the tool calls a batch is made of
          Outcome,     \* what a tool can come back with
          TimedOut,    \* the observation made for a call that took too long
          Missing,     \* the exception of a replayed call with no recording
          NoResult     \* the invocation has not ended

VARIABLES batch,       \* the approved calls, in the order of the action
          running,     \* the calls being invoked
          result,      \* what each invocation came back with
          reply,       \* "open" until execute is left: "returned" or "raised"
          obs          \* the observations handed to the run loop

batchVars == <<batch, running, result, reply, obs>>

Ended(c) == result[c] # NoResult

Init == /\ running = {}
        /\ result = [c \in Call |-> NoResult]
        /\ obs = <<>>
        /\ reply = IF batch = <<>> THEN "returned" ELSE "open"

Invoke(c) == /\ reply = "open"
             /\ c \in ToSet(batch)
             /\ c \notin running /\ ~Ended(c)
             /\ running' = running \cup {c}
             /\ UNCHANGED <<batch, result, reply, obs>>

End(c) == /\ reply = "open"
          /\ c \in running
          /\ running' = running \ {c}
          /\ \E r \in Outcome \cup {Missing} : result' = [result EXCEPT ![c] = r]
          /\ UNCHANGED <<batch, reply, obs>>

Return == /\ reply = "open"
          /\ \A c \in ToSet(batch) : Ended(c)
          /\ obs' \in [1..Len(batch) -> Outcome \cup {TimedOut}]
          /\ \A i \in 1..Len(batch) : obs'[i] \in {result[batch[i]], TimedOut}
          /\ reply' = "returned"
          /\ UNCHANGED <<batch, running, result>>

Raise == /\ reply = "open"
         /\ \A c \in ToSet(batch) : Ended(c)
         /\ reply' = "raised"
         /\ UNCHANGED <<batch, running, result, obs>>

Next == \/ \E c \in Call : Invoke(c) \/ End(c)
        \/ Return
        \/ Raise

Spec == Init /\ [][Next]_batchVars
=============================================================================

----------------------------- MODULE Transcript ------------------------------
(***************************************************************************)
(* What a model adapter makes of the trace of the run so far before it     *)
(* asks its provider (models/trace_turns.py): the turns of a conversation, *)
(* and the messages of the provider's protocol.  Texts are left out; a     *)
(* message is its role with the ids of the calls it makes or answers.      *)
(***************************************************************************)
EXTENDS CoreRuntime

Turn(kind, calls) == [kind |-> kind, calls |-> calls]

\* An observation joins the turn of those before it, as long as the group of
\* its action has not been ended by another event.
\* Mutant: every observation is a turn of its own.
GroupedAlone(got, c) == [got EXCEPT !.turns = Append(@, Turn("tool_observations", <<c>>))]
Grouped(got, c) ==
  IF ~got.open THEN got
  ELSE IF Last(got.turns).kind = "assistant_tools"
  THEN [got EXCEPT !.turns = Append(@, Turn("tool_observations", <<c>>))]
  ELSE [got EXCEPT !.turns[Len(got.turns)].calls = Append(@, c)]

\* What an event adds.
Extended(got, e) ==
  CASE e.kind = "action" ->
         [turns |-> Append(got.turns, Turn("assistant_tools", e.calls)), open |-> TRUE]
    [] e.kind = "observation" -> Grouped(got, e.call)
    [] OTHER -> [got EXCEPT !.open = FALSE]

\* trace_to_transcript: a trace that does not begin with a query is given one.
Nothing == [turns |-> <<Turn("user", <<>>)>>, open |-> FALSE]
Turns(events) ==
  LET got[n \in 0..Len(events)] ==
        IF n = 0 THEN Nothing ELSE Extended(got[n - 1], events[n])
  IN  got[Len(events)].turns

Message(role, calls) == [role |-> role, calls |-> calls]

\* transcript_to_anthropic_messages and transcript_to_gemini_contents: the
\* observations of a group are one message of the user.
UserMessages(events) ==
  [i \in DOMAIN Turns(events) |->
     LET turn == Turns(events)[i]
     IN  Message(IF turn.kind = "assistant_tools" THEN "assistant" ELSE "user", turn.calls)]

\* transcript_to_openai_chat_messages: the system prompt first, and a message
\* for each observation.
Spoken(turn) ==
  CASE turn.kind = "user" -> <<Message("user", <<>>)>>
    [] turn.kind = "assistant_tools" -> <<Message("assistant", turn.calls)>>
    [] turn.kind = "tool_observations" ->
         [i \in DOMAIN turn.calls |-> Message("tool", <<turn.calls[i]>>)]
ToolMessages(events) ==
  LET turns == Turns(events)
      spoken[n \in 0..Len(turns)] ==
        IF n = 0 THEN <<Message("system", <<>>)>> ELSE spoken[n - 1] \o Spoken(turns[n])
  IN  spoken[Len(turns)]

-----------------------------------------------------------------------------
AnswersAll(asked, answered) ==
  IsInjective(answered) /\ ToSet(asked) = ToSet(answered)
ToolRun(messages, i) == \* the tool messages that follow the one at i
  {j \in DOMAIN messages : j > i /\ \A k \in i + 1 .. j : messages[k].role = "tool"}

\* Whenever the model is asked, the conversation is one the providers accept:
\* roles alternate and the message after a request for tools answers each of
\* its calls once, whatever was denied, failed or recorded in whichever order
\* (trace_turns.py 97-261, core/runtime.py 251-258 and 400-489).
ConversationIsWellFormed ==
  pc = "ask" =>
    LET said == UserMessages(trace)
        chat == ToolMessages(trace)
    IN  /\ Last(said).role = "user"
        /\ \A i \in DOMAIN said :
             /\ said[i].role = IF i % 2 = 1 THEN "user" ELSE "assistant"
             /\ said[i].role = "assistant" => AnswersAll(said[i].calls, said[i + 1].calls)
        /\ \A i \in DOMAIN chat : chat[i].role = "assistant" =>
             /\ Cardinality(ToolRun(chat, i)) = Len(chat[i].calls)
             /\ {chat[j].calls[1] : j \in ToolRun(chat, i)} = ToSet(chat[i].calls)
==============================================================================

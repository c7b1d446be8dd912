------------------------------- MODULE Surfaces -------------------------------
(***************************************************************************)
(* One turn of the backend through both OpenAI surfaces: ResponsesStream   *)
(* and ChatStream take every step together, each with a state of its own.  *)
(* The handlers of serve.rs are alike, so whichever endpoint a client      *)
(* talks to should give it the same answer.                                *)
(***************************************************************************)
EXTENDS ResponsesStream

VARIABLES
  chat,        \* the ChatResponseState
  usageWanted  \* stream_options.include_usage, and the backend counts usage

Chat == INSTANCE ChatStream WITH st <- chat

bothVars == <<vars, chat, usageWanted>>

BothInit == Init /\ Chat!Init

BothNext ==
  \E u \in Upstream :
    \/ Render(u) /\ Chat!Render(u)
    \/ Absorb(u) /\ Chat!Absorb(u)

BothSpec == BothInit /\ [][BothNext]_bothVars

-----------------------------------------------------------------------------
(* Properties of the chat surface, as ChatStream states them.              *)

\* The stream of chunks and the answer in one piece are the same message
\* (ChatResponseState::apply, response).
StreamAgreesWithResponse == Chat!StreamAgreesWithResponse

\* One [DONE] ends every stream of chunks, also after a failure (apply).
EndsWithDone == Chat!EndsWithDone

\* The reasoning text of the chat surface is complete and in order, and does not
\* open with a paragraph break (apply, ThinkingBreak).
ReasoningText == Chat!ReasoningText

\* Every chunk names the routed model (output_model).
OneModel == Chat!OneModel

-----------------------------------------------------------------------------
(* Properties of the two together.                                         *)

EndNames == {st.sent[i].name : i \in 1 .. Len(st.sent)} \cap {"completed", "failed"}

\* Whichever surface a client uses, a turn gives it the same tool calls and the
\* same text, ends in the same way, and names the same model in the end
\* (ResponsesState, ChatResponseState).
SurfacesAgree ==
  LET items == Append(st.output, st.open) IN
  /\ Deltas(items, {"message"}) = chat.text
  /\ Deltas(items, {"call"}) = FlattenSeq(chat.calls)
  /\ st.failed = chat.failed
  /\ "completed" \in EndNames <=> chat.stop # "none"
  /\ phase \in {"body", "over"} /\ ~st.failed => st.model = Chat!OutputModel(chat)

=============================================================================

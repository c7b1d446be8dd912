----------------------------- MODULE ChatStream -----------------------------
(***************************************************************************)
(* POST /v1/chat/completions: ChatResponseState accumulates one turn.  A   *)
(* streaming client gets the chunks of apply, a non-streaming one the      *)
(* message that response() makes of the state when the turn is over.       *)
(***************************************************************************)
EXTENDS UpstreamTurn

VARIABLES
  st,          \* ChatResponseState, and the log sent of what went out
  usageWanted  \* stream_options.include_usage, and the backend counts usage

vars == <<turnVars, st, usageWanted>>

NewState ==
  [model |-> "none", text |-> <<>>, reasoning |-> <<>>, calls |-> <<>>,
   stop |-> "none", failed |-> FALSE, sent |-> <<>>]

\* The paragraph break in a reasoning text; a delta is the number of its event.
Break == 0

OutputModel(s) == IF s.model = "none" THEN "requested" ELSE s.model

Emit(s, c) == [s EXCEPT !.sent = Append(@, c)]

Chunk(s, kind) == [kind |-> kind, model |-> OutputModel(s), n |-> 0, index |-> 0, finish |-> "none"]

\* What is sent without the envelope of a chunk.
Bare(kind) == [kind |-> kind, model |-> "none", n |-> 0, index |-> 0, finish |-> "none"]
DoneMark == Bare("[DONE]")

-----------------------------------------------------------------------------
(* apply, one operator per kind of event.                                  *)

\* Mutant: the routed model is not noted.
ModelUnnoted(s, e) == s.model

NamedModel(s, e) == e.arg

Begin(s, e) == LET b == [s EXCEPT !.model = NamedModel(s, e)] IN Emit(b, Chunk(b, "role"))

\* Mutant: text that follows a tool call is taken for a preamble and dropped.
TextBeforeCalls(s, n) ==
  IF s.calls # <<>> THEN s
  ELSE Emit([s EXCEPT !.text = Append(@, n)], [Chunk(s, "content") EXCEPT !.n = n])

AddText(s, n) == Emit([s EXCEPT !.text = Append(@, n)], [Chunk(s, "content") EXCEPT !.n = n])

AddReasoning(s, n) ==
  Emit([s EXCEPT !.reasoning = Append(@, n)], [Chunk(s, "reasoning") EXCEPT !.n = n])

\* Mutant: every boundary of a block becomes a paragraph break.
Always(s) == TRUE

\* Before the first text there is nothing to separate.
Separates(s) == s.reasoning # <<>>

AddBreak(s) == IF Separates(s) THEN AddReasoning(s, Break) ELSE s

\* Mutant: the index is taken after the call was pushed.
IndexAfterPush(s) == Len(s.calls) + 1

CallIndex(s) == Len(s.calls)

AddCall(s, n) ==
  Emit([s EXCEPT !.calls = Append(@, <<n>>)],
       [Chunk(s, "tool_call") EXCEPT !.n = n, !.index = CallIndex(s)])

Finish(s) == IF s.calls = <<>> THEN "stop" ELSE "tool_calls"

Complete(s, reason) ==
  LET c == [s EXCEPT !.stop = reason]
      finished == Emit(c, [Chunk(c, "finish") EXCEPT !.finish = Finish(c)])
      counted == IF usageWanted THEN Emit(finished, Chunk(c, "usage")) ELSE finished
  IN Emit(counted, DoneMark)

FailTurn(s) == Emit(Emit([s EXCEPT !.failed = TRUE], Bare("error")), DoneMark)

\* Mutant: the events after a failure are rendered too.
FailureIgnored(s) == FALSE

Over(s) == s.failed

Apply(s, e) ==
  IF Over(s) THEN s
  ELSE CASE e.type = "started"                     -> Begin(s, e)
         [] e.type = "text_delta"                  -> AddText(s, e.n)
         [] e.type = "thinking_delta"              -> AddReasoning(s, e.n)
         [] e.type = "thinking_break"              -> AddBreak(s)
         [] e.type = "tool_call"                   -> AddCall(s, e.n)
         [] e.type = "done"                        -> Complete(s, e.arg)
         [] e.type = "failed"                      -> FailTurn(s)
         [] e.type \in {"rate_limits", "reasoning"} -> s

\* The message of a non-streaming turn: text next to tool calls is dropped.
Response(s) ==
  [model |-> OutputModel(s), content |-> IF s.calls = <<>> THEN s.text ELSE <<>>,
   calls |-> s.calls, finish |-> Finish(s)]

-----------------------------------------------------------------------------
Init == TurnInit /\ st = NewState /\ usageWanted \in BOOLEAN

\* An event of the backend that reaches the surface, and one that does not.
Render(u) == u \notin Silent /\ Send(u) /\ st' = Apply(st, MapOne(u)) /\ UNCHANGED usageWanted
Absorb(u) == u \in Silent /\ Send(u) /\ UNCHANGED <<st, usageWanted>>

Next == \E u \in Upstream : Render(u) \/ Absorb(u)

Spec == Init /\ [][Next]_vars

-----------------------------------------------------------------------------
(* What a client of the streaming API puts together.                       *)

\* The deltas of one kind, in the order in which they went out.
Streamed(kind) ==
  FlattenSeq([i \in 1 .. Len(st.sent) |-> IF st.sent[i].kind = kind THEN <<st.sent[i].n>> ELSE <<>>])

\* Tool-call deltas are merged by their index; a gap leaves an empty call.
MergeCall(calls, c) ==
  [i \in 1 .. IF c.index < Len(calls) THEN Len(calls) ELSE c.index + 1 |->
     LET known == IF i <= Len(calls) THEN calls[i] ELSE <<>>
     IN IF i = c.index + 1 THEN Append(known, c.n) ELSE known]

ReadChunk(calls, c) == IF c.kind = "tool_call" THEN MergeCall(calls, c) ELSE calls

StreamedCalls == FoldLeft(ReadChunk, <<>>, st.sent)

\* The thinking text and its paragraph breaks, from the first text on.
Thought(i) ==
  CASE given[i].type = "thinking_delta" /\ BeforeFailure(i) -> <<given[i].n>>
    [] /\ given[i].type = "thinking_break" /\ BeforeFailure(i)
       /\ \E j \in 1 .. i : given[j].type = "thinking_delta" -> <<Break>>
    [] OTHER -> <<>>

-----------------------------------------------------------------------------
(* Properties.                                                             *)

\* A turn read as a stream and the same turn read in one piece have the same calls
\* at the same indices, the same finish reason, the same model, and the same text
\* unless a call makes response() drop it (apply, response).  The one-piece message
\* has no reasoning.
StreamAgreesWithResponse ==
  (st.stop # "none") =>
    LET r == Response(st)
        finishes == {i \in 1 .. Len(st.sent) : st.sent[i].kind = "finish"}
    IN /\ StreamedCalls = r.calls
       /\ finishes # {}
       /\ \A i \in finishes : st.sent[i].finish = r.finish /\ st.sent[i].model = r.model
       /\ r.calls = <<>> => Streamed("content") = r.content
       /\ Streamed("content") = Handled({"text_delta"})

\* A stream ends with one [DONE], whether the turn completes, fails, or fails on
\* an item that cannot be serialised while the backend goes on (the test
\* stream_failure_is_structured_and_not_success).
EndsWithDone ==
  LET dones == {i \in 1 .. Len(st.sent) : st.sent[i] = DoneMark} IN
  IF st.failed \/ phase = "over" THEN dones = {Len(st.sent)} ELSE dones = {}

\* reasoning_content is the thinking text, complete and in order, with a paragraph
\* break for each boundary that the backend announces after the first text, and
\* none for those before it (ThinkingBreak).
ReasoningText ==
  /\ Streamed("reasoning") = st.reasoning
  /\ st.reasoning = FlattenSeq([i \in 1 .. Len(given) |-> Thought(i)])

\* Every chunk of a turn names the model the backend routed it to, where it
\* names one (Started, output_model).
OneModel ==
  \A j \in 1 .. Len(given) : (given[j].type = "started" /\ given[j].arg = "routed") =>
    \A i \in 1 .. Len(st.sent) : st.sent[i].model \in {"routed", "none"}

\* Between the texts of two thinking blocks there is a paragraph break: without
\* it they run together into one line (Event::ThinkingBreak).  A block ends with
\* a boundary of its item, and with the item, in a turn that keeps its order.
BlocksSeparated ==
  orderly => \A i, j \in 1 .. Len(st.reasoning) :
    /\ i < j
    /\ st.reasoning[i] # Break
    /\ st.reasoning[j] # Break
    /\ \E k \in st.reasoning[i] .. st.reasoning[j] : given[k].type \in {"thinking_break", "reasoning"}
    => \E k \in i .. j : st.reasoning[k] = Break
=============================================================================

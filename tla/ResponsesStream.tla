--------------------------- MODULE ResponsesStream ---------------------------
(***************************************************************************)
(* POST /v1/responses: ResponsesState accumulates one turn and renders it  *)
(* as events of the Responses API.  The state is one record, so that a     *)
(* call of apply is the composition of the helpers it calls; sent is the   *)
(* log of what went to the client, an event's sequence_number its place    *)
(* there.  Indices of output and of summary parts start at 0, as in the    *)
(* API.                                                                    *)
(***************************************************************************)
EXTENDS UpstreamTurn, ResponsesClient

VARIABLE st   \* ResponsesState

vars == <<turnVars, st>>

NoSlot == -1

\* An item's id is the place of its output_item.added in the stream, or 0 for
\* an id of the backend.  A body is a sequence of parts, a part the sequence of
\* the deltas that filled it.
NewState ==
  [created |-> FALSE, model |-> "requested", output |-> <<>>, open |-> NoItem,
   slot |-> NoSlot, status |-> "completed", failed |-> FALSE, sent |-> <<>>]

Emit(s, e) == [s EXCEPT !.sent = Append(@, e)]

\* A part without a delta.
NoText == <<>>

Here(s) == Len(s.output)

Envelope(s, name) ==
  [name |-> name, status |-> s.status, model |-> s.model, output |-> s.output]

ItemAdded(s, item) == [name |-> "item.added", at |-> Here(s), item |-> item]
ItemDone(at, item) == [name |-> "item.done", at |-> at, item |-> item]

\* An event about part i of item id, which is the one being streamed.
PartEvent(s, name, id, i, text) ==
  [name |-> name, at |-> Here(s), id |-> id, part |-> i, text |-> text]

\* About the part that is filling: the last one of the open item.
OpenPart(s, name, text) ==
  PartEvent(s, name, s.open.id, Len(s.open.body) - 1, text)

-----------------------------------------------------------------------------
(* Item bookkeeping.                                                       *)

\* Mutant: every event announces the response.
AnnouncedAlways(s, e) == FALSE

\* ensure_created has run.
Announced(s, e) == s.created

EnsureCreated(s, e) ==
  IF Announced(s, e) THEN s
  ELSE LET named == IF e.type = "started" /\ e.arg # "none" THEN e.arg ELSE s.model
           c == [s EXCEPT !.created = TRUE, !.model = named]
           begun == [Envelope(c, "created") EXCEPT !.status = "in_progress"]
       IN Emit(Emit(c, begun), [begun EXCEPT !.name = "in_progress"])

\* finish_summary_part, and the same pair of events for a message.
FinishPart(s) ==
  Emit(Emit(s, OpenPart(s, "text.done", Last(s.open.body))),
       OpenPart(s, "part.done", Last(s.open.body)))

\* Mutant: the place is not remembered.
SlotForgotten(s) == s.slot

\* Where close_open parks a reconstruction, the stand-in.
SlotAfter(s) == IF s.open.kind = "stand_in" THEN Here(s) ELSE s.slot

\* close_open: what was streamed becomes an item of the output.
CloseOpen(s) ==
  IF ~IsOpen(s) THEN s
  ELSE [Emit(FinishPart(s), ItemDone(Here(s), s.open)) EXCEPT
          !.output = Append(@, s.open), !.open = NoItem, !.slot = SlotAfter(s)]

\* A new item of this kind begins, with one empty part.
Begin(s, kind) ==
  LET item == [kind |-> kind, id |-> Len(s.sent), body |-> <<>>]
      added == Emit(s, ItemAdded(s, item))
  IN [Emit(added, PartEvent(s, "part.added", item.id, 0, NoText)) EXCEPT
        !.open = [item EXCEPT !.body = <<NoText>>]]

OpenReasoning(s) ==
  IF s.open.kind = "stand_in" THEN s
  ELSE [Begin(CloseOpen(s), "stand_in") EXCEPT !.slot = NoSlot]

\* Mutant: text joins whatever item is open.
AnythingOpen(s) == IsOpen(s)

MessageOpen(s) == s.open.kind = "message"

OpenMessage(s) == IF MessageOpen(s) THEN s ELSE Begin(CloseOpen(s), "message")

-----------------------------------------------------------------------------
(* apply, one operator per kind of event.                                  *)

\* A delta goes to the part that is filling.
Extend(s, n) ==
  [Emit(s, OpenPart(s, "delta", n)) EXCEPT !.open.body[Len(s.open.body)] = Append(@, n)]

\* ThinkingBreak closes the part that is filling and opens the next one.
NextPart(s) ==
  IF s.open.kind # "stand_in" THEN s
  ELSE [Emit(FinishPart(s), PartEvent(s, "part.added", s.open.id, Len(s.open.body), NoText))
          EXCEPT !.open.body = Append(@, NoText)]

\* A reasoning item that arrives while text is streamed closes the message.
MessageClosed(s) == IF MessageOpen(s) THEN CloseOpen(s) ELSE s

\* Mutant: the place of the stand-in is kept after it was replaced.
SlotKept(s) == s.slot

\* The slot after a reasoning item of the backend was placed.
SlotCleared(s) == NoSlot

\* The backend's own reasoning item goes out verbatim: it closes the open
\* reconstruction, replaces the parked one, or is added as it is.
AddReasoning(s, n) ==
  LET c == MessageClosed(s)
      item == [kind |-> "reasoning", id |-> 0, body |-> <<(<<n>>)>>]
      placed ==
        IF IsOpen(c) THEN
          [Emit(FinishPart(c), ItemDone(Here(c), item)) EXCEPT
             !.output = Append(@, item), !.open = NoItem]
        ELSE IF c.slot # NoSlot THEN
          [Emit(c, ItemDone(c.slot, item)) EXCEPT !.output[c.slot + 1] = item]
        ELSE
          [Emit(Emit(c, ItemAdded(c, item)), ItemDone(Here(c), item)) EXCEPT
             !.output = Append(@, item)]
  IN [placed EXCEPT !.slot = SlotCleared(c)]

\* Arguments arrive whole: added, one delta, done, item done.
AddCall(s, n) ==
  LET c == CloseOpen(s)
      id == Len(c.sent)
      item == [kind |-> "call", id |-> id, body |-> <<(<<n>>)>>]
      added == Emit(c, ItemAdded(c, [item EXCEPT !.body = <<NoText>>]))
      filled == Emit(Emit(added, PartEvent(c, "delta", id, 0, n)),
                     PartEvent(c, "part.done", id, 0, <<n>>))
  IN [Emit(filled, ItemDone(Here(c), item)) EXCEPT !.output = Append(@, item)]

Complete(s, reason) ==
  LET c == [CloseOpen(s) EXCEPT !.status = IF reason = "aborted" THEN "incomplete" ELSE "completed"]
  IN Emit(c, Envelope(c, "completed"))

\* What was open stays open: it is not in the envelope of the failure.
FailTurn(s) ==
  LET f == [s EXCEPT !.status = "failed", !.failed = TRUE] IN Emit(f, Envelope(f, "failed"))

\* Mutant: the events after a failure are rendered too.
FailureIgnored(s) == FALSE

Over(s) == s.failed

Apply(s, e) ==
  IF Over(s) THEN s
  ELSE LET c == EnsureCreated(s, e) IN
    CASE e.type = "started"        -> [c EXCEPT !.model = IF e.arg # "none" THEN e.arg ELSE @]
      [] e.type = "thinking_delta" -> Extend(OpenReasoning(c), e.n)
      [] e.type = "thinking_break" -> NextPart(c)
      [] e.type = "reasoning"      -> AddReasoning(c, e.n)
      [] e.type = "text_delta"     -> Extend(OpenMessage(c), e.n)
      [] e.type = "tool_call"      -> AddCall(c, e.n)
      [] e.type = "done"           -> Complete(c, e.arg)
      [] e.type = "failed"         -> FailTurn(c)
      [] e.type = "rate_limits"    -> c

-----------------------------------------------------------------------------
Init == TurnInit /\ st = NewState

\* An event of the backend that reaches the surface, and one that does not.
Render(u) == u \notin Silent /\ Send(u) /\ st' = Apply(st, MapOne(u))
Absorb(u) == u \in Silent /\ Send(u) /\ UNCHANGED st

Next == \E u \in Upstream : Render(u) \/ Absorb(u)

Spec == Init /\ [][Next]_vars

-----------------------------------------------------------------------------
(* Properties.                                                             *)

\* Every event can be placed by a client that appends deltas to the open item,
\* and what the client has put together is what the state holds: the open item,
\* the closed ones, and the terminal event's envelope (apply).
ClientFollows ==
  LET v == View(st.sent) IN
  v.ok /\ v.items = st.output /\ v.open = st.open

\* What the items of some kinds say, in the order of the output.
Deltas(items, kinds) ==
  FlattenSeq([i \in 1 .. Len(items) |->
    IF items[i].kind \in kinds THEN FlattenSeq(items[i].body) ELSE <<>>])

\* Whatever the order of the backend's events: text and tool calls appear in the
\* output, completely and in the order in which they came (open_message,
\* close_open, ToolCall).
NothingLost ==
  Deltas(Append(st.output, st.open), {"message", "call"}) = Handled({"text_delta", "tool_call"})

\* When a turn of a backend that finishes one reasoning item before the next has
\* completed, each of its reasoning items is in the output once, verbatim and in
\* order, with no reconstruction next to it: that is what a client can replay
\* (Event::Reasoning, reasoning_slot).
ReasoningReplayable ==
  (orderly /\ st.sent # <<>> /\ Last(st.sent).name = "completed") =>
    Deltas(st.output, {"reasoning", "stand_in"}) = Received({"reasoning"})

\* The slot, while set, is the place of a reconstruction still to be replaced,
\* never that of an item that is final (reasoning_slot).
SlotIsStandIn ==
  st.slot # NoSlot =>
    /\ st.slot \in 0 .. Len(st.output) - 1
    /\ st.output[st.slot + 1].kind = "stand_in"

\* An item that has gone out as done stays as it is and where it is; only a
\* reconstruction is replaced (output).
SettledItems ==
  [][\A i \in 1 .. Len(st.output) :
       /\ i <= Len(st'.output)
       /\ \/ st'.output[i] = st.output[i]
          \/ st.output[i].kind = "stand_in" /\ st'.output[i].kind = "reasoning"]_vars

\* Nothing follows the terminal event (failed; a_failure_is_structured).
NothingAfterTheEnd ==
  [][(st.sent # <<>> /\ Last(st.sent).name \in {"completed", "failed"})
       => st'.sent = st.sent]_vars

\* response.created names the model the backend routed the turn to, where the
\* backend names one (the test the_sequence_number_counts_without_gaps).
CreatedNamesRoutedModel ==
  \A i \in 1 .. Len(st.sent), j \in 1 .. Len(given) :
    (st.sent[i].name = "created" /\ given[j].type = "started" /\ given[j].arg = "routed")
      => st.sent[i].model = "routed"
=============================================================================

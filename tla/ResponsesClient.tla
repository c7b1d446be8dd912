--------------------------- MODULE ResponsesClient ---------------------------
(***************************************************************************)
(* How a client follows a stream of the Responses API: it opens an item    *)
(* when one is added, appends to its parts, closes it, and keeps the list  *)
(* of closed items.  An event it cannot place leaves the view broken.      *)
(* This is the protocol that the events of POST /v1/responses are checked  *)
(* against.                                                                *)
(***************************************************************************)
EXTENDS Integers, Sequences, SequencesExt

NoItem == [kind |-> "none", id |-> 0, body |-> <<>>]

NewView == [phase |-> "new", items |-> <<>>, open |-> NoItem, partOpen |-> FALSE, ok |-> TRUE]

IsOpen(v) == v.open.kind # "none"

\* The event is about the last part of the open item.
InLastPart(v, e) ==
  /\ IsOpen(v) /\ v.partOpen
  /\ e.at = Len(v.items) /\ e.id = v.open.id /\ e.part = Len(v.open.body) - 1

\* An open item closes with what its deltas said; a reasoning item closes with
\* the backend's own version of it.
Closes(v, item) ==
  /\ IsOpen(v) /\ ~v.partOpen
  /\ \/ item = v.open
     \/ item.kind = "reasoning" /\ v.open.kind = "stand_in"

\* A closed item changes in one way: the backend's version replaces a stand-in.
Replaces(v, at, item) ==
  /\ item.kind = "reasoning"
  /\ v.items[at + 1].kind = "stand_in"

Legal(v, e) ==
  CASE e.name = "created"     -> v.phase = "new"
    [] e.name = "in_progress" -> v.phase = "created"
    [] e.name = "item.added"  -> v.phase = "streaming" /\ ~IsOpen(v) /\ e.at = Len(v.items)
    [] e.name = "part.added"  ->
         /\ IsOpen(v) /\ ~v.partOpen
         /\ e.at = Len(v.items) /\ e.id = v.open.id /\ e.part = Len(v.open.body)
    [] e.name = "delta"       -> InLastPart(v, e)
    [] e.name \in {"text.done", "part.done"} -> InLastPart(v, e) /\ e.text = Last(v.open.body)
    [] e.name = "item.done"   -> IF e.at = Len(v.items) THEN Closes(v, e.item)
                                 ELSE ~IsOpen(v) /\ Replaces(v, e.at, e.item)
    [] e.name = "completed"   -> v.phase = "streaming" /\ ~IsOpen(v) /\ e.output = v.items
    [] e.name = "failed"      -> v.phase = "streaming" /\ e.output = v.items

Take(v, e) ==
  CASE e.name = "created"     -> [v EXCEPT !.phase = "created"]
    [] e.name = "in_progress" -> [v EXCEPT !.phase = "streaming"]
    [] e.name = "item.added"  -> [v EXCEPT !.open = e.item, !.partOpen = e.item.kind = "call"]
    [] e.name = "part.added"  -> [v EXCEPT !.open.body = Append(@, <<>>), !.partOpen = TRUE]
    [] e.name = "delta"       -> [v EXCEPT !.open.body[e.part + 1] = Append(@, e.text)]
    [] e.name = "text.done"   -> v
    [] e.name = "part.done"   -> [v EXCEPT !.partOpen = FALSE]
    [] e.name = "item.done"   ->
         [v EXCEPT !.items = IF e.at = Len(@) THEN Append(@, e.item)
                             ELSE ReplaceAt(@, e.at + 1, e.item),
                   !.open = NoItem]
    [] e.name \in {"completed", "failed"} -> [v EXCEPT !.phase = "ended"]

Read(v, e) == IF v.ok /\ Legal(v, e) THEN Take(v, e) ELSE [v EXCEPT !.ok = FALSE]

\* What the client has after reading the events s.
View(s) == FoldLeft(Read, NewView, s)
=============================================================================

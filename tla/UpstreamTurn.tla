---------------------------- MODULE UpstreamTurn ----------------------------
(***************************************************************************)
(* The events of one turn, as Client::stream hands them to a surface: one  *)
(* quota event built from the response headers, then whatever map_events   *)
(* makes of the backend's events.  An event is numbered by its place in    *)
(* the turn; the number stands for the text, the call or the reasoning     *)
(* item it carries.                                                        *)
(***************************************************************************)
EXTENDS Integers, Sequences, SequencesExt

CONSTANT MaxEvents  \* bound: events of a turn before its terminal one

ASSUME TurnAssumption == MaxEvents \in Nat

VARIABLES
  phase,     \* what the backend sends next: quota headers, head, body, nothing
  slot,      \* ServerModelSlot.model, "none" until the backend names a model
  thinking,  \* the backend's reasoning item: closed, open, or late (its end
             \* is still to come although later items have begun)
  orderly,   \* has every event so far come in the order of InOrder?
  given      \* the events handed out so far

turnVars == <<phase, slot, thinking, orderly, given>>

\* What the backend can send.  "part" is the announcement of a second or later
\* summary part, "broken" a reasoning item that cannot be serialised, "cut" a
\* completion with end_turn = false.  What map_one drops without a trace (first
\* parts, message items, per-family rate limits) is left out.
Content == {"text", "summary", "part", "reasoning", "broken", "call"}
Final == {"completed", "cut", "error"}
Silent == {"server_model"}
Upstream == {"quota", "created"} \cup Content \cup Final \cup Silent

EventTypes == {"rate_limits", "started", "text_delta", "thinking_delta",
               "thinking_break", "reasoning", "tool_call", "done", "failed"}

TurnTypeOK ==
  /\ phase \in {"quota", "head", "body", "over"}
  /\ slot \in {"none", "routed"}
  /\ thinking \in {"closed", "open", "late"}
  /\ orderly \in BOOLEAN
  /\ given \in Seq([type : EventTypes, arg : STRING, n : Nat])

TurnInit ==
  /\ phase = "quota" /\ slot = "none" /\ thinking = "closed" /\ orderly = TRUE
  /\ given = <<>>

Event(type, arg) == [type |-> type, arg |-> arg, n |-> Len(given) + 1]

\* The event that one event of the backend becomes (map_one, map_events).
MapOne(u) ==
  CASE u = "quota"                -> Event("rate_limits", "")
    [] u = "created"              -> Event("started", slot)
    [] u = "text"                 -> Event("text_delta", "")
    [] u = "summary"              -> Event("thinking_delta", "")
    [] u = "part"                 -> Event("thinking_break", "")
    [] u = "reasoning"            -> Event("reasoning", "")
    [] u = "call"                 -> Event("tool_call", "")
    [] u = "completed"            -> Event("done", "end_turn")
    [] u = "cut"                  -> Event("done", "aborted")
    [] u \in {"broken", "error"}  -> Event("failed", "")

\* A backend that streams its items in order.  The end of a reasoning item may
\* come late, after the text that follows it has begun, but never after the
\* next reasoning item has.  Nothing enforces this order: it is only recorded,
\* for the properties that need it.
InOrder(u) ==
  /\ u = "summary" => thinking # "late"
  /\ u = "part" => thinking = "open"
  /\ u \in {"completed", "cut"} => thinking = "closed"

ThinkingAfter(u) ==
  CASE u = "summary"                                 -> "open"
    [] u \in {"reasoning", "broken"}                 -> "closed"
    [] u \in {"text", "call"} /\ thinking = "open"   -> "late"
    [] OTHER                                         -> thinking

PhaseAfter(u) ==
  CASE u = "quota" -> "head" [] u = "created" -> "body" [] u \in Final -> "over" [] OTHER -> phase

\* The quota event is put before the backend's by Client::stream.  That the backend
\* announces a turn once, before anything else, is the protocol of the Responses
\* API: nothing here enforces it, and the models of both surfaces rely on it.
Sendable(u) ==
  CASE phase = "quota" -> u = "quota"
    [] phase = "head"  -> u \in {"created", "error"} \/ (u = "server_model" /\ slot = "none")
    [] phase = "body"  -> u \in Final \/ (u \in Content /\ Len(given) < MaxEvents)
    [] OTHER           -> FALSE

\* The backend sends u.  An error ends the turn, as a completion does; an item
\* that cannot be serialised does not.
Send(u) ==
  /\ Sendable(u)
  /\ orderly' = (orderly /\ InOrder(u))
  /\ phase' = PhaseAfter(u)
  /\ slot' = IF u = "server_model" THEN "routed" ELSE slot
  /\ thinking' = ThinkingAfter(u)
  /\ given' = IF u \in Silent THEN given ELSE Append(given, MapOne(u))

-----------------------------------------------------------------------------
(* What the properties of the surfaces compare their output with.          *)

\* The events of some types, and those of them that came before a failure.
Received(types) ==
  FlattenSeq([i \in 1 .. Len(given) |-> IF given[i].type \in types THEN <<given[i].n>> ELSE <<>>])

BeforeFailure(i) == \A j \in 1 .. i : given[j].type # "failed"

Handled(types) ==
  FlattenSeq([i \in 1 .. Len(given) |->
    IF given[i].type \in types /\ BeforeFailure(i) THEN <<given[i].n>> ELSE <<>>])
=============================================================================

----------------------------- MODULE Conversation -----------------------------
(***************************************************************************)
(* The requests of one conversation.  A client holds the conversation and  *)
(* sends all of it with every turn; to_wire of either surface translates   *)
(* it, and Client::stream makes the backend's request of that and derives  *)
(* the key that routes it to the machine with the conversation's cache.    *)
(* The same conversation is held here through both surfaces at once, so    *)
(* that what they make of it can be compared.                              *)
(*                                                                         *)
(* Entries are numbered by their place; a text is the number of its entry  *)
(* with the places of the parts it was joined from, no parts meaning "".   *)
(***************************************************************************)
EXTENDS ModelCatalogue

CONSTANTS
  MaxTalk,      \* bound: entries of a conversation
  MaxTurns,     \* bound: requests of a conversation
  Entries,      \* what may be written: roles with contents
  Replies,      \* what the backend may answer: a content, calls, reasoning or not
  Settings,     \* what clients keep for a whole conversation
  Efforts       \* efforts a client may ask for

\* A content is null, a string, or an array of parts.
IsContent(content) ==
  \/ content.shape = "null" /\ content.parts = <<>>
  \/ content.shape = "string" /\ content.parts = <<"text">>
  \/ content.shape = "array" /\ content.parts \in Seq(STRING)

ASSUME ConversationAssumption ==
  /\ MaxTalk \in Nat /\ MaxTurns \in Nat
  /\ \A e \in Entries : IsContent(e.content) /\ e.role \notin {"assistant", "tool"}
  \* Both surfaces give a client its answer as a string, or none beside tool calls.
  /\ \A r \in Replies : /\ IsContent(r.content) /\ r.content.shape # "array"
                        /\ r.calls \in Nat /\ r.thought \in BOOLEAN

VARIABLES
  backend,   \* the backend's catalogue
  settings,  \* the client's tools, its key, and the state it expects of a server
  talk,      \* the conversation, as the client holds it
  told,      \* the entries up to the last answer
  turns,     \* requests so far
  waiting,   \* is a turn under way?
  accepted,  \* the surfaces that took the last request
  last       \* per surface: the backend's last request, if there was one

vars == <<backend, settings, talk, told, turns, waiting, accepted, last>>

Surface == {"chat", "responses"}
Nothing == <<>>

\* The text of a content.
Text(n, content) == [n |-> n, parts |-> {i \in DOMAIN content.parts : content.parts[i] = "text"}]
IsText(content) == content.shape # "null"

\* Items of the backend's input.
Message(role, parts) == [type |-> "message", role |-> role, content |-> parts]
Part(type, text) == [type |-> type, text |-> text]
FunctionCall(id) == [type |-> "function_call", call |-> id]
FunctionCallOutput(id) == [type |-> "function_call_output", call |-> id]
Reasoning(n) == [type |-> "reasoning", encrypted |-> n]

CallIds(n, e) == [k \in 1 .. e.calls |-> <<n, k>>]

-----------------------------------------------------------------------------
(* Tools. A list that is absent is not the empty one.                      *)

\* A function may be written in full, or sparsely, without the fields that have
\* defaults; built-in tools and functions without a name are refused.
ToolsRefused(tools) == \E i \in DOMAIN tools.list : tools.list[i] \notin {"full", "sparse"}

\* Flattened to the shape of the Responses API, with description, parameters and
\* strict filled in.
Filled(list) == [i \in DOMAIN list |-> IF list[i] = "sparse" THEN "defaults" ELSE list[i]]
ChatTools(tools) == [given |-> tools.given, list |-> Filled(tools.list)]

-----------------------------------------------------------------------------
(* openai_chat::to_wire.                                                   *)

Instructs(e) == e.role \in {"system", "developer"}

\* Before the first message of another role.
Leading(messages, n) == \A i \in 1 .. n : Instructs(messages[i])

ChatPartType == [text |-> "input_text", image_url |-> "input_image"]

ChatContentRefused(content) ==
  \/ content.shape = "null"
  \/ \E i \in DOMAIN content.parts : content.parts[i] \notin DOMAIN ChatPartType

ChatContent(n, content) ==
  IF content.shape = "string" THEN <<Part("input_text", Text(n, content))>>
  ELSE [i \in DOMAIN content.parts |-> Part(ChatPartType[content.parts[i]], [n |-> n, parts |-> {i}])]

ChatMessageRefused(e) ==
  \/ e.role \notin {"system", "developer", "user", "assistant", "tool"}
  \/ e.role = "user" /\ ChatContentRefused(e.content)
  \/ e.role = "tool" /\ e.call = Nothing

\* Mutant: a message has either text or calls.
TextOrCalls(n, e) ==
  IF Text(n, e.content).parts # {} THEN <<Message("assistant", <<Part("output_text", Text(n, e.content))>>)>>
  ELSE [k \in 1 .. e.calls |-> FunctionCall(CallIds(n, e)[k])]

\* The text, unless there is none, and one item for each call.
ChatAnswer(n, e) ==
  (IF IsText(e.content) /\ Text(n, e.content).parts # {}
     THEN <<Message("assistant", <<Part("output_text", Text(n, e.content))>>)>> ELSE <<>>)
  \o [k \in 1 .. e.calls |-> FunctionCall(CallIds(n, e)[k])]

ChatItems(messages, n) ==
  LET e == messages[n] IN
  CASE Leading(messages, n)                  -> <<>>
    [] Instructs(e) /\ ~Leading(messages, n) -> <<Message("user", <<Part("input_text", Text(n, e.content))>>)>>
    [] e.role = "user"                       -> <<Message("user", ChatContent(n, e.content))>>
    [] e.role = "assistant"                  -> ChatAnswer(n, e)
    [] e.role = "tool"                       -> <<FunctionCallOutput(e.call)>>

\* The texts joined into instructions; none of them is no instructions.
ChatInstructions(messages) ==
  FlattenSeq([n \in DOMAIN messages |->
    IF Leading(messages, n) /\ IsText(messages[n].content) THEN <<Text(n, messages[n].content)>> ELSE <<>>])

ChatRefused(messages) ==
  ToolsRefused(settings.tools) \/ \E n \in DOMAIN messages : ChatMessageRefused(messages[n])

\* prompt_cache_key, if it is not empty.
SessionId == IF settings.key = "" THEN "absent" ELSE settings.key

ChatToWire(messages, model, effort) ==
  [model |-> model, instructions |-> ChatInstructions(messages),
   input |-> FlattenSeq([n \in DOMAIN messages |-> ChatItems(messages, n)]),
   tools |-> ChatTools(settings.tools), effort |-> effort, sessionId |-> SessionId]

-----------------------------------------------------------------------------
(* A client of the Responses API: how it spells its conversation.          *)

Prologue(messages) == {n \in DOMAIN messages : \A i \in 1 .. n : Instructs(messages[i])}

RespInstructions(messages) ==
  FlattenSeq([n \in DOMAIN messages |->
    IF n \in Prologue(messages) /\ IsText(messages[n].content) THEN <<Text(n, messages[n].content)>> ELSE <<>>])

\* What it read of an answer it hands back item by item.
RawAnswer(n, e) ==
  (IF e.thought THEN <<Reasoning(n)>> ELSE <<>>)
  \o (IF IsText(e.content) THEN <<Message("assistant", e.content)>> ELSE <<>>)
  \o [k \in 1 .. e.calls |-> FunctionCall(CallIds(n, e)[k])]

RawItems(messages, n) ==
  LET e == messages[n] IN
  CASE n \in Prologue(messages) -> <<>>
    [] e.role = "assistant"     -> RawAnswer(n, e)
    [] e.role = "tool"          -> <<FunctionCallOutput(e.call)>>
    [] OTHER                    -> <<Message(e.role, e.content)>>

\* A client that counts on the server's memory sends what is new, and an id.
Remembers == settings.state = "previous_response_id" /\ told > 0
Sends(n) == Remembers => n > told

-----------------------------------------------------------------------------
(* openai_responses::to_wire.                                              *)

NeedsState == Remembers \/ settings.state = "background"

\* Mutant: the text type does not follow the role.
InputOnly(role) == "input_text"

TextType(role) == IF role = "assistant" THEN "output_text" ELSE "input_text"

PartRefused(part) == part = "image_empty"

\* The Chat spellings are translated, an unknown part is passed on.
NormalPart(part, role) ==
  CASE part = "text"      -> TextType(role)
    [] part = "image_url" -> "input_image"
    [] OTHER              -> part

RespContent(n, content, role) ==
  IF content.shape = "array"
    THEN [i \in DOMAIN content.parts |-> Part(NormalPart(content.parts[i], role), [n |-> n, parts |-> {i}])]
    ELSE <<Part(TextType(role), Text(n, content))>>

ItemRefused(raw) ==
  raw.type = "message" /\ \E i \in DOMAIN raw.content.parts : PartRefused(raw.content.parts[i])

\* What is not a message goes through untouched.
NormaliseItem(n, raw) ==
  IF raw.type = "message" THEN Message(raw.role, RespContent(n, raw.content, raw.role)) ELSE raw

RespItems(messages, n) ==
  LET raw == RawItems(messages, n) IN [i \in DOMAIN raw |-> NormaliseItem(n, raw[i])]

RespInput(messages) ==
  FlattenSeq([n \in DOMAIN messages |-> IF Sends(n) THEN RespItems(messages, n) ELSE <<>>])

RespRefused(messages) ==
  \/ NeedsState
  \/ \E n \in DOMAIN messages : \E i \in DOMAIN RawItems(messages, n) : ItemRefused(RawItems(messages, n)[i])
  \/ RespInput(messages) = <<>>
  \/ ToolsRefused(settings.tools)

RespToWire(messages, model, effort) ==
  [model |-> model, instructions |-> RespInstructions(messages), input |-> RespInput(messages),
   tools |-> settings.tools, effort |-> effort, sessionId |-> SessionId]

-----------------------------------------------------------------------------
(* Client::stream.                                                         *)

FirstOf(input) == IF input = <<>> THEN <<>> ELSE <<input[1]>>

\* Mutant: everything that steers the turn goes into the key.
KeyWithEffort(req) == <<req.model, req.instructions, req.tools, FirstOf(req.input), req.effort>>

\* The hash is taken for injective: heads that differ have different keys.
CacheKey(req) == <<req.model, req.instructions, req.tools, FirstOf(req.input)>>

EffectiveCacheKey(req) ==
  IF req.sessionId = "absent" THEN <<"derived", CacheKey(req)>> ELSE <<"caller", req.sessionId>>

BuildBody(req) ==
  [model |-> req.model, instructions |-> req.instructions, input |-> req.input,
   tools |-> req.tools.list, effort |-> req.effort, promptCacheKey |-> EffectiveCacheKey(req)]

\* The variant is stripped first, so that body and key both name the model.
Stream(request) ==
  LET req == [request EXCEPT !.model = WireModel(@)]
  IN [body |-> BuildBody(req), sessionId |-> EffectiveCacheKey(req)]

-----------------------------------------------------------------------------
(* What happens in a conversation.                                         *)

Init ==
  /\ backend \in Catalogues
  /\ settings \in Settings
  /\ talk = <<>> /\ told = 0 /\ turns = 0
  /\ waiting = FALSE /\ accepted = Surface
  /\ last = [s \in Surface |-> <<>>]

\* A conversation that both surfaces have refused goes no further.
GoesOn == ~waiting /\ accepted # {} /\ Len(talk) < MaxTalk

Written(role, content) == [role |-> role, content |-> content, calls |-> 0, thought |-> FALSE, call |-> Nothing]
NoContent == [shape |-> "null", parts |-> <<>>]

Write(e) ==
  /\ GoesOn
  /\ talk' = Append(talk, e)
  /\ UNCHANGED <<backend, settings, told, turns, waiting, accepted, last>>

\* The user writes, or the client's harness, which steers the model with system
\* and developer messages before the first of the user's, or later.
Say(entry) == Write(Written(entry.role, entry.content))

Calls == UNION {{<<n, k>> : k \in 1 .. talk[n].calls} : n \in DOMAIN talk}
Pending == {id \in Calls : ~\E n \in DOMAIN talk : talk[n].call = id}

\* The result of a call; a client may have lost the call's id.
ReportResult ==
  \E id \in Pending : \E known \in BOOLEAN :
    Write([Written("tool", NoContent) EXCEPT !.call = IF known THEN id ELSE Nothing])

Refused(s) == IF s = "chat" THEN ChatRefused(talk) ELSE RespRefused(talk)
ToWire(s, model, effort) ==
  IF s = "chat" THEN ChatToWire(talk, model, effort) ELSE RespToWire(talk, model, effort)

\* A turn, with a model from the picker; the handlers refuse before anything is
\* sent to the backend.
Ask(model, effort) ==
  /\ ~waiting /\ accepted # {} /\ talk # <<>> /\ turns < MaxTurns
  /\ turns' = turns + 1
  /\ accepted' = {s \in Surface : ~Refused(s)}
  /\ waiting' = (accepted' # {})
  /\ last' = [s \in Surface |-> IF Refused(s) THEN last[s] ELSE <<Stream(ToWire(s, model, effort))>>]
  /\ UNCHANGED <<backend, settings, talk, told>>

\* The backend answers with text, calls and reasoning in some combination.
Answer(reply) ==
  /\ waiting /\ Len(talk) < MaxTalk
  /\ talk' = Append(talk, [Written("assistant", reply.content) EXCEPT
                             !.calls = reply.calls, !.thought = reply.thought])
  /\ told' = Len(talk')
  /\ waiting' = FALSE
  /\ UNCHANGED <<backend, settings, turns, accepted, last>>

\* The turn fails, and leaves nothing behind.
Fail == waiting /\ waiting' = FALSE /\ UNCHANGED <<backend, settings, talk, told, turns, accepted, last>>

Picker == OpenaiList(backend)

Next ==
  \/ \E entry \in Entries : Say(entry)
  \/ ReportResult
  \/ \E i \in DOMAIN Picker, effort \in Efforts : Ask(Picker[i].id, effort)
  \/ \E reply \in Replies : Answer(reply)
  \/ Fail

Spec == Init /\ [][Next]_vars

-----------------------------------------------------------------------------
(* Properties.                                                             *)

Texts(body) ==
  Range(body.instructions)
  \cup UNION {{part.text : part \in Range(item.content)} :
                item \in {i \in Range(body.input) : i.type = "message"}}

Carried(body, n, i) == \E t \in Texts(body) : t.n = n /\ i \in t.parts

\* What to_wire translates: texts always; anything else if the user says it, and on
\* the Responses surface whoever says it, unless the client itself made
\* instructions of it.  Chat's content_text leaves the other parts of the other
\* roles out without a word (NoPartDisappears).
Translated(s, n, i) ==
  \/ talk[n].content.parts[i] = "text"
  \/ talk[n].role = "user"
  \/ s = "responses" /\ n \notin Prologue(talk)

\* Does the result of a call come after the call?
Answered(input, id) ==
  \E j \in DOMAIN input : input[j] = FunctionCallOutput(id)
    /\ \E i \in 1 .. j - 1 : input[i] = FunctionCall(id)

EntryIsSent(s, body, n) ==
  LET e == talk[n] IN
  /\ \A i \in DOMAIN e.content.parts : Translated(s, n, i) => Carried(body, n, i)
  /\ \A k \in 1 .. e.calls : FunctionCall(<<n, k>>) \in Range(body.input)
  /\ e.call # Nothing => Answered(body.input, e.call)
  /\ e.thought /\ s = "responses" => Reasoning(n) \in Range(body.input)

\* Every part of every message of an accepted Chat request is carried to the backend,
\* as the comment on ChatMessage has it: "Malformed or unknown parts are rejected
\* rather than silently disappearing" (content_parts, content_text).
NoPartDisappears ==
  waiting /\ "chat" \in accepted =>
    \A n \in DOMAIN talk : \A i \in DOMAIN talk[n].content.parts : Carried(last["chat"][1].body, n, i)

\* A request that a surface takes says what the conversation holds, each thing at
\* its turn: all texts, all parts of the user's, the calls and after them their
\* results, on the Responses surface also every other part and the reasoning; if a
\* part of the user's cannot be said, or if the client relies on a state that the
\* server does not keep, the request is refused and nothing is sent.  It does not
\* say that of the parts besides text that other roles write on the Chat surface,
\* which are dropped (to_wire of both surfaces).
SaidIsSent ==
  waiting => \A s \in accepted : \A n \in DOMAIN talk : EntryIsSent(s, last[s][1].body, n)

NoLateInstructions == \A n \in DOMAIN talk : Instructs(talk[n]) => n \in Prologue(talk)

\* The input without its reasoning.
Spoken(input) == FlattenSeq([i \in DOMAIN input |-> IF input[i].type = "reasoning" THEN <<>> ELSE <<input[i]>>])

\* The same conversation is the same request whichever surface it is held
\* through, item for item, but for the reasoning, which Chat Completions cannot
\* hand back, for instructions given after the start, which it relabels, and for
\* the defaults that it fills into tools (to_wire of both surfaces).
RequestsAgree ==
  waiting /\ accepted = Surface /\ NoLateInstructions =>
    LET said == last["responses"][1].body
        asked == last["chat"][1].body
    IN [said EXCEPT !.input = Spoken(@), !.tools = Filled(@), !.promptCacheKey = asked.promptCacheKey] = asked

SameHead(old, new) ==
  /\ old.body.instructions = new.body.instructions
  /\ old.body.tools = new.body.tools
  /\ IsPrefix(old.body.input, new.body.input)

\* From turn to turn the backend sees the same prefix, and the request takes the
\* same way to the machine that holds it: whatever is said, answered, asked of
\* tools or steered in between, at whatever effort, in which variant of the
\* model.  (A first request of system messages alone has no prefix yet.)
\* (cache_key, effective_cache_key, build_body.)
CacheStays ==
  [][\A s \in Surface :
       last[s] # <<>> /\ last'[s] # last[s] =>
         LET old == last[s][1]
             new == last'[s][1]
         IN /\ new.sessionId = new.body.promptCacheKey
            /\ old.body.input # <<>> => SameHead(old, new)
            /\ old.body.input # <<>> /\ old.body.model = new.body.model =>
                 new.sessionId = old.sessionId]_vars

\* The picker offers models that exist, as often as they are worth offering, and
\* a turn with an offered id reaches the model it was offered for, which the
\* backend lists, as long as no slug holds the separator (openai_list, wire_model,
\* Client::stream).
PickerIsTrue ==
  /\ OffersTrue(backend)
  /\ Separable(backend) => \A s \in Surface : last[s] # <<>> =>
       \E m \in Range(backend) : m.slug = last[s][1].body.model /\ ~Hidden(m)
=============================================================================

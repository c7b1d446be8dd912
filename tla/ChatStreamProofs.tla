---------------------------- MODULE ChatStreamProofs ----------------------------
(***************************************************************************)
(* Theorems about ChatStream, for turns of any length whose events come in *)
(* any order: the stream ends with one [DONE], names one model, says the   *)
(* message that response() makes, and the thinking text of the turn.  All  *)
(* are properties of the log, so there is a lemma on what is appended to   *)
(* it and one for every helper of apply.                                   *)
(***************************************************************************)
EXTENDS ChatStream, TLAPS

Models == {"none", "routed"}
Stops == {"none", "end_turn", "aborted"}
Finishes == {"none", "stop", "tool_calls"}
Kinds == {"role", "content", "reasoning", "tool_call", "finish", "usage", "error", "[DONE]"}

Chunks ==
  [kind : Kinds, model : {"none", "requested", "routed"}, n : Nat, index : Nat, finish : Finishes]

State ==
  [model : Models, text : Seq(Nat), reasoning : Seq(Nat), calls : Seq(Seq(Nat)),
   stop : Stops, failed : BOOLEAN, sent : Seq(Chunks)]

Dones(s) == {i \in 1 .. Len(s.sent) : s.sent[i] = DoneMark}

\* Every chunk names the model that the state names.
Named(s) == \A i \in 1 .. Len(s.sent) : s.sent[i].model \in {OutputModel(s), "none"}

\* The log of a stream that goes on, and of one that has ended.
Clean(s) == s \in State /\ Named(s) /\ Dones(s) = {}
Closed(s) == s \in State /\ Named(s) /\ Dones(s) = {Len(s.sent)}

-----------------------------------------------------------------------------
(* Helpers.                                                                *)

\* What is appended to the log is its last entry (chunk).
LEMMA EmitFacts ==
  ASSUME NEW s \in State, Named(s), NEW c \in Chunks, c.model \in {OutputModel(s), "none"}
  PROVE  /\ Emit(s, c) \in State
         /\ Named(Emit(s, c))
         /\ Dones(Emit(s, c)) = Dones(s) \cup (IF c = DoneMark THEN {Len(Emit(s, c).sent)} ELSE {})
         /\ Emit(s, c).calls = s.calls
         /\ Emit(s, c).failed = s.failed
         /\ Emit(s, c).model = s.model
<1>1. /\ s.sent \in Seq(Chunks)
      /\ Append(s.sent, c) \in Seq(Chunks)
      /\ Len(Append(s.sent, c)) = Len(s.sent) + 1
      /\ \A i \in 1 .. Len(s.sent) : Append(s.sent, c)[i] = s.sent[i]
      /\ Append(s.sent, c)[Len(s.sent) + 1] = c
  BY DEF State
<1>2. /\ Emit(s, c) \in State
      /\ Emit(s, c).sent = Append(s.sent, c)
      /\ Emit(s, c).calls = s.calls /\ Emit(s, c).failed = s.failed /\ Emit(s, c).model = s.model
  BY <1>1 DEF Emit, State
<1>3. Named(Emit(s, c))
  BY <1>1, <1>2 DEF Named, OutputModel
<1>4. Dones(Emit(s, c)) = Dones(s) \cup (IF c = DoneMark THEN {Len(Emit(s, c).sent)} ELSE {})
  BY <1>1, <1>2 DEF Dones
<1>5. QED
  BY <1>2, <1>3, <1>4

\* A chunk is no [DONE], and names the model (chunk).
LEMMA ChunkFacts ==
  ASSUME NEW s \in State, NEW kind \in Kinds
  PROVE  /\ Chunk(s, kind) \in Chunks
         /\ Chunk(s, kind).kind = kind
         /\ Chunk(s, kind).model = OutputModel(s)
<1>1. OutputModel(s) \in {"requested", "routed"}
  BY DEF State, OutputModel, Models
<1>2. QED
  BY <1>1 DEF Chunk, Chunks, Kinds, Finishes

\* What a chunk carries changes nothing else about it.
LEMMA CarryFacts ==
  ASSUME NEW c \in Chunks, NEW n \in Nat
  PROVE  /\ [c EXCEPT !.n = n] \in Chunks
         /\ [c EXCEPT !.n = n].kind = c.kind /\ [c EXCEPT !.n = n].model = c.model
         /\ [c EXCEPT !.index = n] \in Chunks
         /\ [c EXCEPT !.index = n].kind = c.kind /\ [c EXCEPT !.index = n].model = c.model
  BY DEF Chunks

\* Nor does the finish reason.
LEMMA FinishFacts ==
  ASSUME NEW c \in Chunks, NEW finish \in Finishes
  PROVE  /\ [c EXCEPT !.finish = finish] \in Chunks
         /\ [c EXCEPT !.finish = finish].kind = c.kind
         /\ [c EXCEPT !.finish = finish].model = c.model
  BY DEF Chunks

\* What is sent without the envelope names no model.
LEMMA BareFacts ==
  /\ DoneMark \in Chunks /\ DoneMark.kind = "[DONE]" /\ DoneMark.model = "none"
  /\ Bare("error") \in Chunks /\ Bare("error").kind = "error" /\ Bare("error").model = "none"
  BY DEF DoneMark, Bare, Chunks, Kinds, Finishes

\* A chunk leaves the stream going on.
LEMMA EmitClean ==
  ASSUME NEW s, Clean(s), NEW c \in Chunks, c.kind # "[DONE]", c.model \in {OutputModel(s), "none"}
  PROVE  /\ Clean(Emit(s, c))
         /\ Emit(s, c).failed = s.failed /\ Emit(s, c).model = s.model
         /\ Emit(s, c).calls = s.calls
<1>1. c # DoneMark
  BY BareFacts
<1>2. s \in State /\ Named(s) /\ Dones(s) = {}
  BY DEF Clean
<1>3. QED
  BY <1>1, <1>2, EmitFacts DEF Clean

\* [DONE] ends it.
LEMMA EmitClosed ==
  ASSUME NEW s, Clean(s)
  PROVE  /\ Closed(Emit(s, DoneMark))
         /\ Emit(s, DoneMark).failed = s.failed /\ Emit(s, DoneMark).model = s.model
<1>1. s \in State /\ Named(s) /\ Dones(s) = {}
  BY DEF Clean
<1>2. QED
  BY <1>1, BareFacts, EmitFacts DEF Closed

\* A change of another field says nothing about the log.
LEMMA SameLog ==
  ASSUME NEW s, Clean(s), NEW c \in State, c.sent = s.sent, c.model = s.model
  PROVE  Clean(c) /\ OutputModel(c) = OutputModel(s)
  BY DEF Clean, Named, Dones, OutputModel

\* Deltas and calls are noted and passed on (text, thinking, breaks, calls).
LEMMA ContentClean ==
  ASSUME NEW s, Clean(s), NEW n \in Nat
  PROVE  /\ Clean(AddText(s, n)) /\ AddText(s, n).failed = s.failed /\ AddText(s, n).model = s.model
         /\ Clean(AddReasoning(s, n)) /\ AddReasoning(s, n).failed = s.failed
         /\ AddReasoning(s, n).model = s.model
         /\ Clean(AddCall(s, n)) /\ AddCall(s, n).failed = s.failed /\ AddCall(s, n).model = s.model
<1> DEFINE t == [s EXCEPT !.text = Append(@, n)]
           r == [s EXCEPT !.reasoning = Append(@, n)]
           k == [s EXCEPT !.calls = Append(@, <<n>>)]
<1>1. s \in State
  BY DEF Clean
<1>2. Append(s.text, n) \in Seq(Nat) /\ Append(s.reasoning, n) \in Seq(Nat)
  BY <1>1 DEF State
<1>3. Append(s.calls, <<n>>) \in Seq(Seq(Nat))
  <2>1. <<n>> \in Seq(Nat) /\ s.calls \in Seq(Seq(Nat))
    BY <1>1 DEF State
  <2>2. QED
    BY <2>1
<1>4. /\ t \in State /\ t.sent = s.sent /\ t.model = s.model /\ t.failed = s.failed
      /\ r \in State /\ r.sent = s.sent /\ r.model = s.model /\ r.failed = s.failed
      /\ k \in State /\ k.sent = s.sent /\ k.model = s.model /\ k.failed = s.failed
  BY <1>1, <1>2, <1>3 DEF State
<1> DEFINE tc == Chunk(s, "content")
           rc == Chunk(s, "reasoning")
           kc == Chunk(s, "tool_call")
           kn == [kc EXCEPT !.n = n]
<1>5. AddText(s, n) = Emit(t, [tc EXCEPT !.n = n])
  BY DEF AddText
<1>6. AddReasoning(s, n) = Emit(r, [rc EXCEPT !.n = n])
  BY DEF AddReasoning
<1>7. AddCall(s, n) = Emit(k, [kn EXCEPT !.index = CallIndex(s)])
  BY DEF AddCall
<1>8. /\ tc \in Chunks /\ tc.kind = "content" /\ tc.model = OutputModel(s)
      /\ rc \in Chunks /\ rc.kind = "reasoning" /\ rc.model = OutputModel(s)
      /\ kc \in Chunks /\ kc.kind = "tool_call" /\ kc.model = OutputModel(s)
  BY <1>1, ChunkFacts DEF Kinds
<1>9. CallIndex(s) \in Nat
  BY <1>1 DEF CallIndex, State
<1> HIDE DEF t, r, k, tc, rc, kc
<1>10. kn \in Chunks /\ kn.kind = "tool_call" /\ kn.model = OutputModel(s)
  BY <1>8, CarryFacts
<1> HIDE DEF kn
<1> DEFINE ct == [tc EXCEPT !.n = n]
           cr == [rc EXCEPT !.n = n]
           ck == [kn EXCEPT !.index = CallIndex(s)]
<1>11. /\ ct \in Chunks /\ ct.kind = "content" /\ ct.model = OutputModel(s)
      /\ cr \in Chunks /\ cr.kind = "reasoning" /\ cr.model = OutputModel(s)
  BY <1>8, CarryFacts
<1>12. ck \in Chunks /\ ck.kind = "tool_call" /\ ck.model = OutputModel(s)
  BY <1>9, <1>10, CarryFacts
<1>13. AddText(s, n) = Emit(t, ct) /\ AddReasoning(s, n) = Emit(r, cr) /\ AddCall(s, n) = Emit(k, ck)
  BY <1>5, <1>6, <1>7
<1> HIDE DEF ct, cr, ck
<1>14. /\ Clean(t) /\ OutputModel(t) = OutputModel(s)
      /\ Clean(r) /\ OutputModel(r) = OutputModel(s)
      /\ Clean(k) /\ OutputModel(k) = OutputModel(s)
  BY <1>4, SameLog
<1>15. Clean(AddText(s, n)) /\ AddText(s, n).failed = s.failed /\ AddText(s, n).model = s.model
  BY <1>4, <1>14, <1>11, <1>13, EmitClean
<1>16. Clean(AddReasoning(s, n)) /\ AddReasoning(s, n).failed = s.failed /\ AddReasoning(s, n).model = s.model
  BY <1>4, <1>14, <1>11, <1>13, EmitClean
<1>17. Clean(AddCall(s, n)) /\ AddCall(s, n).failed = s.failed /\ AddCall(s, n).model = s.model
  BY <1>4, <1>14, <1>12, <1>13, EmitClean
<1>18. QED
  BY <1>15, <1>16, <1>17

\* The first chunk names the model; nothing was sent before (Started).
LEMMA BeginClean ==
  ASSUME NEW s, Clean(s), s.sent = <<>>, NEW e, e.arg \in Models
  PROVE  Clean(Begin(s, e)) /\ Begin(s, e).failed = s.failed /\ Begin(s, e).model = e.arg
<1> DEFINE b == [s EXCEPT !.model = NamedModel(s, e)]
<1>1. b \in State /\ b.sent = <<>> /\ b.model = e.arg /\ b.failed = s.failed
  BY DEF Clean, State, NamedModel
<1>2. Begin(s, e) = Emit(b, Chunk(b, "role"))
  BY DEF Begin
<1> HIDE DEF b
<1>3. Clean(b)
  BY <1>1 DEF Clean, Named, Dones
<1>4. QED
  <2> DEFINE role == Chunk(b, "role")
  <2>1. b \in State /\ role \in Chunks /\ role.kind = "role" /\ role.model = OutputModel(b)
    BY <1>1, ChunkFacts DEF Kinds
  <2> HIDE DEF role
  <2>2. Clean(Emit(b, role)) /\ Emit(b, role).failed = b.failed /\ Emit(b, role).model = b.model
    BY <1>3, <2>1, EmitClean
  <2>3. Begin(s, e) = Emit(b, role)
    BY <1>2 DEF role
  <2>4. QED
    BY <1>1, <2>2, <2>3

\* A completion ends the stream (Done).
LEMMA CompleteCloses ==
  ASSUME NEW s, Clean(s), NEW reason \in Stops
  PROVE  Closed(Complete(s, reason)) /\ Complete(s, reason).model = s.model
<1> DEFINE c == [s EXCEPT !.stop = reason]
           plain == Chunk(c, "finish")
           finish == [plain EXCEPT !.finish = Finish(c)]
           usage == Chunk(c, "usage")
           finished == Emit(c, finish)
           counted == IF usageWanted THEN Emit(finished, usage) ELSE finished
<1>1. Complete(s, reason) = Emit(counted, DoneMark)
  BY DEF Complete
<1>2. c \in State /\ c.sent = s.sent /\ c.model = s.model
  BY DEF Clean, State
<1>3. /\ plain \in Chunks /\ plain.kind = "finish" /\ plain.model = OutputModel(c)
      /\ usage \in Chunks /\ usage.kind = "usage" /\ usage.model = OutputModel(c)
  BY <1>2, ChunkFacts DEF Kinds
<1>4. Finish(c) \in Finishes
  BY DEF Finish, Finishes
<1> HIDE DEF c, plain, usage
<1>5. finish \in Chunks /\ finish.kind = "finish" /\ finish.model = OutputModel(c)
  BY <1>3, <1>4, FinishFacts
<1>6. Clean(c)
  BY <1>2, SameLog
<1> HIDE DEF finish
<1>7. Clean(finished) /\ finished.model = c.model
  BY <1>5, <1>6, EmitClean
<1>8. OutputModel(finished) = OutputModel(c)
  BY <1>7 DEF OutputModel
<1> HIDE DEF finished
<1>9. Clean(Emit(finished, usage)) /\ Emit(finished, usage).model = finished.model
  BY <1>3, <1>7, <1>8, EmitClean
<1>10. Clean(counted) /\ counted.model = c.model
  BY <1>7, <1>9
<1> HIDE DEF counted
<1>11. QED
  BY <1>1, <1>2, <1>10, EmitClosed

\* So does a failure (Failed).
LEMMA FailCloses ==
  ASSUME NEW s, Clean(s)
  PROVE  Closed(FailTurn(s)) /\ FailTurn(s).failed = TRUE /\ FailTurn(s).model = s.model
<1> DEFINE c == [s EXCEPT !.failed = TRUE]
           told == Emit(c, Bare("error"))
<1>1. FailTurn(s) = Emit(told, DoneMark)
  BY DEF FailTurn
<1>2. c \in State /\ c.sent = s.sent /\ c.model = s.model /\ c.failed = TRUE
  BY DEF Clean, State
<1> HIDE DEF c
<1>3. Clean(c)
  BY <1>2, SameLog
<1>4. Clean(told) /\ told.model = s.model /\ told.failed = TRUE
  BY <1>2, <1>3, BareFacts, EmitClean
<1> HIDE DEF told
<1>5. QED
  BY <1>1, <1>4, EmitClosed

-----------------------------------------------------------------------------
(* The specification.                                                      *)

EventType == [type : EventTypes, arg : Models \cup Stops \cup {""}, n : Nat]

\* How far the stream has come follows from the phase of the turn; the model is
\* named before anything is sent, and not again.
Inv ==
  /\ given \in Seq(EventType)
  /\ slot \in Models
  /\ IF st.failed \/ phase = "over" THEN Closed(st) ELSE Clean(st)
  /\ phase \in {"quota", "head"} =>
       /\ ~st.failed /\ st.sent = <<>>
       /\ \A j \in 1 .. Len(given) : given[j].type # "started"
  /\ \A j \in 1 .. Len(given) : given[j].type = "started" => given[j].arg = st.model

\* Initially nothing is sent.
LEMMA InvInit == Init => Inv
<1> SUFFICES ASSUME Init
             PROVE  Inv
  OBVIOUS
<1>1. st \in State /\ st.sent = <<>> /\ st.failed = FALSE
  <2>1. <<>> \in Seq(Nat) /\ <<>> \in Seq(Seq(Nat)) /\ <<>> \in Seq(Chunks)
    OBVIOUS
  <2>2. QED
    BY <2>1 DEF Init, NewState, State, Models, Stops
<1>2. Clean(st)
  BY <1>1 DEF Clean, Named, Dones
<1>3. QED
  BY <1>1, <1>2 DEF Init, TurnInit, Inv, Models

\* What an event of the backend becomes.
LEMMA MapOneFacts ==
  ASSUME Inv, NEW u \in Upstream \ Silent
  PROVE  /\ MapOne(u) \in EventType
         /\ MapOne(u).type = "started" => u = "created" /\ MapOne(u).arg = slot
         /\ MapOne(u).type = "done" => u \in {"completed", "cut"} /\ MapOne(u).arg \in Stops
         /\ u = "quota" => MapOne(u).type = "rate_limits"
         /\ u \in {"completed", "cut"} => MapOne(u).type = "done"
         /\ u = "error" => MapOne(u).type = "failed"
<1>1. Len(given) + 1 \in Nat /\ slot \in Models
  BY DEF Inv, Models
<1>2. \A type \in EventTypes, arg \in Models \cup Stops \cup {""} :
        /\ Event(type, arg) \in EventType
        /\ Event(type, arg).type = type /\ Event(type, arg).arg = arg
  BY <1>1 DEF Event, EventType
<1>3. PICK type \in EventTypes, arg \in Models \cup Stops \cup {""} :
        /\ MapOne(u) = Event(type, arg)
        /\ type = "started" => u = "created" /\ arg = slot
        /\ type = "done" => u \in {"completed", "cut"} /\ arg \in Stops
        /\ u = "quota" => type = "rate_limits"
        /\ u \in {"completed", "cut"} => type = "done"
        /\ u = "error" => type = "failed"
  <2>1. CASE u \in {"created", "completed", "cut"}
    BY <1>1, <2>1 DEF MapOne, EventTypes, Stops
  <2>2. CASE u \in {"quota", "broken", "error"}
    BY <2>2 DEF MapOne, EventTypes
  <2>3. CASE u \in {"text", "summary", "part", "reasoning", "call"}
    BY <2>3 DEF MapOne, EventTypes
  <2>4. QED
    BY <2>1, <2>2, <2>3 DEF Upstream, Content, Final, Silent
<1>4. MapOne(u) \in EventType /\ MapOne(u).type = type /\ MapOne(u).arg = arg
  BY <1>2, <1>3
<1>5. QED
  BY <1>3, <1>4

\* What apply makes of it, while the stream goes on.
LEMMA ApplyFacts ==
  ASSUME Clean(st), ~st.failed, NEW e \in EventType,
         e.type = "started" => st.sent = <<>> /\ e.arg \in Models,
         e.type = "done" => e.arg \in Stops
  PROVE  /\ e.type \notin {"done", "failed"} => Clean(Apply(st, e)) /\ ~Apply(st, e).failed
         /\ e.type = "done" => Closed(Apply(st, e))
         /\ e.type = "failed" => Closed(Apply(st, e)) /\ Apply(st, e).failed
         /\ e.type = "rate_limits" => Apply(st, e) = st
         /\ Apply(st, e).model = IF e.type = "started" THEN e.arg ELSE st.model
<1>1. e.n \in Nat /\ e.arg \in Models \cup Stops \cup {""} /\ e.type \in EventTypes
  BY DEF EventType
<1>2. Apply(st, e) =
        CASE e.type = "started"                     -> Begin(st, e)
          [] e.type = "text_delta"                  -> AddText(st, e.n)
          [] e.type = "thinking_delta"              -> AddReasoning(st, e.n)
          [] e.type = "thinking_break"              -> AddBreak(st)
          [] e.type = "tool_call"                   -> AddCall(st, e.n)
          [] e.type = "done"                        -> Complete(st, e.arg)
          [] e.type = "failed"                      -> FailTurn(st)
          [] e.type \in {"rate_limits", "reasoning"} -> st
  BY DEF Apply, Over
<1>3. Break \in Nat
  BY DEF Break
<1>4. CASE e.type = "started"
  <2>1. Apply(st, e) = Begin(st, e)
    BY <1>2, <1>4
  <2>2. QED
    BY <1>4, <2>1, BeginClean
<1>5. CASE e.type \in {"text_delta", "thinking_delta", "tool_call"}
  <2>1. Apply(st, e) \in {AddText(st, e.n), AddReasoning(st, e.n), AddCall(st, e.n)}
    BY <1>2, <1>5
  <2>2. QED
    BY <1>1, <1>5, <2>1, ContentClean
<1>6. CASE e.type = "thinking_break"
  <2>1. Apply(st, e) = IF Separates(st) THEN AddReasoning(st, Break) ELSE st
    BY <1>2, <1>6 DEF AddBreak
  <2>2. QED
    BY <1>3, <1>6, <2>1, ContentClean
<1>7. CASE e.type = "done"
  <2>1. Apply(st, e) = Complete(st, e.arg)
    BY <1>2, <1>7
  <2>2. QED
    BY <1>7, <2>1, CompleteCloses
<1>8. CASE e.type = "failed"
  <2>1. Apply(st, e) = FailTurn(st)
    BY <1>2, <1>8
  <2>2. QED
    BY <1>8, <2>1, FailCloses
<1>9. CASE e.type \in {"rate_limits", "reasoning"}
  <2>1. Apply(st, e) = st
    BY <1>2, <1>9
  <2>2. QED
    BY <1>9, <2>1
<1>10. QED
  BY <1>1, <1>4, <1>5, <1>6, <1>7, <1>8, <1>9 DEF EventTypes

\* One more event of the turn.
LEMMA GivenFacts ==
  ASSUME given \in Seq(EventType), NEW e \in EventType, given' = Append(given, e)
  PROVE  /\ given' \in Seq(EventType)
         /\ \A j \in 1 .. Len(given') : given'[j] = e \/ \E i \in 1 .. Len(given) : given'[j] = given[i]
  OBVIOUS

\* Every event keeps the invariant.
LEMMA InvNext == Inv /\ [Next]_vars => Inv'
<1> SUFFICES ASSUME Inv, [Next]_vars
             PROVE  Inv'
  OBVIOUS
<1>1. ASSUME NEW u \in Upstream, Render(u)
      PROVE  Inv'
  <2> DEFINE e == MapOne(u)
  <2>1. u \in Upstream \ Silent /\ Sendable(u)
    BY <1>1 DEF Render, Send
  <2>2. /\ e \in EventType
        /\ e.type = "started" => u = "created" /\ e.arg = slot
        /\ e.type = "done" => u \in {"completed", "cut"} /\ e.arg \in Stops
        /\ u = "quota" => e.type = "rate_limits"
        /\ u \in {"completed", "cut"} => e.type = "done"
        /\ u = "error" => e.type = "failed"
    BY <2>1, MapOneFacts
  <2>3. /\ given' = Append(given, e) /\ slot' = slot /\ st' = Apply(st, e)
        /\ phase' = PhaseAfter(u)
    BY <1>1, <2>1 DEF Render, Send, Silent
  <2> HIDE DEF e
  <2>4. /\ phase # "over"
        /\ phase = "quota" <=> u = "quota"
        /\ phase = "head" => u \in {"created", "error"}
        /\ u = "created" => phase = "head"
    BY <2>1 DEF Sendable, Silent, Final, Content
  <2>5. /\ phase' = "over" <=> u \in {"completed", "cut", "error"}
        /\ phase' \in {"quota", "head"} => u = "quota"
    BY <2>1, <2>3, <2>4 DEF PhaseAfter, Final, Upstream, Content, Silent, Sendable
  <2>6. /\ given' \in Seq(EventType)
        /\ \A j \in 1 .. Len(given') : given'[j] = e \/ \E i \in 1 .. Len(given) : given'[j] = given[i]
    BY <2>2, <2>3, GivenFacts DEF Inv
  <2>7. CASE st.failed
    <3>1. st' = st
      BY <2>3, <2>7 DEF Apply, Over
    <3>2. e.type # "started" /\ phase' \notin {"quota", "head"}
      BY <2>2, <2>4, <2>5, <2>7 DEF Inv
    <3>3. QED
      BY <2>3, <2>6, <2>7, <3>1, <3>2 DEF Inv
  <2>8. CASE ~st.failed
    <3>1. Clean(st)
      BY <2>4, <2>8 DEF Inv
    <3>2. /\ e.type = "started" => st.sent = <<>> /\ e.arg \in Models
          /\ e.type = "done" => e.arg \in Stops
      BY <2>2, <2>4 DEF Inv
    <3>3. /\ e.type \notin {"done", "failed"} => Clean(st') /\ ~st'.failed
          /\ e.type = "done" => Closed(st')
          /\ e.type = "failed" => Closed(st') /\ st'.failed
          /\ e.type = "rate_limits" => st' = st
          /\ st'.model = IF e.type = "started" THEN e.arg ELSE st.model
      BY <2>2, <2>3, <2>8, <3>1, <3>2, ApplyFacts
    <3>4. IF st'.failed \/ phase' = "over" THEN Closed(st') ELSE Clean(st')
      BY <2>2, <2>5, <3>3
    <3>5. phase' \in {"quota", "head"} =>
            /\ ~st'.failed /\ st'.sent = <<>>
            /\ \A j \in 1 .. Len(given') : given'[j].type # "started"
      BY <2>2, <2>4, <2>5, <2>6, <3>3 DEF Inv, Sendable
    <3>6. \A j \in 1 .. Len(given') : given'[j].type = "started" => given'[j].arg = st'.model
      <4>1. e.type = "started" => \A i \in 1 .. Len(given) : given[i].type # "started"
        BY <2>2, <2>4 DEF Inv
      <4>2. QED
        BY <2>6, <3>3, <4>1 DEF Inv
    <3>7. slot' \in Models
      BY <2>3 DEF Inv
    <3>8. QED
      BY <2>6, <3>4, <3>5, <3>6, <3>7 DEF Inv, Closed, Clean, Named, Dones, OutputModel
  <2>9. QED
    BY <2>7, <2>8
<1>2. ASSUME NEW u \in Upstream, Absorb(u)
      PROVE  Inv'
  <2>1. /\ u = "server_model" /\ given' = given /\ st' = st /\ slot' = "routed"
        /\ phase' = phase
    BY <1>2 DEF Absorb, Send, Silent, PhaseAfter, Final
  <2>2. QED
    BY <2>1 DEF Inv, Models
<1>3. CASE UNCHANGED vars
  BY <1>3 DEF vars, turnVars, Inv
<1>4. QED
  BY <1>1, <1>2, <1>3 DEF Next

\* One [DONE] ends the stream of chunks of a turn that is complete or has
\* failed, and there is none before (apply).
THEOREM DoneSafe == Spec => []EndsWithDone
<1>1. Inv => EndsWithDone
  BY DEF Inv, Closed, Clean, Dones, EndsWithDone
<1>2. QED
  BY <1>1, InvInit, InvNext, PTL DEF Spec

\* All chunks name the model the turn was routed to, where the backend names one
\* (Started, output_model).
THEOREM ModelSafe == Spec => []OneModel
<1>1. Inv => OneModel
  <2> SUFFICES ASSUME Inv, NEW j \in 1 .. Len(given),
                      given[j].type = "started", given[j].arg = "routed",
                      NEW i \in 1 .. Len(st.sent)
               PROVE  st.sent[i].model \in {"routed", "none"}
    BY DEF OneModel
  <2>1. st.model = "routed"
    BY DEF Inv
  <2>2. Named(st)
    BY DEF Inv, Closed, Clean
  <2>3. QED
    BY <2>1, <2>2 DEF Named, OutputModel
<1>2. QED
  BY <1>1, InvInit, InvNext, PTL DEF Spec

-----------------------------------------------------------------------------
(* What a client puts together from the log.                               *)

\* A client of the streaming API folds ReadChunk over the log.
Facts == INSTANCE SequenceFacts WITH Op <- ReadChunk

\* FlattenSeq is the operator the instance has facts about.
LEMMA FlattenHere == ASSUME NEW ss PROVE FlattenSeq(ss) = Facts!FlattenSeq(ss)
  BY Zenon DEF FlattenSeq, Facts!FlattenSeq

\* What a client has put together from the log of a state.
Out(s, kind) ==
  FlattenSeq([i \in 1 .. Len(s.sent) |-> IF s.sent[i].kind = kind THEN <<s.sent[i].n>> ELSE <<>>])

Merged(s) == FoldLeft(ReadChunk, <<>>, s.sent)

\* The chunks that say how the turn ended.
Closing(s) == {i \in 1 .. Len(s.sent) : s.sent[i].kind = "finish"}

EndsAlike(s) ==
  IF s.stop = "none" THEN Closing(s) = {}
  ELSE /\ Closing(s) # {}
       /\ \A i \in Closing(s) : s.sent[i].finish = Finish(s) /\ s.sent[i].model = OutputModel(s)

\* The log says what the state holds.
Faithful(s) ==
  /\ s \in State
  /\ Out(s, "content") = s.text /\ Out(s, "reasoning") = s.reasoning /\ Merged(s) = s.calls
  /\ EndsAlike(s)

\* A client that reads one more chunk.
LEMMA MergedAppend ==
  ASSUME NEW q \in Seq(Chunks), NEW c \in Chunks
  PROVE  FoldLeft(ReadChunk, <<>>, Append(q, c)) = ReadChunk(FoldLeft(ReadChunk, <<>>, q), c)
<1>1. \A r : FoldLeft(ReadChunk, <<>>, r) = Facts!Fold(<<>>, r)
  BY Zenon DEF FoldLeft, MapThenFoldSet, Facts!Fold, Facts!FoldLeft, Facts!MapThenFoldSet, Max, Facts!Max
<1>2. Facts!Fold(<<>>, Append(q, c)) = ReadChunk(Facts!Fold(<<>>, q), c)
  <2> DEFINE base == <<>>
             S == Chunks
  <2> HIDE DEF base
  <2>1. q \in Seq(S) /\ c \in S
    OBVIOUS
  <2> HIDE DEF S
  <2>2. Facts!Fold(base, Append(q, c)) = ReadChunk(Facts!Fold(base, q), c)
    BY <2>1, Facts!FoldAppend
  <2> QED BY <2>2 DEF base
<1> QED BY <1>1, <1>2, Zenon

\* The log starts empty.
LEMMA MergedEmpty == FoldLeft(ReadChunk, <<>>, <<>>) = <<>>
<1>1. \A r : FoldLeft(ReadChunk, <<>>, r) = Facts!Fold(<<>>, r)
  BY Zenon DEF FoldLeft, MapThenFoldSet, Facts!Fold, Facts!FoldLeft, Facts!MapThenFoldSet, Max, Facts!Max
<1>2. Facts!Fold(<<>>, <<>>) = <<>>
  BY Facts!FoldEmpty
<1> QED BY <1>1, <1>2, Zenon

\* A chunk that is sent is read last, and changes nothing else (chunk).
LEMMA EmitOut ==
  ASSUME NEW s \in State, NEW c \in Chunks, NEW kind
  PROVE  /\ Out(Emit(s, c), kind) = Out(s, kind) \o (IF c.kind = kind THEN <<c.n>> ELSE <<>>)
         /\ Merged(Emit(s, c)) = ReadChunk(Merged(s), c)
         /\ Closing(Emit(s, c)) = Closing(s) \cup (IF c.kind = "finish" THEN {Len(s.sent) + 1} ELSE {})
         /\ \A i \in Closing(s) : Emit(s, c).sent[i] = s.sent[i]
         /\ Emit(s, c).sent[Len(s.sent) + 1] = c
<1> DEFINE n == Len(s.sent)
           d == Emit(s, c)
           one(q, i) == IF q[i].kind = kind THEN <<q[i].n>> ELSE <<>>
           f == [i \in 1 .. n |-> one(s.sent, i)]
           h == [i \in 1 .. n + 1 |-> one(d.sent, i)]
<1>1. s.sent \in Seq(Chunks) /\ d.sent = Append(s.sent, c)
  BY DEF State, Emit
<1>2. /\ n \in Nat /\ Len(d.sent) = n + 1 /\ d.sent[n + 1] = c
      /\ \A i \in 1 .. n : d.sent[i] = s.sent[i]
  BY <1>1
<1>3. Out(s, kind) = FlattenSeq(f) /\ Out(d, kind) = FlattenSeq(h)
  BY <1>2 DEF Out
<1>4. Merged(d) = ReadChunk(Merged(s), c)
  BY <1>1, MergedAppend DEF Merged
<1> HIDE DEF d
<1>5. Facts!OneMore(f, h, n)
  <2>1. f = [i \in 1 .. n |-> f[i]] /\ h = [i \in 1 .. n + 1 |-> h[i]]
    OBVIOUS
  <2>2. \A i \in 1 .. n : h[i] = f[i]
    <3>1. \A i \in 1 .. n : i \in 1 .. n + 1
      BY <1>2
    <3> QED BY <1>2, <3>1
  <2> HIDE DEF f, h
  <2> QED BY <2>1, <2>2 DEF Facts!OneMore
<1>6. n + 1 \in 1 .. n + 1 /\ h[n + 1] = IF c.kind = kind THEN <<c.n>> ELSE <<>>
  BY <1>2
<1>7. <<>> \o h[n + 1] = h[n + 1]
  <2>1. \A x : <<>> \o <<x>> = <<x>> /\ <<>> \o <<>> = <<>>
    OBVIOUS
  <2> QED BY <1>6, <2>1
<1>8. Closing(d) = Closing(s) \cup (IF c.kind = "finish" THEN {n + 1} ELSE {})
  BY <1>2 DEF Closing
<1>9. \A i \in Closing(s) : d.sent[i] = s.sent[i]
  BY <1>2 DEF Closing
<1> HIDE DEF f, h
<1>10. FlattenSeq(h) = FlattenSeq(f) \o h[n + 1]
  BY <1>2, <1>5, <1>7, FlattenHere, Facts!FlattenOneMore
<1> QED BY <1>2, <1>3, <1>4, <1>6, <1>8, <1>9, <1>10 DEF d

\* Two states with the same log have told a client the same.
LEMMA SameOut ==
  ASSUME NEW s, NEW d, d.sent = s.sent, NEW kind
  PROVE  Out(d, kind) = Out(s, kind) /\ Merged(d) = Merged(s) /\ Closing(d) = Closing(s)
  BY DEF Out, Merged, Closing

\* A call whose index is the number of calls goes to their end (index).
LEMMA MergeNext ==
  ASSUME NEW calls \in Seq(Seq(Nat)), NEW c \in Chunks, c.index = Len(calls)
  PROVE  MergeCall(calls, c) = Append(calls, <<c.n>>)
<1> DEFINE a == MergeCall(calls, c)
           b == Append(calls, <<c.n>>)
           k == Len(calls)
           S == Seq(Nat)
<1>1. k \in Nat /\ <<c.n>> \in Seq(Nat) /\ b \in Seq(S) /\ Len(b) = k + 1
      /\ b[k + 1] = <<c.n>> /\ \A i \in 1 .. k : b[i] = calls[i]
  BY DEF Chunks
<1>2. a = [i \in 1 .. k + 1 |->
             LET known == IF i <= k THEN calls[i] ELSE <<>>
             IN IF i = k + 1 THEN Append(known, c.n) ELSE known]
  BY <1>1 DEF MergeCall
<1>3. \A i \in 1 .. k + 1 : a[i] = b[i]
  <2> SUFFICES ASSUME NEW i \in 1 .. k + 1 PROVE a[i] = b[i]
    OBVIOUS
  <2>1. CASE i = k + 1
    <3>1. Append(<<>>, c.n) = <<c.n>> /\ ~(i <= k)
      BY <1>1, <2>1
    <3> QED BY <1>1, <1>2, <2>1, <3>1
  <2>2. CASE i # k + 1
    <3>1. i \in 1 .. k /\ i <= k
      BY <1>1, <2>2
    <3> QED BY <1>1, <1>2, <2>2, <3>1
  <2> QED BY <2>1, <2>2
<1>4. a \in Seq(S) /\ Len(a) = k + 1
  <2>1. \A i \in 1 .. k + 1 : b[i] \in S
    BY <1>1
  <2>2. a = [i \in 1 .. k + 1 |-> a[i]] /\ \A i \in 1 .. k + 1 : a[i] \in S
    BY <1>2, <1>3, <2>1
  <2> HIDE DEF a, b, S
  <2>3. a \in [1 .. k + 1 -> S] /\ k + 1 \in Nat
    BY <1>1, <2>2
  <2> QED BY <2>3
<1> HIDE DEF a, b, S, k
<1>5. a = b
  BY <1>1, <1>3, <1>4, Facts!SameEntries
<1> QED BY <1>5 DEF a, b

-----------------------------------------------------------------------------
(* What every helper of apply adds to it.                                  *)

\* A change of the state, and then the chunk that tells the client of it: texts
\* and calls are the ones that were appended, and the turn goes on.
LEMMA TellFaithful ==
  ASSUME NEW s, Faithful(s), s.stop = "none", NEW t \in State, t.sent = s.sent, t.stop = "none",
         NEW c \in Chunks, c.kind \notin {"finish"},
         t.text = s.text \o (IF c.kind = "content" THEN <<c.n>> ELSE <<>>),
         t.reasoning = s.reasoning \o (IF c.kind = "reasoning" THEN <<c.n>> ELSE <<>>),
         t.calls = IF c.kind = "tool_call" THEN Append(s.calls, <<c.n>>) ELSE s.calls,
         c.kind = "tool_call" => c.index = Len(s.calls)
  PROVE  /\ Faithful(Emit(t, c))
         /\ Emit(t, c).text = t.text /\ Emit(t, c).reasoning = t.reasoning /\ Emit(t, c).calls = t.calls
         /\ Emit(t, c).stop = "none" /\ Emit(t, c).failed = t.failed /\ Emit(t, c).model = t.model
<1> DEFINE d == Emit(t, c)
<1>1. /\ d \in State
      /\ d.text = t.text /\ d.reasoning = t.reasoning /\ d.calls = t.calls
      /\ d.stop = t.stop /\ d.failed = t.failed /\ d.model = t.model
  <2>1. Append(t.sent, c) \in Seq(Chunks)
    BY DEF State
  <2> QED BY <2>1 DEF Emit, State
<1>2. \A kind : Out(d, kind) = Out(s, kind) \o (IF c.kind = kind THEN <<c.n>> ELSE <<>>)
  <2> SUFFICES ASSUME NEW kind PROVE Out(d, kind) = Out(s, kind) \o (IF c.kind = kind THEN <<c.n>> ELSE <<>>)
    OBVIOUS
  <2>1. Out(t, kind) = Out(s, kind)
    BY SameOut
  <2>2. Out(Emit(t, c), kind) = Out(t, kind) \o (IF c.kind = kind THEN <<c.n>> ELSE <<>>)
    BY EmitOut
  <2> QED BY <2>1, <2>2
<1>3. Merged(d) = ReadChunk(Merged(s), c) /\ Closing(d) = {}
  <2> DEFINE kind == "content"
  <2> HIDE DEF kind
  <2>1. Merged(t) = Merged(s) /\ Closing(t) = Closing(s)
    <3>1. Out(t, kind) = Out(s, kind) /\ Merged(t) = Merged(s) /\ Closing(t) = Closing(s)
      BY SameOut
    <3> QED BY <3>1
  <2>2. Merged(d) = ReadChunk(Merged(t), c) /\ Closing(d) = Closing(t) \cup (IF c.kind = "finish" THEN {Len(t.sent) + 1} ELSE {})
    <3>1. /\ Out(Emit(t, c), kind) = Out(t, kind) \o (IF c.kind = kind THEN <<c.n>> ELSE <<>>)
          /\ Merged(Emit(t, c)) = ReadChunk(Merged(t), c)
          /\ Closing(Emit(t, c)) = Closing(t) \cup (IF c.kind = "finish" THEN {Len(t.sent) + 1} ELSE {})
      BY EmitOut
    <3> QED BY <3>1
  <2>3. Closing(s) = {}
    BY DEF Faithful, EndsAlike
  <2> QED BY <2>1, <2>2, <2>3
<1>4. Out(d, "content") = d.text /\ Out(d, "reasoning") = d.reasoning
  BY <1>1, <1>2 DEF Faithful
<1>5. Merged(d) = d.calls
  <2>1. s.calls \in Seq(Seq(Nat)) /\ Merged(s) = s.calls
    BY DEF Faithful, State
  <2>2. c.kind = "tool_call" => MergeCall(s.calls, c) = Append(s.calls, <<c.n>>)
    BY <2>1, MergeNext
  <2> QED BY <1>1, <1>3, <2>1, <2>2 DEF ReadChunk
<1> HIDE DEF d
<1>6. Faithful(d)
  BY <1>1, <1>3, <1>4, <1>5 DEF Faithful, EndsAlike
<1> QED BY <1>1, <1>6 DEF d

\* What no reader of texts and calls sees.
LEMMA QuietFaithful ==
  ASSUME NEW s, Faithful(s), s.stop = "none", NEW t \in State, t.sent = s.sent, t.stop = "none",
         t.text = s.text, t.reasoning = s.reasoning, t.calls = s.calls,
         NEW c \in Chunks, c.kind \notin {"finish", "content", "reasoning", "tool_call"}
  PROVE  /\ Faithful(Emit(t, c))
         /\ Emit(t, c).text = t.text /\ Emit(t, c).reasoning = t.reasoning /\ Emit(t, c).calls = t.calls
         /\ Emit(t, c).stop = "none" /\ Emit(t, c).failed = t.failed /\ Emit(t, c).model = t.model
<1>1. s.text \in Seq(Nat) /\ s.reasoning \in Seq(Nat)
  BY DEF Faithful, State
<1>1a. s.text \o <<>> = s.text /\ s.reasoning \o <<>> = s.reasoning
  BY <1>1
<1>2. /\ t.text = s.text \o (IF c.kind = "content" THEN <<c.n>> ELSE <<>>)
      /\ t.reasoning = s.reasoning \o (IF c.kind = "reasoning" THEN <<c.n>> ELSE <<>>)
      /\ t.calls = IF c.kind = "tool_call" THEN Append(s.calls, <<c.n>>) ELSE s.calls
      /\ c.kind = "tool_call" => c.index = Len(s.calls)
      /\ c.kind \notin {"finish"}
  BY <1>1a
<1> QED BY <1>2, TellFaithful

\* The first chunk names the model (Started).
LEMMA BeginFaithful ==
  ASSUME NEW s, Faithful(s), s.stop = "none", NEW e, e.arg \in Models
  PROVE  LET d == Begin(s, e) IN
         /\ Faithful(d) /\ d.text = s.text /\ d.reasoning = s.reasoning /\ d.calls = s.calls
         /\ d.stop = "none" /\ d.failed = s.failed /\ d.model = e.arg
<1> DEFINE t == [s EXCEPT !.model = NamedModel(s, e)]
           c == Chunk(t, "role")
           d == Begin(s, e)
<1>1. /\ t \in State /\ t.sent = s.sent /\ t.stop = "none" /\ t.failed = s.failed /\ t.model = e.arg
      /\ t.text = s.text /\ t.reasoning = s.reasoning /\ t.calls = s.calls
  BY DEF Faithful, State, NamedModel
<1>2. d = Emit(t, c)
  BY DEF Begin
<1> HIDE DEF t, d
<1>3. c \in Chunks /\ c.kind = "role"
  BY <1>1, ChunkFacts DEF Kinds
<1> HIDE DEF c
<1>4. /\ Faithful(Emit(t, c))
      /\ Emit(t, c).text = t.text /\ Emit(t, c).reasoning = t.reasoning /\ Emit(t, c).calls = t.calls
      /\ Emit(t, c).stop = "none" /\ Emit(t, c).failed = t.failed /\ Emit(t, c).model = t.model
  <2>1. c.kind \notin {"finish", "content", "reasoning", "tool_call"}
    BY <1>3
  <2> QED BY <1>1, <1>3, <2>1, QuietFaithful
<1>5. /\ Faithful(d) /\ d.text = s.text /\ d.reasoning = s.reasoning /\ d.calls = s.calls
      /\ d.stop = "none" /\ d.failed = s.failed /\ d.model = e.arg
  BY <1>1, <1>2, <1>4
<1> QED BY <1>5 DEF d

\* Deltas and calls are noted and told alike (text, thinking, breaks, calls).
LEMMA ContentFaithful ==
  ASSUME NEW s, Faithful(s), s.stop = "none", NEW n \in Nat
  PROVE  /\ LET d == AddText(s, n) IN
            /\ Faithful(d) /\ d.text = Append(s.text, n) /\ d.reasoning = s.reasoning /\ d.calls = s.calls
            /\ d.stop = "none" /\ d.failed = s.failed /\ d.model = s.model
         /\ LET d == AddReasoning(s, n) IN
            /\ Faithful(d) /\ d.text = s.text /\ d.reasoning = Append(s.reasoning, n) /\ d.calls = s.calls
            /\ d.stop = "none" /\ d.failed = s.failed /\ d.model = s.model
         /\ LET d == AddCall(s, n) IN
            /\ Faithful(d) /\ d.text = s.text /\ d.reasoning = s.reasoning
            /\ d.calls = Append(s.calls, <<n>>)
            /\ d.stop = "none" /\ d.failed = s.failed /\ d.model = s.model
<1>1. s \in State /\ s.text \in Seq(Nat) /\ s.reasoning \in Seq(Nat) /\ s.calls \in Seq(Seq(Nat))
  BY DEF Faithful, State
<1>0. \A q \in Seq(Nat) : q \o <<>> = q /\ q \o <<n>> = Append(q, n) /\ Append(q, n) \in Seq(Nat)
  OBVIOUS
<1>2. LET d == AddText(s, n) IN
      /\ Faithful(d) /\ d.text = Append(s.text, n) /\ d.reasoning = s.reasoning /\ d.calls = s.calls
      /\ d.stop = "none" /\ d.failed = s.failed /\ d.model = s.model
  <2> DEFINE t == [s EXCEPT !.text = Append(@, n)]
             b == Chunk(s, "content")
             c == [b EXCEPT !.n = n]
             d == AddText(s, n)
  <2>1. /\ t \in State /\ t.sent = s.sent /\ t.stop = "none" /\ t.failed = s.failed /\ t.model = s.model
        /\ t.text = s.text \o <<n>> /\ t.reasoning = s.reasoning \o <<>> /\ t.calls = s.calls
        /\ t.text = Append(s.text, n) /\ t.reasoning = s.reasoning
    BY <1>0, <1>1 DEF State
  <2>2. b \in Chunks /\ b.kind = "content"
    BY <1>1, ChunkFacts DEF Kinds
  <2>3. c \in Chunks /\ c.kind = "content" /\ c.n = n
    BY <2>2 DEF Chunks
  <2>4. d = Emit(t, c)
    BY DEF AddText
  <2> HIDE DEF t, b, c, d
  <2>5. /\ Faithful(Emit(t, c))
        /\ Emit(t, c).text = t.text /\ Emit(t, c).reasoning = t.reasoning /\ Emit(t, c).calls = t.calls
        /\ Emit(t, c).stop = "none" /\ Emit(t, c).failed = t.failed /\ Emit(t, c).model = t.model
    <3>1. /\ t.text = s.text \o (IF c.kind = "content" THEN <<c.n>> ELSE <<>>)
          /\ t.reasoning = s.reasoning \o (IF c.kind = "reasoning" THEN <<c.n>> ELSE <<>>)
          /\ t.calls = IF c.kind = "tool_call" THEN Append(s.calls, <<c.n>>) ELSE s.calls
          /\ c.kind = "tool_call" => c.index = Len(s.calls)
          /\ c.kind \notin {"finish"}
      BY <2>1, <2>3
    <3> QED BY <2>1, <2>3, <3>1, TellFaithful
  <2>6. /\ Faithful(d) /\ d.text = Append(s.text, n) /\ d.reasoning = s.reasoning /\ d.calls = s.calls
        /\ d.stop = "none" /\ d.failed = s.failed /\ d.model = s.model
    BY <2>1, <2>4, <2>5
  <2> QED BY <2>6 DEF d
<1>3. LET d == AddReasoning(s, n) IN
      /\ Faithful(d) /\ d.text = s.text /\ d.reasoning = Append(s.reasoning, n) /\ d.calls = s.calls
      /\ d.stop = "none" /\ d.failed = s.failed /\ d.model = s.model
  <2> DEFINE t == [s EXCEPT !.reasoning = Append(@, n)]
             b == Chunk(s, "reasoning")
             c == [b EXCEPT !.n = n]
             d == AddReasoning(s, n)
  <2>1. /\ t \in State /\ t.sent = s.sent /\ t.stop = "none" /\ t.failed = s.failed /\ t.model = s.model
        /\ t.text = s.text \o <<>> /\ t.reasoning = s.reasoning \o <<n>> /\ t.calls = s.calls
        /\ t.text = s.text /\ t.reasoning = Append(s.reasoning, n)
    BY <1>0, <1>1 DEF State
  <2>2. b \in Chunks /\ b.kind = "reasoning"
    BY <1>1, ChunkFacts DEF Kinds
  <2>3. c \in Chunks /\ c.kind = "reasoning" /\ c.n = n
    BY <2>2 DEF Chunks
  <2>4. d = Emit(t, c)
    BY DEF AddReasoning
  <2> HIDE DEF t, b, c, d
  <2>5. /\ Faithful(Emit(t, c))
        /\ Emit(t, c).text = t.text /\ Emit(t, c).reasoning = t.reasoning /\ Emit(t, c).calls = t.calls
        /\ Emit(t, c).stop = "none" /\ Emit(t, c).failed = t.failed /\ Emit(t, c).model = t.model
    <3>1. /\ t.text = s.text \o (IF c.kind = "content" THEN <<c.n>> ELSE <<>>)
          /\ t.reasoning = s.reasoning \o (IF c.kind = "reasoning" THEN <<c.n>> ELSE <<>>)
          /\ t.calls = IF c.kind = "tool_call" THEN Append(s.calls, <<c.n>>) ELSE s.calls
          /\ c.kind = "tool_call" => c.index = Len(s.calls)
          /\ c.kind \notin {"finish"}
      BY <2>1, <2>3
    <3> QED BY <2>1, <2>3, <3>1, TellFaithful
  <2>6. /\ Faithful(d) /\ d.text = s.text /\ d.reasoning = Append(s.reasoning, n) /\ d.calls = s.calls
        /\ d.stop = "none" /\ d.failed = s.failed /\ d.model = s.model
    BY <2>1, <2>4, <2>5
  <2> QED BY <2>6 DEF d
<1>4. LET d == AddCall(s, n) IN
      /\ Faithful(d) /\ d.text = s.text /\ d.reasoning = s.reasoning
      /\ d.calls = Append(s.calls, <<n>>)
      /\ d.stop = "none" /\ d.failed = s.failed /\ d.model = s.model
  <2> DEFINE t == [s EXCEPT !.calls = Append(@, <<n>>)]
             b == Chunk(s, "tool_call")
             k == Len(s.calls)
             c == [b EXCEPT !.n = n, !.index = k]
             d == AddCall(s, n)
  <2>1. /\ t \in State /\ t.sent = s.sent /\ t.stop = "none" /\ t.failed = s.failed /\ t.model = s.model
        /\ t.text = s.text \o <<>> /\ t.reasoning = s.reasoning \o <<>> /\ t.calls = Append(s.calls, <<n>>)
        /\ t.text = s.text /\ t.reasoning = s.reasoning
    <3>1. <<n>> \in Seq(Nat)
      OBVIOUS
    <3>2. Append(s.calls, <<n>>) \in Seq(Seq(Nat))
      BY <1>1, <3>1
    <3> QED BY <1>0, <1>1, <3>2 DEF State
  <2>2. b \in Chunks /\ b.kind = "tool_call" /\ k \in Nat
    BY <1>1, ChunkFacts DEF Kinds
  <2>3. c \in Chunks /\ c.kind = "tool_call" /\ c.n = n /\ c.index = k
    <3> HIDE DEF b, k
    <3> QED BY <2>2 DEF Chunks
  <2>4. d = Emit(t, c)
    BY DEF AddCall, CallIndex
  <2> HIDE DEF t, b, c, d
  <2>5. /\ Faithful(Emit(t, c))
        /\ Emit(t, c).text = t.text /\ Emit(t, c).reasoning = t.reasoning /\ Emit(t, c).calls = t.calls
        /\ Emit(t, c).stop = "none" /\ Emit(t, c).failed = t.failed /\ Emit(t, c).model = t.model
    <3>1. /\ t.text = s.text \o (IF c.kind = "content" THEN <<c.n>> ELSE <<>>)
          /\ t.reasoning = s.reasoning \o (IF c.kind = "reasoning" THEN <<c.n>> ELSE <<>>)
          /\ t.calls = IF c.kind = "tool_call" THEN Append(s.calls, <<c.n>>) ELSE s.calls
          /\ c.kind = "tool_call" => c.index = Len(s.calls)
          /\ c.kind \notin {"finish"}
      BY <2>1, <2>3
    <3> QED BY <2>1, <2>3, <3>1, TellFaithful
  <2>6. /\ Faithful(d) /\ d.text = s.text /\ d.reasoning = s.reasoning
        /\ d.calls = Append(s.calls, <<n>>)
        /\ d.stop = "none" /\ d.failed = s.failed /\ d.model = s.model
    BY <2>1, <2>4, <2>5
  <2> QED BY <2>6 DEF d
<1> QED BY <1>2, <1>3, <1>4

-----------------------------------------------------------------------------
(* How a turn ends.                                                        *)

\* What a chunk does to the state, apart from the log.
LEMMA EmitKeeps ==
  ASSUME NEW s \in State, NEW c \in Chunks
  PROVE  /\ Emit(s, c) \in State
         /\ Emit(s, c).text = s.text /\ Emit(s, c).reasoning = s.reasoning /\ Emit(s, c).calls = s.calls
         /\ Emit(s, c).stop = s.stop /\ Emit(s, c).failed = s.failed /\ Emit(s, c).model = s.model
<1>1. Append(s.sent, c) \in Seq(Chunks)
  BY DEF State
<1> QED BY <1>1 DEF Emit, State

\* A chunk that carries neither text nor a call is read by nobody.
LEMMA EmitQuiet ==
  ASSUME NEW s \in State, NEW c \in Chunks, c.kind \notin {"content", "reasoning", "tool_call"},
         NEW kind \in {"content", "reasoning"}
  PROVE  /\ Out(Emit(s, c), kind) = Out(s, kind) \o <<>>
         /\ Merged(Emit(s, c)) = Merged(s)
         /\ Closing(Emit(s, c)) = Closing(s) \cup (IF c.kind = "finish" THEN {Len(s.sent) + 1} ELSE {})
         /\ \A i \in Closing(s) : Emit(s, c).sent[i] = s.sent[i]
         /\ Emit(s, c).sent[Len(s.sent) + 1] = c
<1>1. /\ Out(Emit(s, c), kind) = Out(s, kind) \o (IF c.kind = kind THEN <<c.n>> ELSE <<>>)
      /\ Merged(Emit(s, c)) = ReadChunk(Merged(s), c)
      /\ Closing(Emit(s, c)) = Closing(s) \cup (IF c.kind = "finish" THEN {Len(s.sent) + 1} ELSE {})
      /\ \A i \in Closing(s) : Emit(s, c).sent[i] = s.sent[i]
      /\ Emit(s, c).sent[Len(s.sent) + 1] = c
  BY EmitOut
<1> QED BY <1>1 DEF ReadChunk

\* The chunk that ends the turn says what response() will say (Done).
LEMMA FinishFaithful ==
  ASSUME NEW s, Faithful(s), s.stop = "none", NEW t \in State, t.sent = s.sent, t.stop # "none",
         t.text = s.text, t.reasoning = s.reasoning, t.calls = s.calls,
         NEW c \in Chunks, c.kind = "finish", c.finish = Finish(t), c.model = OutputModel(t)
  PROVE  Faithful(Emit(t, c))
<1> DEFINE d == Emit(t, c)
           k == Len(t.sent) + 1
<1>1. /\ d \in State /\ d.text = t.text /\ d.reasoning = t.reasoning /\ d.calls = t.calls
      /\ d.stop = t.stop /\ d.model = t.model
  BY EmitKeeps
<1>2. s.text \o <<>> = s.text /\ s.reasoning \o <<>> = s.reasoning
  <2>1. s.text \in Seq(Nat) /\ s.reasoning \in Seq(Nat)
    BY DEF Faithful, State
  <2> QED BY <2>1
<1>3. ASSUME NEW kind \in {"content", "reasoning"}
      PROVE  /\ Out(d, kind) = Out(s, kind) \o <<>> /\ Merged(d) = Merged(s)
             /\ Closing(d) = {k} /\ d.sent[k] = c
  <2>1. c.kind \notin {"content", "reasoning", "tool_call"}
    OBVIOUS
  <2>2. /\ Out(d, kind) = Out(t, kind) \o <<>> /\ Merged(d) = Merged(t)
        /\ Closing(d) = Closing(t) \cup (IF c.kind = "finish" THEN {k} ELSE {})
        /\ d.sent[k] = c
    BY <2>1, EmitQuiet
  <2>3. Out(t, kind) = Out(s, kind) /\ Merged(t) = Merged(s) /\ Closing(t) = Closing(s)
    BY SameOut
  <2>4. Closing(s) = {}
    BY DEF Faithful, EndsAlike
  <2> QED BY <2>2, <2>3, <2>4
<1>4. Finish(d) = Finish(t) /\ OutputModel(d) = OutputModel(t)
  BY <1>1 DEF Finish, OutputModel
<1> HIDE DEF d, k
<1>5. Out(d, "content") = d.text /\ Out(d, "reasoning") = d.reasoning /\ Merged(d) = d.calls
      /\ Closing(d) = {k} /\ d.sent[k] = c
  BY <1>1, <1>2, <1>3 DEF Faithful
<1>6. Faithful(d)
  BY <1>1, <1>4, <1>5 DEF Faithful, EndsAlike
<1> QED BY <1>6 DEF d

\* What follows that chunk takes nothing back.
LEMMA AfterFaithful ==
  ASSUME NEW s, Faithful(s), NEW c \in Chunks, c.kind \notin {"finish", "content", "reasoning", "tool_call"}
  PROVE  Faithful(Emit(s, c))
<1> DEFINE d == Emit(s, c)
<1>0. s \in State
  BY DEF Faithful
<1>1. /\ d \in State /\ d.text = s.text /\ d.reasoning = s.reasoning /\ d.calls = s.calls
      /\ d.stop = s.stop /\ d.model = s.model
  BY <1>0, EmitKeeps
<1>2. s.text \o <<>> = s.text /\ s.reasoning \o <<>> = s.reasoning
  <2>1. s.text \in Seq(Nat) /\ s.reasoning \in Seq(Nat)
    BY DEF Faithful, State
  <2> QED BY <2>1
<1>3. ASSUME NEW kind \in {"content", "reasoning"}
      PROVE  /\ Out(d, kind) = Out(s, kind) \o <<>> /\ Merged(d) = Merged(s)
             /\ Closing(d) = Closing(s) /\ \A i \in Closing(s) : d.sent[i] = s.sent[i]
  <2>1. c.kind \notin {"content", "reasoning", "tool_call"}
    OBVIOUS
  <2>2. /\ Out(d, kind) = Out(s, kind) \o <<>> /\ Merged(d) = Merged(s)
        /\ Closing(d) = Closing(s) \cup (IF c.kind = "finish" THEN {Len(s.sent) + 1} ELSE {})
        /\ \A i \in Closing(s) : d.sent[i] = s.sent[i]
    BY <1>0, <2>1, EmitQuiet
  <2> QED BY <2>2
<1>4. Finish(d) = Finish(s) /\ OutputModel(d) = OutputModel(s)
  BY <1>1 DEF Finish, OutputModel
<1> HIDE DEF d
<1>5. Out(d, "content") = d.text /\ Out(d, "reasoning") = d.reasoning /\ Merged(d) = d.calls
      /\ Closing(d) = Closing(s) /\ \A i \in Closing(s) : d.sent[i] = s.sent[i]
  BY <1>1, <1>2, <1>3 DEF Faithful
<1>6. Faithful(d)
  BY <1>1, <1>4, <1>5 DEF Faithful, EndsAlike
<1> QED BY <1>6 DEF d

\* A completion says how the turn ended, and then nothing that counts (Done).
LEMMA CompleteFaithful ==
  ASSUME NEW s, Faithful(s), s.stop = "none", NEW reason \in {"end_turn", "aborted"}
  PROVE  LET d == Complete(s, reason) IN
         /\ Faithful(d) /\ d.text = s.text /\ d.reasoning = s.reasoning /\ d.calls = s.calls
         /\ d.stop = reason /\ d.failed = s.failed /\ d.model = s.model
<1> DEFINE t == [s EXCEPT !.stop = reason]
           plain == Chunk(t, "finish")
           finish == [plain EXCEPT !.finish = Finish(t)]
           usage == Chunk(t, "usage")
           f == Emit(t, finish)
           g == Emit(f, usage)
           counted == IF usageWanted THEN g ELSE f
           d == Complete(s, reason)
<1>1. /\ t \in State /\ t.sent = s.sent /\ t.stop = reason /\ t.failed = s.failed /\ t.model = s.model
      /\ t.text = s.text /\ t.reasoning = s.reasoning /\ t.calls = s.calls
  BY DEF Faithful, State, Stops
<1>2. d = Emit(counted, DoneMark)
  BY DEF Complete
<1> HIDE DEF t, d
<1>3. /\ plain \in Chunks /\ plain.kind = "finish" /\ plain.model = OutputModel(t)
      /\ usage \in Chunks /\ usage.kind = "usage"
  BY <1>1, ChunkFacts DEF Kinds
<1>4. Finish(t) \in Finishes
  BY DEF Finish, Finishes
<1> HIDE DEF plain, usage
<1>5. finish \in Chunks /\ finish.kind = "finish" /\ finish.model = OutputModel(t) /\ finish.finish = Finish(t)
  BY <1>3, <1>4 DEF Chunks
<1> HIDE DEF finish
<1>6. Faithful(Emit(t, finish))
  BY <1>1, <1>5, FinishFaithful
<1>7. Emit(t, finish).text = t.text /\ Emit(t, finish).reasoning = t.reasoning /\ Emit(t, finish).calls = t.calls
      /\ Emit(t, finish).stop = t.stop /\ Emit(t, finish).failed = t.failed /\ Emit(t, finish).model = t.model
  BY <1>1, <1>5, EmitKeeps
<1>8. /\ Faithful(f) /\ f \in State /\ f.text = t.text /\ f.reasoning = t.reasoning /\ f.calls = t.calls
      /\ f.stop = t.stop /\ f.failed = t.failed /\ f.model = t.model
  BY <1>6, <1>7 DEF Faithful
<1> HIDE DEF f
<1>9. Faithful(Emit(f, usage))
  BY <1>3, <1>8, AfterFaithful
<1>10. Emit(f, usage).text = f.text /\ Emit(f, usage).reasoning = f.reasoning /\ Emit(f, usage).calls = f.calls
      /\ Emit(f, usage).stop = f.stop /\ Emit(f, usage).failed = f.failed /\ Emit(f, usage).model = f.model
  BY <1>3, <1>8, EmitKeeps
<1>11. /\ Faithful(g) /\ g.text = t.text /\ g.reasoning = t.reasoning /\ g.calls = t.calls
       /\ g.stop = t.stop /\ g.failed = t.failed /\ g.model = t.model
  BY <1>8, <1>9, <1>10
<1> HIDE DEF g
<1>12. /\ Faithful(counted) /\ counted \in State
       /\ counted.text = t.text /\ counted.reasoning = t.reasoning /\ counted.calls = t.calls
       /\ counted.stop = t.stop /\ counted.failed = t.failed /\ counted.model = t.model
  BY <1>8, <1>11 DEF Faithful
<1> HIDE DEF counted
<1>13. DoneMark \in Chunks /\ DoneMark.kind \notin {"finish", "content", "reasoning", "tool_call"}
  BY BareFacts
<1>14. Faithful(Emit(counted, DoneMark))
  BY <1>12, <1>13, AfterFaithful
<1>15. /\ Emit(counted, DoneMark).text = counted.text /\ Emit(counted, DoneMark).reasoning = counted.reasoning
       /\ Emit(counted, DoneMark).calls = counted.calls /\ Emit(counted, DoneMark).stop = counted.stop
       /\ Emit(counted, DoneMark).failed = counted.failed /\ Emit(counted, DoneMark).model = counted.model
  BY <1>12, <1>13, EmitKeeps
<1>16. /\ Faithful(d) /\ d.text = s.text /\ d.reasoning = s.reasoning /\ d.calls = s.calls
       /\ d.stop = reason /\ d.failed = s.failed /\ d.model = s.model
  BY <1>1, <1>2, <1>12, <1>14, <1>15
<1> QED BY <1>16 DEF d

\* A failure leaves what was said (Failed).
LEMMA FailFaithful ==
  ASSUME NEW s, Faithful(s), s.stop = "none"
  PROVE  LET d == FailTurn(s) IN
         /\ Faithful(d) /\ d.text = s.text /\ d.reasoning = s.reasoning /\ d.calls = s.calls
         /\ d.stop = "none" /\ d.failed = TRUE /\ d.model = s.model
<1> DEFINE t == [s EXCEPT !.failed = TRUE]
           c == Bare("error")
           f == Emit(t, c)
           d == FailTurn(s)
<1>1. /\ t \in State /\ t.sent = s.sent /\ t.stop = "none" /\ t.failed = TRUE /\ t.model = s.model
      /\ t.text = s.text /\ t.reasoning = s.reasoning /\ t.calls = s.calls
  BY DEF Faithful, State
<1>2. d = Emit(f, DoneMark)
  BY DEF FailTurn
<1>3. /\ c \in Chunks /\ c.kind \notin {"finish", "content", "reasoning", "tool_call"}
      /\ DoneMark \in Chunks /\ DoneMark.kind \notin {"finish", "content", "reasoning", "tool_call"}
  BY BareFacts
<1> HIDE DEF t, c, d
<1>4. /\ Faithful(Emit(t, c))
      /\ Emit(t, c).text = t.text /\ Emit(t, c).reasoning = t.reasoning /\ Emit(t, c).calls = t.calls
      /\ Emit(t, c).stop = "none" /\ Emit(t, c).failed = t.failed /\ Emit(t, c).model = t.model
  BY <1>1, <1>3, QuietFaithful
<1>5. /\ Faithful(f) /\ f \in State
      /\ f.text = t.text /\ f.reasoning = t.reasoning /\ f.calls = t.calls
      /\ f.stop = "none" /\ f.failed = t.failed /\ f.model = t.model
  BY <1>4 DEF Faithful
<1> HIDE DEF f
<1>6. Faithful(Emit(f, DoneMark))
  BY <1>3, <1>5, AfterFaithful
<1>7. /\ Emit(f, DoneMark).text = f.text /\ Emit(f, DoneMark).reasoning = f.reasoning
      /\ Emit(f, DoneMark).calls = f.calls /\ Emit(f, DoneMark).stop = f.stop
      /\ Emit(f, DoneMark).failed = f.failed /\ Emit(f, DoneMark).model = f.model
  BY <1>3, <1>5, EmitKeeps
<1>8. /\ Faithful(d) /\ d.text = s.text /\ d.reasoning = s.reasoning /\ d.calls = s.calls
      /\ d.stop = "none" /\ d.failed = TRUE /\ d.model = s.model
  BY <1>1, <1>2, <1>5, <1>6, <1>7
<1> QED BY <1>8 DEF d

-----------------------------------------------------------------------------
(* What an event adds to what the turn says.                               *)

\* What apply makes of an event, while the turn goes on.
Heard(s, e, d) ==
  /\ Faithful(d)
  /\ d.text = IF e.type = "text_delta" THEN Append(s.text, e.n) ELSE s.text
  /\ d.calls = IF e.type = "tool_call" THEN Append(s.calls, <<e.n>>) ELSE s.calls
  /\ d.reasoning = IF e.type = "thinking_delta" THEN Append(s.reasoning, e.n)
                   ELSE IF e.type = "thinking_break" /\ s.reasoning # <<>> THEN Append(s.reasoning, Break)
                   ELSE s.reasoning
  /\ d.stop = IF e.type = "done" THEN e.arg ELSE "none"
  /\ d.failed = (e.type = "failed")
  /\ d.model = IF e.type = "started" THEN e.arg ELSE s.model

\* The log stays faithful under every event (apply).
LEMMA ApplyFaithful ==
  ASSUME NEW s, Faithful(s), s.stop = "none", s.failed = FALSE, NEW e \in EventType,
         e.type = "started" => e.arg \in Models,
         e.type = "done" => e.arg \in {"end_turn", "aborted"}
  PROVE  Heard(s, e, Apply(s, e))
<1> DEFINE d == Apply(s, e)
<1> SUFFICES Heard(s, e, d)
  OBVIOUS
<1>1. e.type \in EventTypes /\ e.n \in Nat /\ Break \in Nat
  BY DEF EventType, Break
<1>2. /\ e.type = "started" => d = Begin(s, e)
      /\ e.type = "text_delta" => d = AddText(s, e.n)
      /\ e.type = "thinking_delta" => d = AddReasoning(s, e.n)
      /\ e.type = "thinking_break" => d = AddBreak(s)
      /\ e.type = "tool_call" => d = AddCall(s, e.n)
      /\ e.type = "done" => d = Complete(s, e.arg)
      /\ e.type = "failed" => d = FailTurn(s)
      /\ e.type \in {"rate_limits", "reasoning"} => d = s
  BY DEF Apply, Over
<1> HIDE DEF d
<1>3. CASE e.type = "started"
  <2> DEFINE c == Begin(s, e)
  <2>1. /\ Faithful(c) /\ c.text = s.text /\ c.reasoning = s.reasoning /\ c.calls = s.calls
        /\ c.stop = "none" /\ c.failed = s.failed /\ c.model = e.arg
    BY <1>3, BeginFaithful
  <2>2. d = c
    BY <1>2, <1>3
  <2> HIDE DEF c
  <2> QED BY <1>3, <2>1, <2>2 DEF Heard
<1>4. CASE e.type = "text_delta"
  <2> DEFINE c == AddText(s, e.n)
  <2>1. /\ Faithful(c) /\ c.text = Append(s.text, e.n) /\ c.reasoning = s.reasoning /\ c.calls = s.calls
        /\ c.stop = "none" /\ c.failed = s.failed /\ c.model = s.model
    BY <1>1, ContentFaithful
  <2>2. d = c
    BY <1>2, <1>4
  <2> HIDE DEF c
  <2> QED BY <1>4, <2>1, <2>2 DEF Heard
<1>5. CASE e.type = "thinking_delta"
  <2> DEFINE c == AddReasoning(s, e.n)
  <2>1. /\ Faithful(c) /\ c.text = s.text /\ c.reasoning = Append(s.reasoning, e.n) /\ c.calls = s.calls
        /\ c.stop = "none" /\ c.failed = s.failed /\ c.model = s.model
    BY <1>1, ContentFaithful
  <2>2. d = c
    BY <1>2, <1>5
  <2> HIDE DEF c
  <2> QED BY <1>5, <2>1, <2>2 DEF Heard
<1>6. CASE e.type = "thinking_break"
  <2> DEFINE c == AddReasoning(s, Break)
  <2>1. /\ Faithful(c) /\ c.text = s.text /\ c.reasoning = Append(s.reasoning, Break) /\ c.calls = s.calls
        /\ c.stop = "none" /\ c.failed = s.failed /\ c.model = s.model
    BY <1>1, ContentFaithful
  <2>2. d = IF s.reasoning # <<>> THEN c ELSE s
    BY <1>2, <1>6 DEF AddBreak, Separates
  <2> HIDE DEF c
  <2> QED BY <1>6, <2>1, <2>2 DEF Heard
<1>7. CASE e.type = "tool_call"
  <2> DEFINE c == AddCall(s, e.n)
  <2>1. /\ Faithful(c) /\ c.text = s.text /\ c.reasoning = s.reasoning /\ c.calls = Append(s.calls, <<e.n>>)
        /\ c.stop = "none" /\ c.failed = s.failed /\ c.model = s.model
    BY <1>1, ContentFaithful
  <2>2. d = c
    BY <1>2, <1>7
  <2> HIDE DEF c
  <2> QED BY <1>7, <2>1, <2>2 DEF Heard
<1>8. CASE e.type = "done"
  <2> DEFINE c == Complete(s, e.arg)
  <2>1. /\ Faithful(c) /\ c.text = s.text /\ c.reasoning = s.reasoning /\ c.calls = s.calls
        /\ c.stop = e.arg /\ c.failed = s.failed /\ c.model = s.model
    BY <1>8, CompleteFaithful
  <2>2. d = c
    BY <1>2, <1>8
  <2> HIDE DEF c
  <2> QED BY <1>8, <2>1, <2>2 DEF Heard
<1>9. CASE e.type = "failed"
  <2> DEFINE c == FailTurn(s)
  <2>1. /\ Faithful(c) /\ c.text = s.text /\ c.reasoning = s.reasoning /\ c.calls = s.calls
        /\ c.stop = "none" /\ c.failed = TRUE /\ c.model = s.model
    BY FailFaithful
  <2>2. d = c
    BY <1>2, <1>9
  <2> HIDE DEF c
  <2> QED BY <1>9, <2>1, <2>2 DEF Heard
<1>10. CASE e.type \in {"rate_limits", "reasoning"}
  BY <1>2, <1>10 DEF Heard
<1> QED BY <1>1, <1>3, <1>4, <1>5, <1>6, <1>7, <1>8, <1>9, <1>10 DEF EventTypes

\* The thinking text of a turn, and whether it has begun.
Thinking == FlattenSeq([i \in 1 .. Len(given) |-> Thought(i)])
Begun == \E j \in 1 .. Len(given) : given[j].type = "thinking_delta"

\* The numbers of one more event.
LEMMA GivenStep ==
  ASSUME given \in Seq(EventType), NEW e \in EventType, given' = Append(given, e), NEW types,
         NEW n, n = Len(given)
  PROVE  /\ Handled(types)' = Handled(types) \o (IF e.type \in types /\ BeforeFailure(n + 1)'
                                                 THEN <<e.n>> ELSE <<>>)
         /\ Thinking' = Thinking \o (IF BeforeFailure(n + 1)' /\ e.type = "thinking_delta" THEN <<e.n>>
                                     ELSE IF BeforeFailure(n + 1)' /\ e.type = "thinking_break" /\ Begun
                                     THEN <<Break>> ELSE <<>>)
         /\ BeforeFailure(n + 1)' <=> (BeforeFailure(n) /\ e.type # "failed")
         /\ Begun' <=> (Begun \/ e.type = "thinking_delta")
         /\ Len(given') = n + 1
<1> DEFINE alive(g, i) == \A j \in 1 .. i : g[j].type # "failed"
           begun(g, i) == \E j \in 1 .. i : g[j].type = "thinking_delta"
           some(g, i) == IF g[i].type \in types /\ alive(g, i) THEN <<g[i].n>> ELSE <<>>
           thought(g, i) == CASE g[i].type = "thinking_delta" /\ alive(g, i) -> <<g[i].n>>
                              [] g[i].type = "thinking_break" /\ alive(g, i) /\ begun(g, i) -> <<Break>>
                              [] OTHER -> <<>>
           h == [i \in 1 .. n |-> some(given, i)]
           hh == [i \in 1 .. n + 1 |-> some(given', i)]
           t == [i \in 1 .. n |-> thought(given, i)]
           tt == [i \in 1 .. n + 1 |-> thought(given', i)]
<1>1. /\ n \in Nat /\ Len(given') = n + 1 /\ given'[n + 1] = e
      /\ \A i \in 1 .. n : given'[i] = given[i]
  OBVIOUS
<1>2. Handled(types) = FlattenSeq(h) /\ Thinking = FlattenSeq(t)
  BY DEF Handled, BeforeFailure, Thinking, Thought
<1>3. Handled(types)' = FlattenSeq(hh) /\ Thinking' = FlattenSeq(tt)
  BY <1>1 DEF Handled, BeforeFailure, Thinking, Thought
<1>4. \A i \in 1 .. n : /\ alive(given', i) <=> alive(given, i)
                        /\ begun(given', i) <=> begun(given, i)
  BY <1>1
<1>5. \A i \in 1 .. n : some(given', i) = some(given, i) /\ thought(given', i) = thought(given, i)
  <2> HIDE DEF alive, begun
  <2> QED BY <1>1, <1>4
<1>6. Facts!OneMore(h, hh, n) /\ Facts!OneMore(t, tt, n)
  <2>1. /\ h = [i \in 1 .. n |-> h[i]] /\ hh = [i \in 1 .. n + 1 |-> hh[i]]
        /\ t = [i \in 1 .. n |-> t[i]] /\ tt = [i \in 1 .. n + 1 |-> tt[i]]
    OBVIOUS
  <2>2. \A i \in 1 .. n : hh[i] = h[i] /\ tt[i] = t[i]
    <3>1. \A i \in 1 .. n : i \in 1 .. n + 1
      BY <1>1
    <3> HIDE DEF some, thought
    <3> QED BY <1>5, <3>1
  <2> HIDE DEF h, hh, t, tt
  <2> QED BY <2>1, <2>2 DEF Facts!OneMore
<1>7. n + 1 \in 1 .. n + 1 /\ hh[n + 1] = some(given', n + 1) /\ tt[n + 1] = thought(given', n + 1)
  <2> HIDE DEF some, thought
  <2> QED BY <1>1
<1>8. alive(given', n + 1) <=> alive(given, n) /\ e.type # "failed"
  <2>1. \A i \in 1 .. n + 1 : i \in 1 .. n \/ i = n + 1
    BY <1>1
  <2>2. \A i \in 1 .. n : i \in 1 .. n + 1
    BY <1>1
  <2> QED BY <1>1, <1>7, <2>1, <2>2
<1>9. begun(given', n + 1) <=> begun(given, n) \/ e.type = "thinking_delta"
  <2>1. \A i \in 1 .. n + 1 : i \in 1 .. n \/ i = n + 1
    BY <1>1
  <2>2. \A i \in 1 .. n : i \in 1 .. n + 1
    BY <1>1
  <2> QED BY <1>1, <1>7, <2>1, <2>2
<1>10. /\ BeforeFailure(n + 1)' <=> alive(given', n + 1)
       /\ BeforeFailure(n) <=> alive(given, n)
       /\ Begun <=> begun(given, n)
       /\ Begun' <=> begun(given', n + 1)
  <2>1. BeforeFailure(n + 1)' <=> alive(given', n + 1)
    BY DEF BeforeFailure
  <2>2. BeforeFailure(n) <=> alive(given, n)
    BY DEF BeforeFailure
  <2>3. Begun <=> begun(given, n)
    BY DEF Begun
  <2>4. Begun' <=> begun(given', n + 1)
    BY <1>1 DEF Begun
  <2> QED BY <2>1, <2>2, <2>3, <2>4
<1>11. hh[n + 1] = IF e.type \in types /\ alive(given', n + 1) THEN <<e.n>> ELSE <<>>
  <2> HIDE DEF alive
  <2> QED BY <1>1, <1>7
<1>12. tt[n + 1] = IF alive(given', n + 1) /\ e.type = "thinking_delta" THEN <<e.n>>
                   ELSE IF alive(given', n + 1) /\ e.type = "thinking_break" /\ begun(given, n)
                   THEN <<Break>> ELSE <<>>
  <2> HIDE DEF alive, begun
  <2> QED BY <1>1, <1>7, <1>9
<1>13. <<>> \o hh[n + 1] = hh[n + 1] /\ <<>> \o tt[n + 1] = tt[n + 1]
  <2>1. \A x : <<>> \o <<x>> = <<x>> /\ <<>> \o <<>> = <<>>
    OBVIOUS
  <2> HIDE DEF alive, begun
  <2> QED BY <1>11, <1>12, <2>1
<1> HIDE DEF alive, begun, some, thought, h, hh, t, tt
<1>14. FlattenSeq(hh) = FlattenSeq(h) \o hh[n + 1] /\ FlattenSeq(tt) = FlattenSeq(t) \o tt[n + 1]
  BY <1>1, <1>6, <1>13, FlattenHere, Facts!FlattenOneMore
<1> QED BY <1>1, <1>2, <1>3, <1>8, <1>9, <1>10, <1>11, <1>12, <1>14

-----------------------------------------------------------------------------
(* The turn, as it is said.                                                *)

\* What the state holds is what the turn has said, up to its failure; the log
\* says the same.
SpeechInv ==
  /\ Faithful(st)
  /\ st.text = Handled({"text_delta"})
  /\ FlattenSeq(st.calls) = Handled({"tool_call"})
  /\ st.reasoning = Thinking
  /\ st.failed = FALSE <=> BeforeFailure(Len(given))
  /\ st.failed = FALSE => (st.reasoning # <<>> <=> Begun)
  /\ st.stop # "none" <=> (phase = "over" /\ st.failed = FALSE)

\* Initially nothing is said.
LEMMA SpeechInit == Init => SpeechInv
<1> SUFFICES ASSUME Init
             PROVE  SpeechInv
  OBVIOUS
<1>1. /\ st.text = <<>> /\ st.reasoning = <<>> /\ st.calls = <<>> /\ st.sent = <<>>
      /\ st.stop = "none" /\ st.failed = FALSE /\ given = <<>> /\ phase = "quota"
  BY DEF Init, TurnInit, NewState
<1>2. st \in State
  <2>1. <<>> \in Seq(Nat) /\ <<>> \in Seq(Seq(Nat)) /\ <<>> \in Seq(Chunks)
    OBVIOUS
  <2> QED BY <2>1 DEF Init, NewState, State, Models, Stops
<1>3. FlattenSeq(<<>>) = <<>>
  BY FlattenHere, Facts!FlattenEmpty
<1>4. \A f : [i \in 1 .. Len(<<>>) |-> f[i]] = <<>>
  OBVIOUS
<1>5. Out(st, "content") = <<>> /\ Out(st, "reasoning") = <<>>
  BY <1>1, <1>3 DEF Out
<1>6. Merged(st) = <<>>
  BY <1>1, MergedEmpty DEF Merged
<1>7. EndsAlike(st)
  BY <1>1 DEF EndsAlike, Closing
<1>8. Handled({"text_delta"}) = <<>> /\ Handled({"tool_call"}) = <<>> /\ Thinking = <<>>
  BY <1>1, <1>3 DEF Handled, Thinking
<1>9. BeforeFailure(Len(given)) /\ ~Begun
  BY <1>1 DEF BeforeFailure, Begun
<1> QED BY <1>1, <1>2, <1>3, <1>5, <1>6, <1>7, <1>8, <1>9 DEF SpeechInv, Faithful

\* The events that end or fail a turn carry how.
LEMMA MapOneArgs ==
  ASSUME NEW u \in Upstream \ Silent
  PROVE  /\ MapOne(u).type = "started" => MapOne(u).arg = slot
         /\ MapOne(u).type = "done" => MapOne(u).arg \in {"end_turn", "aborted"} /\ u \in {"completed", "cut"}
<1>1. \A type, arg : Event(type, arg).type = type /\ Event(type, arg).arg = arg
  BY DEF Event
<1>2. CASE u = "created"
  BY <1>1, <1>2 DEF MapOne
<1>3. CASE u \in {"completed", "cut"}
  <2>1. MapOne(u) \in {Event("done", "end_turn"), Event("done", "aborted")}
    BY <1>3 DEF MapOne
  <2> QED BY <1>1, <1>3, <2>1
<1>4. CASE u \in {"quota", "text", "summary", "part", "reasoning", "call", "broken", "error"}
  <2>1. MapOne(u).type \in {"rate_limits", "text_delta", "thinking_delta", "thinking_break", "reasoning",
                            "tool_call", "failed"}
    BY <1>1, <1>4 DEF MapOne
  <2> QED BY <2>1
<1> QED BY <1>2, <1>3, <1>4 DEF Upstream, Content, Final, Silent

\* Every event is said as it comes, up to the failure of the turn.
LEMMA SpeechStep ==
  ASSUME SpeechInv, Inv, NEW u \in Upstream, Render(u)
  PROVE  SpeechInv'
<1> DEFINE e == MapOne(u)
<1>0. PICK n : n = Len(given)
  OBVIOUS
<1>1. u \in Upstream \ Silent /\ Sendable(u)
  BY DEF Render, Send
<1>2. /\ e \in EventType
      /\ e.type = "started" => e.arg \in Models
      /\ e.type = "done" => e.arg \in {"end_turn", "aborted"} /\ u \in {"completed", "cut"}
  BY <1>1, MapOneFacts, MapOneArgs DEF Inv
<1>3. /\ given' = Append(given, e) /\ st' = Apply(st, e) /\ phase' = PhaseAfter(u)
  BY <1>1 DEF Render, Send
<1> HIDE DEF e
<1>4. phase # "over" /\ st.stop = "none"
  BY <1>1 DEF Sendable, SpeechInv
<1>5. phase' = "over" => e.type \in {"done", "failed"}
  <2>1. phase' = "over" => u \in {"completed", "cut", "error"}
    BY <1>3, <1>4 DEF PhaseAfter, Final
  <2>2. QED
    BY <1>1, <2>1, MapOneFacts DEF e
<1>a. u \in {"completed", "cut"} => phase' = "over"
  BY <1>3 DEF PhaseAfter, Final
<1>6. /\ given \in Seq(EventType) /\ n \in Nat /\ e.n \in Nat
  <2>1. given \in Seq(EventType)
    BY DEF Inv
  <2>2. n \in Nat
    BY <1>0, <2>1
  <2>3. e.n \in Nat
    BY <1>2 DEF EventType
  <2> QED BY <2>1, <2>2, <2>3
<1>7. ASSUME NEW types
      PROVE
         /\ Handled(types)' = Handled(types) \o (IF e.type \in types /\ BeforeFailure(n + 1)'
                                                 THEN <<e.n>> ELSE <<>>)
         /\ Thinking' = Thinking \o (IF BeforeFailure(n + 1)' /\ e.type = "thinking_delta" THEN <<e.n>>
                                     ELSE IF BeforeFailure(n + 1)' /\ e.type = "thinking_break" /\ Begun
                                     THEN <<Break>> ELSE <<>>)
         /\ BeforeFailure(n + 1)' <=> (BeforeFailure(n) /\ e.type # "failed")
         /\ Begun' <=> (Begun \/ e.type = "thinking_delta")
         /\ Len(given') = n + 1
  BY <1>0, <1>2, <1>3, <1>6, GivenStep
<1>8. st \in State /\ st.text \in Seq(Nat) /\ st.reasoning \in Seq(Nat) /\ st.calls \in Seq(Seq(Nat))
  BY DEF SpeechInv, Faithful, State
<1>9. FlattenSeq(st.calls) \in Seq(Nat) /\ FlattenSeq(Append(st.calls, <<e.n>>)) = FlattenSeq(st.calls) \o <<e.n>>
  <2> DEFINE S == Nat
             T == Seq(S)
             x == <<e.n>>
  <2>1. st.calls \in Seq(Seq(S)) /\ x \in T /\ <<>> \o x = x /\ st.calls \in Seq(T)
    BY <1>6, <1>8
  <2> HIDE DEF S, x
  <2>2. FlattenSeq(st.calls) \in Seq(S)
    BY <2>1, FlattenHere, Facts!FlattenType
  <2> HIDE DEF T
  <2>3. FlattenSeq(Append(st.calls, x)) = FlattenSeq(st.calls) \o x
    BY <2>1, FlattenHere, Facts!FlattenAppend
  <2> QED BY <2>2, <2>3 DEF S, x
<1>10. \A q \in Seq(Nat), k \in Nat : q \o <<>> = q /\ q \o <<k>> = Append(q, k) /\ Append(q, k) # <<>>
  OBVIOUS
<1>11. BeforeFailure(n + 1)' <=> BeforeFailure(Len(given))'
  BY <1>7, Zenon DEF BeforeFailure
<1>12. Break \in Nat
  BY DEF Break
<1>13. CASE st.failed = TRUE
  <2>1. st' = st
    BY <1>3, <1>13 DEF Apply, Over
  <2>2. ~BeforeFailure(n)
    BY <1>0, <1>13 DEF SpeechInv
  <2>3. /\ Handled({"text_delta"})' = Handled({"text_delta"}) \o <<>>
        /\ Handled({"tool_call"})' = Handled({"tool_call"}) \o <<>>
        /\ Thinking' = Thinking \o <<>>
        /\ ~BeforeFailure(n + 1)'
    BY <1>7, <2>2
  <2>4. /\ Handled({"text_delta"})' = Handled({"text_delta"})
        /\ Handled({"tool_call"})' = Handled({"tool_call"})
        /\ Thinking' = Thinking
    BY <1>8, <1>9, <1>10, <2>3 DEF SpeechInv
  <2>5. Faithful(st)'
    BY <2>1 DEF SpeechInv, Faithful, Out, Merged, EndsAlike, Closing, Finish, OutputModel
  <2> QED BY <1>4, <1>11, <1>13, <2>1, <2>3, <2>4, <2>5 DEF SpeechInv
<1>14. CASE st.failed # TRUE
  <2>1. st.failed = FALSE
    BY <1>8, <1>14 DEF State
  <2>2. BeforeFailure(n) /\ (st.reasoning # <<>> <=> Begun) /\ Faithful(st)
    <3>1. BeforeFailure(Len(given)) /\ (st.reasoning # <<>> <=> Begun) /\ Faithful(st)
      BY <2>1, Zenon DEF SpeechInv
    <3> QED BY <1>0, <3>1, Zenon
  <2> DEFINE d == Apply(st, e)
  <2>3. Heard(st, e, d)
    BY <1>2, <1>4, <2>1, <2>2, ApplyFaithful, Zenon
  <2>4. st' = d
    BY <1>3
  <2> HIDE DEF d
  <2>5. st'.text = Handled({"text_delta"})'
    <3>1. Handled({"text_delta"})' = Handled({"text_delta"}) \o (IF e.type = "text_delta" THEN <<e.n>> ELSE <<>>)
      BY <1>7, <2>2
    <3>2. Handled({"text_delta"}) = st.text
      BY DEF SpeechInv
    <3> QED BY <1>6, <1>8, <1>10, <2>3, <2>4, <3>1, <3>2 DEF Heard
  <2>6. FlattenSeq(st'.calls) = Handled({"tool_call"})'
    <3>1. Handled({"tool_call"})' = Handled({"tool_call"}) \o (IF e.type = "tool_call" THEN <<e.n>> ELSE <<>>)
      BY <1>7, <2>2
    <3>2. Handled({"tool_call"}) = FlattenSeq(st.calls)
      BY DEF SpeechInv
    <3> QED BY <1>9, <1>10, <2>3, <2>4, <3>1, <3>2 DEF Heard
  <2>7. st'.reasoning = Thinking'
    BY <1>6, <1>7, <1>8, <1>10, <1>12, <2>2, <2>3, <2>4 DEF SpeechInv, Heard
  <2>8. (st'.failed = FALSE) <=> BeforeFailure(Len(given))'
    BY <1>7, <1>11, <2>2, <2>3, <2>4 DEF Heard
  <2>9. st'.failed = FALSE => (st'.reasoning # <<>> <=> Begun')
    BY <1>6, <1>7, <1>8, <1>10, <1>12, <2>2, <2>3, <2>4 DEF Heard
  <2>10. st'.stop # "none" <=> (phase' = "over" /\ st'.failed = FALSE)
    BY <1>2, <1>5, <1>a, <2>3, <2>4 DEF Heard
  <2>11. Faithful(st')
    BY <2>3, <2>4 DEF Heard
  <2>12. Faithful(st)'
    BY <2>11 DEF Faithful, Out, Merged, EndsAlike, Closing, Finish, OutputModel
  <2> QED BY <2>5, <2>6, <2>7, <2>8, <2>9, <2>10, <2>12 DEF SpeechInv
<1> QED BY <1>13, <1>14

\* The model is that of the last Started before a failure.
LEMMA ModelStep ==
  ASSUME SpeechInv, Inv, NEW u \in Upstream, Render(u), NEW e, e = MapOne(u)
  PROVE  /\ st.failed = TRUE => st' = st
         /\ st.failed = FALSE => st'.model = IF e.type = "started" THEN e.arg ELSE st.model
         /\ e.type = "started" => phase = "head" /\ e.arg \in Models
<1>1. u \in Upstream \ Silent /\ Sendable(u) /\ st' = Apply(st, e)
  BY DEF Render, Send
<1>2. /\ e \in EventType
      /\ e.type = "started" => u = "created" /\ e.arg \in Models
      /\ e.type = "done" => e.arg \in {"end_turn", "aborted"}
  BY <1>1, MapOneFacts, MapOneArgs DEF Inv
<1>3. st.stop = "none" /\ Faithful(st)
  BY <1>1 DEF Sendable, SpeechInv
<1>4. u = "created" => phase = "head"
  BY <1>1 DEF Sendable, Content, Final
<1>5. CASE st.failed = TRUE
  BY <1>1, <1>2, <1>4, <1>5 DEF Apply, Over
<1>6. CASE st.failed = FALSE
  <2>1. Heard(st, e, Apply(st, e))
    BY <1>2, <1>3, <1>6, ApplyFaithful, Zenon
  <2>2. Heard(st, e, st')
    BY <1>1, <2>1
  <2>3. QED
    BY <1>2, <1>4, <1>6, <2>2 DEF Heard
<1>7. QED
  BY <1>2, <1>4, <1>5, <1>6

\* Nothing else is said.
LEMMA SpeechQuiet ==
  ASSUME SpeechInv, given' = given, st' = st, phase' = phase
  PROVE  SpeechInv'
  BY DEF SpeechInv, Handled, Thinking, Thought, BeforeFailure, Begun, Faithful, Out, Merged, EndsAlike, Closing,
     Finish, OutputModel

\* Every event keeps the invariant.
LEMMA SpeechSteps == SpeechInv /\ Inv /\ [Next]_vars => SpeechInv'
<1> SUFFICES ASSUME SpeechInv, Inv, [Next]_vars
             PROVE  SpeechInv'
  OBVIOUS
<1>1. ASSUME NEW u \in Upstream, Render(u) PROVE SpeechInv'
  BY <1>1, SpeechStep
<1>2. ASSUME NEW u \in Upstream, Absorb(u) PROVE SpeechInv'
  <2>1. given' = given /\ st' = st /\ phase' = phase
    BY <1>2 DEF Absorb, Send, Silent, PhaseAfter, Final
  <2> QED BY <2>1, SpeechQuiet
<1>3. CASE UNCHANGED vars
  BY <1>3, SpeechQuiet DEF vars, turnVars
<1> QED BY <1>1, <1>2, <1>3 DEF Next

\* A client of the stream puts together what the one-piece message has: the same
\* calls at their indices, the same finish reason and model, and the text where
\* response() does not drop it for the calls; the text is whole, and reasoning is
\* in the stream only (apply, response).
THEOREM StreamAgrees == Spec => []StreamAgreesWithResponse
<1>1. SpeechInv => StreamAgreesWithResponse
  <2> SUFFICES ASSUME SpeechInv, st.stop # "none"
               PROVE  LET r == Response(st) IN
                      /\ StreamedCalls = r.calls
                      /\ Closing(st) # {}
                      /\ \A i \in Closing(st) : st.sent[i].finish = r.finish /\ st.sent[i].model = r.model
                      /\ r.calls = <<>> => Streamed("content") = r.content
                      /\ Streamed("content") = Handled({"text_delta"})
    BY Zenon DEF StreamAgreesWithResponse, Closing
  <2>1. StreamedCalls = Merged(st) /\ Streamed("content") = Out(st, "content")
    BY Zenon DEF StreamedCalls, Merged, Streamed, Out
  <2>2. /\ Merged(st) = st.calls /\ Out(st, "content") = st.text /\ st.text = Handled({"text_delta"})
        /\ EndsAlike(st)
    BY DEF SpeechInv, Faithful
  <2> QED BY <2>1, <2>2 DEF EndsAlike, Response
<1> QED BY <1>1, InvInit, InvNext, SpeechInit, SpeechSteps, PTL DEF Spec

\* The deltas of reasoning_content are the thinking text of the turn up to its
\* failure, in order, with a paragraph break for each boundary after the first
\* text, wherever it stands, and none in front (ThinkingBreak).
THEOREM ReasoningSafe == Spec => []ReasoningText
<1>1. SpeechInv => ReasoningText
  <2>1. Streamed("reasoning") = Out(st, "reasoning")
    BY Zenon DEF Streamed, Out
  <2> QED BY <2>1 DEF SpeechInv, Faithful, ReasoningText, Thinking
<1> QED BY <1>1, InvInit, InvNext, SpeechInit, SpeechSteps, PTL DEF Spec
=============================================================================

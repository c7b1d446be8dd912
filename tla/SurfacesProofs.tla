---------------------------- MODULE SurfacesProofs ----------------------------
(***************************************************************************)
(* Theorems about ResponsesStream and about both surfaces together, for    *)
(* turns of any length whose events come in any order.  Of ResponsesStream *)
(* first:                                                                  *)
(*                                                                         *)
(*  - The slot of a late reasoning item is always that of a stand-in, what *)
(*    went out as done never changes otherwise, and nothing follows the    *)
(*    terminal event.                                                      *)
(*  - A client that reads the events has, at every moment, the items and   *)
(*    the open item that the state holds: each helper sends exactly the    *)
(*    events that lead a client from the one state to the other.           *)
(*  - The output says the text and the tool calls that came before a       *)
(*    failure, and the reasoning of an orderly turn: each helper adds to   *)
(*    what the items say the number of its event, or nothing.              *)
(*                                                                         *)
(* All follow from what each helper does to a state it is given, so there  *)
(* is one lemma for every helper and the steps only compose them.  What is *)
(* true of the log, a fold over its events, and of the flattened bodies    *)
(* comes from SequenceFacts.                                               *)
(*                                                                         *)
(* Then of the two together: they take no step that ChatStream would not   *)
(* take on its own, nor one that ResponsesStream would not.  What is       *)
(* proved of each, here and in ChatStreamProofs, holds of its state beside *)
(* that of the other.  With the model that both have been told, the two    *)
(* invariants say that the answers agree.                                  *)
(***************************************************************************)
EXTENDS Surfaces, TLAPS

Fields == {"created", "model", "output", "open", "slot", "status", "failed", "sent"}

IsSeq(q) == \E S : q \in Seq(S)

\* A state of the accumulator, as far as the output and the slot go.
SlotOK(s) ==
  s.slot # NoSlot => /\ s.slot \in 0 .. Len(s.output) - 1
                     /\ s.output[s.slot + 1].kind = "stand_in"

Good(s) == DOMAIN s = Fields /\ IsSeq(s.output) /\ SlotOK(s)

\* What a later output c may do to an earlier one, q: add items, and put the
\* backend's reasoning item in the place of a stand-in.
Settled(q, c) ==
  \A i \in 1 .. Len(q) :
    /\ i <= Len(c)
    /\ c[i] = q[i] \/ (q[i].kind = "stand_in" /\ c[i].kind = "reasoning")

\* A helper that leads from s to c is sound.
Sound(s, c) == Good(c) /\ Settled(s.output, c.output)

-----------------------------------------------------------------------------
(* Sequences.                                                              *)

\* A longer output keeps the items it had.
LEMMA AppendFacts ==
  ASSUME NEW q, IsSeq(q), NEW x
  PROVE  /\ IsSeq(Append(q, x))
         /\ Len(q) \in Nat
         /\ Len(Append(q, x)) = Len(q) + 1
         /\ \A i \in 1 .. Len(q) : Append(q, x)[i] = q[i]
         /\ Append(q, x)[Len(q) + 1] = x
<1>1. PICK S : q \in Seq(S)
  BY DEF IsSeq
<1>2. q \in Seq(S \cup {x}) /\ x \in S \cup {x}
  BY <1>1
<1>3. Append(q, x) \in Seq(S \cup {x})
  BY <1>2
<1>4. IsSeq(Append(q, x))
  BY <1>3 DEF IsSeq
<1>5. QED
  BY <1>2, <1>4

\* Replacing one item keeps the others.
LEMMA ReplaceFacts ==
  ASSUME NEW q, IsSeq(q), NEW i \in 1 .. Len(q), NEW x, NEW p, p = [q EXCEPT ![i] = x]
  PROVE  /\ IsSeq(p)
         /\ Len(p) = Len(q)
         /\ \A j \in 1 .. Len(q) : p[j] = IF j = i THEN x ELSE q[j]
<1>1. PICK S : q \in Seq(S)
  BY DEF IsSeq
<1>2. q \in Seq(S \cup {x}) /\ x \in S \cup {x}
  BY <1>1
<1>3. p \in Seq(S \cup {x}) /\ Len(p) = Len(q)
  BY <1>2
<1>4. IsSeq(p)
  BY <1>3 DEF IsSeq
<1>5. QED
  BY <1>2, <1>3, <1>4

\* What is settled stays settled.
LEMMA SettledTransitive ==
  ASSUME NEW q, NEW c, NEW d, IsSeq(q), IsSeq(c), IsSeq(d), Settled(q, c), Settled(c, d)
  PROVE  Settled(q, d)
<1>1. Len(q) \in Nat /\ Len(c) \in Nat /\ Len(d) \in Nat
  BY AppendFacts
<1>2. SUFFICES ASSUME NEW i \in 1 .. Len(q)
               PROVE  i <= Len(d) /\ (d[i] = q[i] \/ (q[i].kind = "stand_in" /\ d[i].kind = "reasoning"))
  BY DEF Settled
<1>3. i \in 1 .. Len(c)
  BY <1>1 DEF Settled
<1>4. /\ c[i] = q[i] \/ (q[i].kind = "stand_in" /\ c[i].kind = "reasoning")
      /\ d[i] = c[i] \/ (c[i].kind = "stand_in" /\ d[i].kind = "reasoning")
      /\ i <= Len(d)
  BY <1>3 DEF Settled
<1>5. QED
  BY <1>4

\* Sound helpers compose (apply calls one after the other).
LEMMA SoundComposes ==
  ASSUME NEW s, NEW c, NEW d, Good(s), Sound(s, c), Sound(c, d)
  PROVE  Sound(s, d)
  BY SettledTransitive DEF Sound, Good

\* A helper that leaves output and slot alone is sound.
LEMMA Untouched ==
  ASSUME NEW s, NEW c, Good(s), DOMAIN c = Fields, c.output = s.output,
         c.slot = s.slot \/ c.slot = NoSlot
  PROVE  Sound(s, c)
<1>1. Len(s.output) \in Nat
  BY AppendFacts DEF Good
<1>2. QED
  BY <1>1 DEF Sound, Good, Settled, SlotOK

-----------------------------------------------------------------------------
(* Helpers.                                                                *)

\* An event that goes out changes the log and nothing else (event).
LEMMA EmitSound ==
  ASSUME NEW s, Good(s), NEW e
  PROVE  /\ Sound(s, Emit(s, e))
         /\ Emit(s, e).output = s.output /\ Emit(s, e).slot = s.slot
         /\ Emit(s, e).open = s.open /\ Emit(s, e).failed = s.failed
<1>1. DOMAIN Emit(s, e) = Fields
  BY DEF Emit, Good
<1>2. /\ Emit(s, e).output = s.output /\ Emit(s, e).slot = s.slot
      /\ Emit(s, e).open = s.open /\ Emit(s, e).failed = s.failed
  BY DEF Emit, Good, Fields
<1>3. QED
  BY <1>1, <1>2, Untouched

\* So do two of them.
LEMMA EmitTwice ==
  ASSUME NEW s, Good(s), NEW e, NEW f
  PROVE  /\ Sound(s, Emit(Emit(s, e), f))
         /\ Emit(Emit(s, e), f).output = s.output /\ Emit(Emit(s, e), f).slot = s.slot
         /\ Emit(Emit(s, e), f).open = s.open
<1>1. /\ Sound(s, Emit(s, e)) /\ Emit(s, e).output = s.output
      /\ Emit(s, e).slot = s.slot /\ Emit(s, e).open = s.open
  BY EmitSound
<1>2. Good(Emit(s, e))
  BY <1>1 DEF Sound
<1>3. /\ Sound(Emit(s, e), Emit(Emit(s, e), f))
      /\ Emit(Emit(s, e), f).output = s.output /\ Emit(Emit(s, e), f).slot = s.slot
      /\ Emit(Emit(s, e), f).open = s.open
  BY <1>1, <1>2, EmitSound
<1>4. QED
  BY <1>1, <1>3, SoundComposes

\* The end of a part only goes to the log (finish_summary_part).
LEMMA FinishPartSound ==
  ASSUME NEW s, Good(s)
  PROVE  /\ Sound(s, FinishPart(s))
         /\ FinishPart(s).output = s.output /\ FinishPart(s).slot = s.slot
         /\ FinishPart(s).open = s.open
  BY EmitTwice DEF FinishPart

\* An item that is added to the output is new there; the slot may be its own
\* if it is a stand-in.
LEMMA AddedItem ==
  ASSUME NEW s, Good(s), NEW c, DOMAIN c = Fields, NEW item,
         c.output = Append(s.output, item),
         c.slot \in {s.slot, NoSlot} \/ (c.slot = Len(s.output) /\ item.kind = "stand_in")
  PROVE  Sound(s, c)
<1>1. /\ IsSeq(c.output) /\ Len(s.output) \in Nat
      /\ Len(c.output) = Len(s.output) + 1
      /\ \A i \in 1 .. Len(s.output) : c.output[i] = s.output[i]
      /\ c.output[Len(s.output) + 1] = item
  BY AppendFacts DEF Good
<1>2. Settled(s.output, c.output)
  BY <1>1 DEF Settled
<1>3. SlotOK(c)
  <2>1. CASE c.slot = NoSlot
    BY <2>1 DEF SlotOK
  <2>2. CASE c.slot = s.slot /\ c.slot # NoSlot
    BY <1>1, <2>2 DEF Good, SlotOK
  <2>3. CASE c.slot = Len(s.output) /\ item.kind = "stand_in"
    BY <1>1, <2>3 DEF SlotOK
  <2>4. QED
    BY <2>1, <2>2, <2>3
<1>4. QED
  BY <1>1, <1>2, <1>3 DEF Sound, Good

\* Closing moves the open item to the output (close_open).
LEMMA CloseOpenSound ==
  ASSUME NEW s, Good(s)
  PROVE  Sound(s, CloseOpen(s))
<1>1. CASE ~IsOpen(s)
  BY <1>1, Untouched DEF CloseOpen, Good
<1>2. CASE IsOpen(s)
  <2> DEFINE c == Emit(FinishPart(s), ItemDone(Here(s), s.open))
  <2>1. DOMAIN c = Fields /\ c.output = s.output /\ c.slot = s.slot
    BY FinishPartSound, EmitSound DEF Sound, Good
  <2>2. CloseOpen(s) = [c EXCEPT !.output = Append(@, s.open), !.open = NoItem, !.slot = SlotAfter(s)]
    BY <1>2 DEF CloseOpen
  <2> HIDE DEF c
  <2>3. /\ DOMAIN CloseOpen(s) = Fields
        /\ CloseOpen(s).output = Append(s.output, s.open)
        /\ CloseOpen(s).slot = SlotAfter(s)
    BY <2>1, <2>2 DEF Fields
  <2>4. SlotAfter(s) = s.slot \/ (SlotAfter(s) = Len(s.output) /\ s.open.kind = "stand_in")
    BY DEF SlotAfter, Here
  <2>5. QED
    BY <2>3, <2>4, AddedItem
<1>3. QED
  BY <1>1, <1>2

\* Beginning an item leaves the output alone (open_message, open_reasoning).
LEMMA BeginSound ==
  ASSUME NEW s, Good(s), NEW kind
  PROVE  Sound(s, Begin(s, kind))
<1> DEFINE item == [kind |-> kind, id |-> Len(s.sent), body |-> <<>>]
           c == Emit(Emit(s, ItemAdded(s, item)),
                     PartEvent(s, "part.added", item.id, 0, NoText))
<1>1. DOMAIN c = Fields /\ c.output = s.output /\ c.slot = s.slot
  BY EmitTwice DEF Sound, Good
<1>2. Begin(s, kind) = [c EXCEPT !.open = [item EXCEPT !.body = <<NoText>>]]
  BY DEF Begin
<1> HIDE DEF c, item
<1>3. /\ DOMAIN Begin(s, kind) = Fields
      /\ Begin(s, kind).output = s.output /\ Begin(s, kind).slot = s.slot
  BY <1>1, <1>2 DEF Fields
<1>4. QED
  BY <1>3, Untouched

\* A helper is applied to a state that a sound one has made.
LEMMA SoundGood ==
  ASSUME NEW s, NEW c, Good(s), Sound(s, c)
  PROVE  Good(c)
  BY DEF Sound

\* Opening a reasoning item closes the open one and forgets an older stand-in
\* (open_reasoning).
LEMMA OpenReasoningSound ==
  ASSUME NEW s, Good(s)
  PROVE  Sound(s, OpenReasoning(s))
<1>1. CASE s.open.kind = "stand_in"
  BY <1>1, Untouched DEF OpenReasoning, Good
<1>2. CASE s.open.kind # "stand_in"
  <2> DEFINE c == Begin(CloseOpen(s), "stand_in")
  <2>1. Sound(s, c) /\ Good(c)
    BY CloseOpenSound, BeginSound, SoundGood, SoundComposes
  <2>2. OpenReasoning(s) = [c EXCEPT !.slot = NoSlot]
    BY <1>2 DEF OpenReasoning
  <2> HIDE DEF c
  <2>3. Sound(c, OpenReasoning(s))
    BY <2>1, <2>2, Untouched DEF Good, Fields
  <2>4. QED
    BY <2>1, <2>3, SoundComposes
<1>3. QED
  BY <1>1, <1>2

\* A message opens after whatever was open is closed (open_message).
LEMMA OpenMessageSound ==
  ASSUME NEW s, Good(s)
  PROVE  Sound(s, OpenMessage(s))
<1>1. CASE MessageOpen(s)
  BY <1>1, Untouched DEF OpenMessage, Good
<1>2. CASE ~MessageOpen(s)
  BY <1>2, CloseOpenSound, BeginSound, SoundGood, SoundComposes DEF OpenMessage
<1>3. QED
  BY <1>1, <1>2

\* A change of the open item, of the model, of the flags or of the status is
\* sound.
LEMMA OtherFields ==
  ASSUME NEW s, Good(s), NEW x
  PROVE  /\ Sound(s, [s EXCEPT !.open = x])
         /\ Sound(s, [s EXCEPT !.model = x])
         /\ Sound(s, [s EXCEPT !.created = TRUE, !.model = x])
         /\ Sound(s, [s EXCEPT !.status = x])
         /\ Sound(s, [s EXCEPT !.status = "failed", !.failed = TRUE])
<1>1. Sound(s, [s EXCEPT !.open = x])
  BY Untouched DEF Good, Fields
<1>2. Sound(s, [s EXCEPT !.model = x])
  BY Untouched DEF Good, Fields
<1>3. Sound(s, [s EXCEPT !.created = TRUE, !.model = x])
  <2> DEFINE c == [s EXCEPT !.created = TRUE, !.model = x]
  <2>1. DOMAIN c = Fields /\ c.output = s.output /\ c.slot = s.slot
    BY DEF Good, Fields
  <2> HIDE DEF c
  <2>2. Sound(s, c)
    BY <2>1, Untouched
  <2>3. QED
    BY <2>2 DEF c
<1>4. Sound(s, [s EXCEPT !.status = x])
  BY Untouched DEF Good, Fields
<1>5. Sound(s, [s EXCEPT !.status = "failed", !.failed = TRUE])
  <2> DEFINE c == [s EXCEPT !.status = "failed", !.failed = TRUE]
  <2>1. DOMAIN c = Fields /\ c.output = s.output /\ c.slot = s.slot
    BY DEF Good, Fields
  <2> HIDE DEF c
  <2>2. Sound(s, c)
    BY <2>1, Untouched
  <2>3. QED
    BY <2>2 DEF c
<1>6. QED
  BY <1>1, <1>2, <1>3, <1>4, <1>5

-----------------------------------------------------------------------------
(* apply.                                                                  *)

\* The announcement leaves the output alone (ensure_created).
LEMMA EnsureCreatedSound ==
  ASSUME NEW s, Good(s), NEW e
  PROVE  Sound(s, EnsureCreated(s, e))
<1>1. CASE Announced(s, e)
  BY <1>1, Untouched DEF EnsureCreated, Good
<1>2. CASE ~Announced(s, e)
  <2> DEFINE named == IF e.type = "started" /\ e.arg # "none" THEN e.arg ELSE s.model
             c == [s EXCEPT !.created = TRUE, !.model = named]
             begun == [Envelope(c, "created") EXCEPT !.status = "in_progress"]
  <2>1. Sound(s, c) /\ Good(c)
    BY OtherFields, SoundGood
  <2>2. EnsureCreated(s, e) = Emit(Emit(c, begun), [begun EXCEPT !.name = "in_progress"])
    BY <1>2 DEF EnsureCreated
  <2> HIDE DEF c, begun
  <2>3. QED
    BY <2>1, <2>2, EmitTwice, SoundComposes
<1>3. QED
  BY <1>1, <1>2

\* A delta fills the open item (TextDelta, ThinkingDelta).
LEMMA ExtendSound ==
  ASSUME NEW s, Good(s), NEW n
  PROVE  Sound(s, Extend(s, n))
<1> DEFINE c == Emit(s, OpenPart(s, "delta", n))
<1>1. Sound(s, c) /\ Good(c)
  BY EmitSound, SoundGood
<1> DEFINE x == [c.open EXCEPT !.body[Len(s.open.body)] = Append(@, n)]
<1>2. Extend(s, n) = [c EXCEPT !.open = x]
  BY DEF Extend
<1> HIDE DEF c, x
<1>3. Sound(c, [c EXCEPT !.open = x])
  BY <1>1, OtherFields
<1>4. QED
  BY <1>1, <1>2, <1>3, SoundComposes

\* The next part belongs to the open item (ThinkingBreak).
LEMMA NextPartSound ==
  ASSUME NEW s, Good(s)
  PROVE  Sound(s, NextPart(s))
<1>1. CASE s.open.kind # "stand_in"
  BY <1>1, Untouched DEF NextPart, Good
<1>2. CASE s.open.kind = "stand_in"
  <2> DEFINE c == Emit(FinishPart(s), PartEvent(s, "part.added", s.open.id, Len(s.open.body), NoText))
  <2>1. Sound(s, c) /\ Good(c)
    BY FinishPartSound, EmitSound, SoundGood, SoundComposes
  <2>2. NextPart(s) = [c EXCEPT !.open = [c.open EXCEPT !.body = Append(@, NoText)]]
    BY <1>2 DEF NextPart
  <2> HIDE DEF c
  <2>3. QED
    BY <2>1, <2>2, OtherFields, SoundComposes
<1>3. QED
  BY <1>1, <1>2

\* The backend's reasoning item ends the open reconstruction, replaces the
\* stand-in at the slot, or is added; the slot is free afterwards (Reasoning).
LEMMA AddReasoningSound ==
  ASSUME NEW s, Good(s), NEW n
  PROVE  Sound(s, AddReasoning(s, n))
<1> DEFINE c == MessageClosed(s)
           item == [kind |-> "reasoning", id |-> 0, body |-> <<(<<n>>)>>]
           a == Emit(FinishPart(c), ItemDone(Here(c), item))
           b == Emit(c, ItemDone(c.slot, item))
           d == Emit(Emit(c, ItemAdded(c, item)), ItemDone(Here(c), item))
           r == AddReasoning(s, n)
<1>1. Sound(s, c) /\ Good(c)
  BY CloseOpenSound, Untouched, SoundGood DEF MessageClosed, Good
<1>2. /\ DOMAIN a = Fields /\ a.output = c.output
      /\ DOMAIN b = Fields /\ b.output = c.output
      /\ DOMAIN d = Fields /\ d.output = c.output
  <2>1. DOMAIN a = Fields /\ a.output = c.output
    <3> HIDE DEF c, item
    <3>1. QED
      BY <1>1, FinishPartSound, EmitSound DEF Sound, Good
  <2>2. DOMAIN b = Fields /\ b.output = c.output
    <3> HIDE DEF c, item
    <3>1. QED
      BY <1>1, EmitSound DEF Sound, Good
  <2>3. DOMAIN d = Fields /\ d.output = c.output
    <3> HIDE DEF c, item
    <3>1. QED
      BY <1>1, EmitTwice DEF Sound, Good
  <2>4. QED
    BY <2>1, <2>2, <2>3
<1>3. item.kind = "reasoning" /\ SlotCleared(c) = NoSlot
  BY DEF SlotCleared
<1>4. r = [(IF IsOpen(c) THEN [a EXCEPT !.output = Append(@, item), !.open = NoItem]
            ELSE IF c.slot # NoSlot THEN [b EXCEPT !.output[c.slot + 1] = item]
            ELSE [d EXCEPT !.output = Append(@, item)]) EXCEPT !.slot = SlotCleared(c)]
  BY DEF AddReasoning
<1> HIDE DEF a, b, d, c, item, r
<1>5. CASE IsOpen(c)
  <2>1. r = [[a EXCEPT !.output = Append(@, item), !.open = NoItem] EXCEPT !.slot = NoSlot]
    BY <1>3, <1>4, <1>5
  <2>2. DOMAIN r = Fields /\ r.output = Append(c.output, item) /\ r.slot = NoSlot
    BY <1>2, <2>1 DEF Fields
  <2>3. QED
    BY <1>1, <2>2, AddedItem, SoundComposes DEF r
<1>6. CASE ~IsOpen(c) /\ c.slot # NoSlot
  <2>1. r = [[b EXCEPT !.output[c.slot + 1] = item] EXCEPT !.slot = NoSlot]
    BY <1>3, <1>4, <1>6
  <2>2. DOMAIN r = Fields /\ r.output = [c.output EXCEPT ![c.slot + 1] = item] /\ r.slot = NoSlot
    BY <1>2, <2>1 DEF Fields
  <2>3. /\ IsSeq(c.output) /\ Len(c.output) \in Nat
        /\ c.slot + 1 \in 1 .. Len(c.output) /\ c.output[c.slot + 1].kind = "stand_in"
    BY <1>1, <1>6, AppendFacts DEF Good, SlotOK
  <2>4. /\ IsSeq(r.output) /\ Len(r.output) = Len(c.output)
        /\ \A j \in 1 .. Len(c.output) : r.output[j] = IF j = c.slot + 1 THEN item ELSE c.output[j]
    <3> DEFINE q == c.output
               i == c.slot + 1
    <3>1. IsSeq(q) /\ i \in 1 .. Len(q) /\ r.output = [q EXCEPT ![i] = item]
      BY <2>2, <2>3
    <3> HIDE DEF q, i
    <3>2. /\ IsSeq(r.output) /\ Len(r.output) = Len(q)
          /\ \A j \in 1 .. Len(q) : r.output[j] = IF j = i THEN item ELSE q[j]
      BY <3>1, ReplaceFacts
    <3>3. QED
      BY <3>2 DEF q, i
  <2>5. Settled(c.output, r.output)
    BY <1>3, <2>3, <2>4 DEF Settled
  <2>6. Sound(c, r)
    BY <2>2, <2>4, <2>5 DEF Sound, Good, SlotOK
  <2>7. QED
    BY <1>1, <2>6, SoundComposes DEF r
<1>7. CASE ~IsOpen(c) /\ c.slot = NoSlot
  <2>1. r = [[d EXCEPT !.output = Append(@, item)] EXCEPT !.slot = NoSlot]
    BY <1>3, <1>4, <1>7
  <2>2. DOMAIN r = Fields /\ r.output = Append(c.output, item) /\ r.slot = NoSlot
    BY <1>2, <2>1 DEF Fields
  <2>3. QED
    BY <1>1, <2>2, AddedItem, SoundComposes DEF r
<1>8. QED
  BY <1>5, <1>6, <1>7

\* A tool call is added whole (ToolCall).
LEMMA AddCallSound ==
  ASSUME NEW s, Good(s), NEW n
  PROVE  Sound(s, AddCall(s, n))
<1> DEFINE c == CloseOpen(s)
           id == Len(c.sent)
           item == [kind |-> "call", id |-> id, body |-> <<(<<n>>)>>]
           added == Emit(c, ItemAdded(c, [item EXCEPT !.body = <<NoText>>]))
           filled == Emit(Emit(added, PartEvent(c, "delta", id, 0, n)),
                          PartEvent(c, "part.done", id, 0, <<n>>))
           d == Emit(filled, ItemDone(Here(c), item))
<1>1. Sound(s, c) /\ Good(c)
  BY CloseOpenSound, SoundGood
<1> HIDE DEF c, id, item
<1>2. /\ Sound(c, added) /\ Good(added) /\ added.output = c.output /\ added.slot = c.slot
  BY <1>1, EmitSound, SoundGood
<1> HIDE DEF added
<1>3. /\ Sound(added, filled) /\ Good(filled) /\ filled.output = c.output /\ filled.slot = c.slot
  BY <1>2, EmitTwice, SoundGood
<1> HIDE DEF filled
<1>4. DOMAIN d = Fields /\ d.output = c.output /\ d.slot = c.slot
  BY <1>3, EmitSound DEF Sound, Good
<1>5. AddCall(s, n) = [d EXCEPT !.output = Append(@, item)]
  BY DEF AddCall, c, id, item, added, filled
<1> HIDE DEF d
<1>6. /\ DOMAIN AddCall(s, n) = Fields
      /\ AddCall(s, n).output = Append(c.output, item)
      /\ AddCall(s, n).slot = c.slot
  BY <1>4, <1>5 DEF Fields
<1>7. QED
  BY <1>1, <1>6, AddedItem, SoundComposes

\* The end of a turn closes the open item; a failure does not (Done, Failed).
LEMMA EndsSound ==
  ASSUME NEW s, Good(s), NEW reason
  PROVE  Sound(s, Complete(s, reason)) /\ Sound(s, FailTurn(s))
<1>1. Sound(s, Complete(s, reason))
  <2> DEFINE x == IF reason = "aborted" THEN "incomplete" ELSE "completed"
             p == CloseOpen(s)
             c == [p EXCEPT !.status = x]
  <2>1. Sound(s, c) /\ Good(c)
    <3>1. Sound(s, p) /\ Good(p)
      BY CloseOpenSound, SoundGood
    <3> HIDE DEF p, x
    <3>2. Sound(p, c)
      BY <3>1, OtherFields
    <3>3. QED
      BY <3>1, <3>2, SoundGood, SoundComposes
  <2>2. Complete(s, reason) = Emit(c, Envelope(c, "completed"))
    BY DEF Complete
  <2> HIDE DEF c
  <2>3. QED
    BY <2>1, <2>2, EmitSound, SoundComposes
<1>2. Sound(s, FailTurn(s))
  <2> DEFINE c == [s EXCEPT !.status = "failed", !.failed = TRUE]
  <2>1. Sound(s, c) /\ Good(c)
    BY OtherFields, SoundGood
  <2>2. FailTurn(s) = Emit(c, Envelope(c, "failed"))
    BY DEF FailTurn
  <2> HIDE DEF c
  <2>3. QED
    BY <2>1, <2>2, EmitSound, SoundComposes
<1>3. QED
  BY <1>1, <1>2

\* Whatever event comes, apply is sound.
LEMMA ApplySound ==
  ASSUME NEW s, Good(s), NEW e, e.type \in EventTypes
  PROVE  Sound(s, Apply(s, e))
<1> DEFINE c == EnsureCreated(s, e)
<1>1. Sound(s, c) /\ Good(c)
  BY EnsureCreatedSound, SoundGood
<1>2. CASE Over(s)
  BY <1>2, Untouched DEF Apply, Good
<1>3. CASE ~Over(s)
  <2>1. Apply(s, e) =
          CASE e.type = "started"        -> [c EXCEPT !.model = IF e.arg # "none" THEN e.arg ELSE @]
            [] e.type = "thinking_delta" -> Extend(OpenReasoning(c), e.n)
            [] e.type = "thinking_break" -> NextPart(c)
            [] e.type = "reasoning"      -> AddReasoning(c, e.n)
            [] e.type = "text_delta"     -> Extend(OpenMessage(c), e.n)
            [] e.type = "tool_call"      -> AddCall(c, e.n)
            [] e.type = "done"           -> Complete(c, e.arg)
            [] e.type = "failed"         -> FailTurn(c)
            [] e.type = "rate_limits"    -> c
    BY <1>3 DEF Apply
  <2> HIDE DEF c
  <2>2. CASE e.type = "started"
    <3>1. Apply(s, e) = [c EXCEPT !.model = IF e.arg # "none" THEN e.arg ELSE c.model]
      BY <2>1, <2>2
    <3>2. QED
      BY <1>1, <3>1, OtherFields, SoundComposes
  <2>3. CASE e.type = "thinking_delta"
    <3>1. Apply(s, e) = Extend(OpenReasoning(c), e.n)
      BY <2>1, <2>3
    <3>2. QED
      BY <1>1, <3>1, OpenReasoningSound, ExtendSound, SoundGood, SoundComposes
  <2>4. CASE e.type = "thinking_break"
    <3>1. Apply(s, e) = NextPart(c)
      BY <2>1, <2>4
    <3>2. QED
      BY <1>1, <3>1, NextPartSound, SoundComposes
  <2>5. CASE e.type = "reasoning"
    <3>1. Apply(s, e) = AddReasoning(c, e.n)
      BY <2>1, <2>5
    <3>2. QED
      BY <1>1, <3>1, AddReasoningSound, SoundComposes
  <2>6. CASE e.type = "text_delta"
    <3>1. Apply(s, e) = Extend(OpenMessage(c), e.n)
      BY <2>1, <2>6
    <3>2. QED
      BY <1>1, <3>1, OpenMessageSound, ExtendSound, SoundGood, SoundComposes
  <2>7. CASE e.type = "tool_call"
    <3>1. Apply(s, e) = AddCall(c, e.n)
      BY <2>1, <2>7
    <3>2. QED
      BY <1>1, <3>1, AddCallSound, SoundComposes
  <2>8. CASE e.type = "done"
    <3>1. Apply(s, e) = Complete(c, e.arg)
      BY <2>1, <2>8
    <3>2. QED
      BY <1>1, <3>1, EndsSound, SoundComposes
  <2>9. CASE e.type = "failed"
    <3>1. Apply(s, e) = FailTurn(c)
      BY <2>1, <2>9
    <3>2. QED
      BY <1>1, <3>1, EndsSound, SoundComposes
  <2>10. CASE e.type = "rate_limits"
    <3>1. Apply(s, e) = c
      BY <2>1, <2>10
    <3>2. QED
      BY <1>1, <3>1
  <2>11. QED
    BY <2>2, <2>3, <2>4, <2>5, <2>6, <2>7, <2>8, <2>9, <2>10 DEF EventTypes
<1>4. QED
  BY <1>2, <1>3

-----------------------------------------------------------------------------
(* The specification.                                                      *)

\* Initially there is nothing to go wrong, and every step is apply's.
LEMMA Steps ==
  /\ Init => Good(st)
  /\ Good(st) /\ [Next]_vars => Sound(st, st')
<1>1. ASSUME Init
      PROVE  Good(st)
  <2>1. DOMAIN st = Fields /\ st.output = <<>> /\ st.slot = NoSlot
    BY <1>1 DEF Init, NewState, Fields
  <2>2. IsSeq(<<>>)
    <3>1. <<>> \in Seq(Int)
      OBVIOUS
    <3>2. QED
      BY <3>1 DEF IsSeq
  <2>3. QED
    BY <2>1, <2>2 DEF Good, SlotOK
<1>2. ASSUME Good(st), [Next]_vars
      PROVE  Sound(st, st')
  <2>1. ASSUME NEW u \in Upstream, Render(u)
        PROVE  Sound(st, st')
    <3>1. MapOne(u).type \in EventTypes
      BY <2>1 DEF Render, Upstream, Content, Final, Silent, MapOne, Event, EventTypes
    <3>2. QED
      BY <1>2, <2>1, <3>1, ApplySound DEF Render
  <2>2. ASSUME NEW u \in Upstream, Absorb(u)
        PROVE  Sound(st, st')
    BY <1>2, <2>2, Untouched DEF Absorb, Good
  <2>3. CASE UNCHANGED vars
    BY <1>2, <2>3, Untouched DEF vars, Good
  <2>4. QED
    BY <1>2, <2>1, <2>2, <2>3 DEF Next
<1>3. QED
  BY <1>1, <1>2

\* The slot is always that of a stand-in, so a late reasoning item never takes
\* the place of an item that is final (reasoning_slot).
THEOREM SlotSafe == Spec => []SlotIsStandIn
<1>1. Init => Good(st)
  BY Steps
<1>2. Good(st) /\ [Next]_vars => Good(st)'
  BY Steps DEF Sound, Good, SlotOK
<1>3. Good(st) => SlotIsStandIn
  BY DEF Good, SlotOK, SlotIsStandIn
<1>4. QED
  BY <1>1, <1>2, <1>3, PTL DEF Spec

\* What went out as done stays as it is and where it is, except that a stand-in
\* gives way to the backend's own item (output).
THEOREM SettledSafe == Spec => SettledItems
<1> DEFINE Step == \A i \in 1 .. Len(st.output) :
                     /\ i <= Len(st'.output)
                     /\ \/ st'.output[i] = st.output[i]
                        \/ st.output[i].kind = "stand_in" /\ st'.output[i].kind = "reasoning"
<1>1. Init => Good(st)
  BY Steps
<1>2. Good(st) /\ [Next]_vars => Good(st)'
  BY Steps DEF Sound, Good, SlotOK
<1>3. Good(st) /\ [Next]_vars => [Step]_vars
  BY Steps DEF Sound, Settled
<1>4. QED
  BY <1>1, <1>2, <1>3, PTL DEF Spec, SettledItems

-----------------------------------------------------------------------------
(* The end of the stream.                                                  *)

Ends == {"completed", "failed"}

\* The log ends with a terminal event.
Ended(s) == s.sent # <<>> /\ Last(s.sent).name \in Ends

\* An event of this name is in the log.
Sent(s, name) == \E i \in 1 .. Len(s.sent) : s.sent[i].name = name

\* A state whose log is one.
Logged(s) == DOMAIN s = Fields /\ IsSeq(s.sent)

\* One whose stream goes on, for this model.
Talking(s, model) ==
  /\ Logged(s) /\ s.failed = FALSE /\ s.model = model
  /\ \A i \in 1 .. Len(s.sent) : s.sent[i].name \notin Ends

\* One that is complete.
Closed(s, model) == Logged(s) /\ s.failed = FALSE /\ s.model = model /\ Sent(s, "completed")

\* A change of other fields than these.
Mute(s, c) == DOMAIN c = Fields /\ c.sent = s.sent /\ c.failed = s.failed /\ c.model = s.model

\* What goes out last decides whether the stream has ended (event).
LEMMA EmitEnds ==
  ASSUME NEW s, Logged(s), NEW e
  PROVE  /\ Logged(Emit(s, e))
         /\ Ended(Emit(s, e)) <=> e.name \in Ends
         /\ Emit(s, e).failed = s.failed /\ Emit(s, e).model = s.model
         /\ Len(s.sent) \in Nat /\ Len(Emit(s, e).sent) = Len(s.sent) + 1
         /\ Emit(s, e).sent[Len(s.sent) + 1] = e
         /\ \A i \in 1 .. Len(s.sent) : Emit(s, e).sent[i] = s.sent[i]
<1>1. /\ DOMAIN Emit(s, e) = Fields /\ Emit(s, e).sent = Append(s.sent, e)
      /\ Emit(s, e).failed = s.failed /\ Emit(s, e).model = s.model
  BY DEF Emit, Logged, Fields
<1>2. /\ IsSeq(Append(s.sent, e)) /\ Len(s.sent) \in Nat
      /\ Len(Append(s.sent, e)) = Len(s.sent) + 1
      /\ Append(s.sent, e)[Len(s.sent) + 1] = e
  BY AppendFacts DEF Logged
<1>3. Append(s.sent, e) # <<>> /\ Last(Append(s.sent, e)) = e
  BY <1>2 DEF Last
<1>4. \A i \in 1 .. Len(s.sent) : Append(s.sent, e)[i] = s.sent[i]
  BY AppendFacts DEF Logged
<1>5. QED
  BY <1>1, <1>2, <1>3, <1>4 DEF Logged, Ended

\* An event of another name leaves the stream going on.
LEMMA EmitTalks ==
  ASSUME NEW model, NEW s, Talking(s, model), NEW e, e.name \notin Ends
  PROVE  Talking(Emit(s, e), model)
<1> DEFINE d == Emit(s, e)
           n == Len(s.sent)
<1>1. /\ Logged(d) /\ d.failed = s.failed /\ d.model = s.model
      /\ n \in Nat /\ Len(d.sent) = n + 1 /\ d.sent[n + 1] = e
      /\ \A i \in 1 .. n : d.sent[i] = s.sent[i]
  BY EmitEnds DEF Talking
<1> HIDE DEF d
<1>2. \A i \in 1 .. n + 1 : i \in 1 .. n \/ i = n + 1
  BY <1>1
<1>3. \A i \in 1 .. Len(d.sent) : d.sent[i].name \notin Ends
  BY <1>1, <1>2 DEF Talking
<1>4. QED
  BY <1>1, <1>3 DEF Talking, d

\* A terminal event is the only one of the stream.
LEMMA EmitLast ==
  ASSUME NEW model, NEW s, Talking(s, model), NEW e, e.name \in Ends
  PROVE  Sent(Emit(s, e), "completed") <=> e.name = "completed"
<1> DEFINE d == Emit(s, e)
           n == Len(s.sent)
<1>0. Logged(s)
  BY DEF Talking
<1>1. /\ n \in Nat /\ Len(d.sent) = n + 1 /\ d.sent[n + 1] = e
      /\ \A i \in 1 .. n : d.sent[i] = s.sent[i]
  BY <1>0, EmitEnds
<1> HIDE DEF d
<1>2. n + 1 \in 1 .. n + 1 /\ \A i \in 1 .. n + 1 : i \in 1 .. n \/ i = n + 1
  BY <1>1
<1>3. \A i \in 1 .. n : d.sent[i].name # "completed"
  BY <1>1 DEF Talking, Ends
<1>4. Sent(d, "completed") <=> e.name = "completed"
  BY <1>1, <1>2, <1>3 DEF Sent
<1>5. QED
  BY <1>4 DEF d

\* A stream that goes on has not ended, and has sent no terminal event.
LEMMA TalkingGoesOn ==
  ASSUME NEW model, NEW s, Talking(s, model)
  PROVE  ~Ended(s) /\ ~Sent(s, "completed") /\ ~Over(s)
<1>1. PICK S : s.sent \in Seq(S)
  BY DEF Talking, Logged, IsSeq
<1>2. s.sent # <<>> => Len(s.sent) \in 1 .. Len(s.sent)
  BY <1>1
<1>3. QED
  BY <1>2 DEF Talking, Ended, Sent, Over, Last, Ends

\* A change of other fields does not end the stream.
LEMMA SameLog ==
  ASSUME NEW model, NEW s, Talking(s, model), NEW c, Mute(s, c)
  PROVE  Talking(c, model)
  BY DEF Talking, Logged, Mute

\* None of these are terminal events.
LEMMA Names ==
  /\ \A s, item : ItemAdded(s, item).name \notin Ends
  /\ \A at, item : ItemDone(at, item).name \notin Ends
  /\ \A s, id, i, text : \A name \in {"text.done", "part.done", "part.added", "delta"} :
       PartEvent(s, name, id, i, text).name \notin Ends
  /\ \A s, text : \A name \in {"text.done", "part.done", "delta"} : OpenPart(s, name, text).name \notin Ends
  BY DEF ItemAdded, ItemDone, PartEvent, OpenPart, Ends

\* The end of a part is not the end (finish_summary_part).
LEMMA FinishPartTalks ==
  ASSUME NEW model, NEW s, Talking(s, model)
  PROVE  Talking(FinishPart(s), model)
<1> DEFINE x == OpenPart(s, "text.done", Last(s.open.body))
           y == OpenPart(s, "part.done", Last(s.open.body))
<1>1. FinishPart(s) = Emit(Emit(s, x), y) /\ x.name \notin Ends /\ y.name \notin Ends
  BY Names DEF FinishPart
<1> HIDE DEF x, y
<1>2. QED
  BY <1>1, EmitTalks

\* Nor is the end of an item (close_open).
LEMMA CloseOpenTalks ==
  ASSUME NEW model, NEW s, Talking(s, model)
  PROVE  Talking(CloseOpen(s), model)
<1> DEFINE c == Emit(FinishPart(s), ItemDone(Here(s), s.open))
<1>1. Talking(c, model)
  BY FinishPartTalks, EmitTalks, Names
<1>2. CloseOpen(s) = IF ~IsOpen(s) THEN s
                     ELSE [c EXCEPT !.output = Append(@, s.open), !.open = NoItem, !.slot = SlotAfter(s)]
  BY DEF CloseOpen
<1> HIDE DEF c
<1>3. CASE IsOpen(s)
  <2>1. Mute(c, CloseOpen(s))
    BY <1>1, <1>2, <1>3 DEF Talking, Logged, Mute, Fields
  <2>2. QED
    BY <1>1, <2>1, SameLog
<1>4. QED
  BY <1>2, <1>3

\* Nor is the beginning of one (open_message, open_reasoning).
LEMMA BeginTalks ==
  ASSUME NEW model, NEW s, Talking(s, model), NEW kind
  PROVE  Talking(Begin(s, kind), model)
<1> DEFINE item == [kind |-> kind, id |-> Len(s.sent), body |-> <<>>]
           c == Emit(Emit(s, ItemAdded(s, item)),
                     PartEvent(s, "part.added", item.id, 0, NoText))
<1>1. Talking(c, model)
  BY EmitTalks, Names
<1>2. Begin(s, kind) = [c EXCEPT !.open = [item EXCEPT !.body = <<NoText>>]]
  BY DEF Begin
<1> HIDE DEF c, item
<1>3. Mute(c, Begin(s, kind))
  BY <1>1, <1>2 DEF Talking, Logged, Mute, Fields
<1>4. QED
  BY <1>1, <1>3, SameLog

\* Opening an item ends nothing (open_reasoning, open_message).
LEMMA OpensTalk ==
  ASSUME NEW model, NEW s, Talking(s, model)
  PROVE  Talking(OpenReasoning(s), model) /\ Talking(OpenMessage(s), model)
<1> DEFINE c == Begin(CloseOpen(s), "stand_in")
<1>1. Talking(c, model)
  BY CloseOpenTalks, BeginTalks
<1>2. OpenReasoning(s) = IF s.open.kind = "stand_in" THEN s ELSE [c EXCEPT !.slot = NoSlot]
  BY DEF OpenReasoning
<1> HIDE DEF c
<1>3. Mute(c, [c EXCEPT !.slot = NoSlot])
  BY <1>1 DEF Talking, Logged, Mute, Fields
<1>4. Talking(OpenReasoning(s), model)
  BY <1>1, <1>2, <1>3, SameLog
<1>5. QED
  BY <1>4, CloseOpenTalks, BeginTalks DEF OpenMessage

\* The model that an event leaves (Started).
ModelAfter(e, model) == IF e.type = "started" /\ e.arg # "none" THEN e.arg ELSE model

\* The announcement of the response does not end it, and may name the model of the
\* event that it announces (ensure_created).
LEMMA EnsureCreatedTalks ==
  ASSUME NEW model, NEW s, Talking(s, model), NEW e
  PROVE  \/ Talking(EnsureCreated(s, e), model)
         \/ Talking(EnsureCreated(s, e), ModelAfter(e, model))
<1>1. CASE Announced(s, e)
  BY <1>1 DEF EnsureCreated
<1>2. CASE ~Announced(s, e)
  <2> DEFINE named == IF e.type = "started" /\ e.arg # "none" THEN e.arg ELSE s.model
             c == [s EXCEPT !.created = TRUE, !.model = named]
             begun == [Envelope(c, "created") EXCEPT !.status = "in_progress"]
             again == [begun EXCEPT !.name = "in_progress"]
  <2>1. begun.name \notin Ends /\ again.name \notin Ends
    BY DEF Envelope, Ends
  <2>2. Logged(c) /\ c.sent = s.sent /\ c.failed = s.failed /\ c.model = ModelAfter(e, model)
    BY DEF Talking, Logged, Fields, ModelAfter
  <2>3. EnsureCreated(s, e) = Emit(Emit(c, begun), again)
    BY <1>2 DEF EnsureCreated
  <2> HIDE DEF c, begun, again
  <2>4. Talking(c, ModelAfter(e, model))
    BY <2>2 DEF Talking
  <2>5. QED
    BY <2>1, <2>3, <2>4, EmitTalks
<1>3. QED
  BY <1>1, <1>2

\* Nor do deltas and new parts (TextDelta, ThinkingDelta, ThinkingBreak).
LEMMA FillingTalks ==
  ASSUME NEW model, NEW s, Talking(s, model), NEW n
  PROVE  Talking(Extend(s, n), model) /\ Talking(NextPart(s), model)
<1>1. Talking(Extend(s, n), model)
  <2> DEFINE c == Emit(s, OpenPart(s, "delta", n))
             x == [c.open EXCEPT !.body[Len(s.open.body)] = Append(@, n)]
  <2>1. Talking(c, model)
    BY EmitTalks, Names
  <2>2. Extend(s, n) = [c EXCEPT !.open = x]
    BY DEF Extend
  <2> HIDE DEF c, x
  <2>3. Mute(c, Extend(s, n))
    BY <2>1, <2>2 DEF Talking, Logged, Mute, Fields
  <2>4. QED
    BY <2>1, <2>3, SameLog
<1>2. Talking(NextPart(s), model)
  <2> DEFINE c == Emit(FinishPart(s), PartEvent(s, "part.added", s.open.id, Len(s.open.body), NoText))
             x == [c.open EXCEPT !.body = Append(@, NoText)]
  <2>1. Talking(c, model)
    BY FinishPartTalks, EmitTalks, Names
  <2>2. NextPart(s) = IF s.open.kind # "stand_in" THEN s ELSE [c EXCEPT !.open = x]
    BY DEF NextPart
  <2> HIDE DEF c, x
  <2>3. Mute(c, [c EXCEPT !.open = x])
    BY <2>1 DEF Talking, Logged, Mute, Fields
  <2>4. QED
    BY <2>1, <2>2, <2>3, SameLog
<1>3. QED
  BY <1>1, <1>2

\* Nor does a reasoning item of the backend's (Reasoning).
LEMMA AddReasoningTalks ==
  ASSUME NEW model, NEW s, Talking(s, model), NEW n
  PROVE  Talking(AddReasoning(s, n), model)
<1> DEFINE c == MessageClosed(s)
           item == [kind |-> "reasoning", id |-> 0, body |-> <<(<<n>>)>>]
           a == Emit(FinishPart(c), ItemDone(Here(c), item))
           b == Emit(c, ItemDone(c.slot, item))
           d == Emit(Emit(c, ItemAdded(c, item)), ItemDone(Here(c), item))
<1>1. Talking(c, model)
  BY CloseOpenTalks DEF MessageClosed
<1>2. AddReasoning(s, n) =
        [(IF IsOpen(c) THEN [a EXCEPT !.output = Append(@, item), !.open = NoItem]
          ELSE IF c.slot # NoSlot THEN [b EXCEPT !.output[c.slot + 1] = item]
          ELSE [d EXCEPT !.output = Append(@, item)]) EXCEPT !.slot = SlotCleared(c)]
  BY DEF AddReasoning
<1> HIDE DEF c, item
<1>3. Talking(a, model) /\ Talking(b, model) /\ Talking(d, model)
  BY <1>1, FinishPartTalks, EmitTalks, Names
<1> HIDE DEF a, b, d
<1>4. LET r == AddReasoning(s, n) IN Mute(a, r) \/ Mute(b, r) \/ Mute(d, r)
  BY <1>2, <1>3 DEF Talking, Logged, Mute, Fields
<1>5. QED
  BY <1>3, <1>4, SameLog

\* Nor does a tool call (ToolCall).
LEMMA AddCallTalks ==
  ASSUME NEW model, NEW s, Talking(s, model), NEW n
  PROVE  Talking(AddCall(s, n), model)
<1> DEFINE c == CloseOpen(s)
           id == Len(c.sent)
           item == [kind |-> "call", id |-> id, body |-> <<(<<n>>)>>]
           added == Emit(c, ItemAdded(c, [item EXCEPT !.body = <<NoText>>]))
           filled == Emit(Emit(added, PartEvent(c, "delta", id, 0, n)),
                          PartEvent(c, "part.done", id, 0, <<n>>))
           d == Emit(filled, ItemDone(Here(c), item))
<1>1. AddCall(s, n) = [d EXCEPT !.output = Append(@, item)]
  BY DEF AddCall
<1>2. Talking(c, model)
  BY CloseOpenTalks
<1> HIDE DEF c, id, item
<1>3. Talking(added, model)
  BY <1>2, EmitTalks, Names
<1> HIDE DEF added
<1>4. Talking(filled, model)
  BY <1>3, EmitTalks, Names
<1> HIDE DEF filled
<1>5. Talking(d, model)
  BY <1>4, EmitTalks, Names
<1> HIDE DEF d
<1>6. Mute(d, AddCall(s, n))
  BY <1>1, <1>5 DEF Talking, Logged, Mute, Fields
<1>7. QED
  BY <1>5, <1>6, SameLog

\* The two that do: afterwards the log ends with it, and a failure is recorded
\* (Done, Failed).
LEMMA EndsTurn ==
  ASSUME NEW model, NEW s, Talking(s, model), NEW reason
  PROVE  /\ Closed(Complete(s, reason), model)
         /\ Logged(FailTurn(s)) /\ FailTurn(s).model = model
         /\ FailTurn(s).failed = TRUE /\ ~Sent(FailTurn(s), "completed")
<1>1. /\ Logged(Complete(s, reason)) /\ Complete(s, reason).model = model
      /\ Complete(s, reason).failed = FALSE /\ Sent(Complete(s, reason), "completed")
  <2> DEFINE p == CloseOpen(s)
             c == [p EXCEPT !.status = IF reason = "aborted" THEN "incomplete" ELSE "completed"]
             e == Envelope(c, "completed")
  <2>1. Complete(s, reason) = Emit(c, e)
    BY DEF Complete
  <2>2. Talking(p, model)
    BY CloseOpenTalks
  <2>3. e.name = "completed" /\ e.name \in Ends
    BY DEF Envelope, Ends
  <2> HIDE DEF p, e
  <2>4. Mute(p, c)
    BY <2>2 DEF Talking, Logged, Mute, Fields
  <2> HIDE DEF c
  <2>5. Talking(c, model)
    BY <2>2, <2>4, SameLog
  <2>6. Sent(Emit(c, e), "completed")
    BY <2>3, <2>5, EmitLast
  <2>7. Logged(Emit(c, e)) /\ Emit(c, e).failed = c.failed /\ Emit(c, e).model = c.model
    <3>1. Logged(c)
      BY <2>5 DEF Talking
    <3>2. QED
      BY <3>1, EmitEnds
  <2>8. QED
    BY <2>1, <2>5, <2>6, <2>7 DEF Talking
<1>2. /\ Logged(FailTurn(s)) /\ FailTurn(s).model = model
      /\ FailTurn(s).failed = TRUE /\ ~Sent(FailTurn(s), "completed")
  <2> DEFINE b == [s EXCEPT !.status = "failed"]
             c == [b EXCEPT !.failed = TRUE]
             e == Envelope(c, "failed")
  <2>1. FailTurn(s) = Emit(c, e)
    BY DEF FailTurn
  <2>2. e.name = "failed" /\ e.name \in Ends
    BY DEF Envelope, Ends
  <2>3. Talking(b, model)
    <3>1. Mute(s, b)
      BY DEF Talking, Logged, Mute, Fields
    <3>2. QED
      BY <3>1, SameLog
  <2> HIDE DEF b, e
  <2>4. Logged(c) /\ c.sent = b.sent /\ c.failed = TRUE /\ c.model = model
    BY <2>3 DEF Talking, Logged, Fields
  <2> HIDE DEF c
  <2>5. /\ Logged(Emit(c, e)) /\ Emit(c, e).failed = TRUE /\ Emit(c, e).model = model
        /\ Emit(c, e).sent = Emit(b, e).sent
    <3>1. Emit(c, e).sent = Append(c.sent, e) /\ Emit(b, e).sent = Append(b.sent, e)
      BY <2>3, <2>4 DEF Emit, Talking, Logged, Fields
    <3>2. QED
      BY <2>4, <3>1, EmitEnds
  <2>6. ~Sent(Emit(b, e), "completed")
    BY <2>2, <2>3, EmitLast
  <2>7. QED
    BY <2>1, <2>5, <2>6 DEF Sent
<1>3. QED
  BY <1>1, <1>2 DEF Closed

\* An event that goes to a stream that goes on: it ends with Done or Failed only,
\* and names its model with Started only.
LEMMA ApplyTalks ==
  ASSUME NEW model, NEW s, Talking(s, model), NEW e, e.type \in EventTypes
  PROVE  /\ Logged(Apply(s, e)) /\ Apply(s, e).model = ModelAfter(e, model)
         /\ e.type \notin {"done", "failed"} => Talking(Apply(s, e), ModelAfter(e, model))
         /\ e.type = "done" => Apply(s, e).failed = FALSE /\ Sent(Apply(s, e), "completed")
         /\ e.type = "failed" => Apply(s, e).failed = TRUE /\ ~Sent(Apply(s, e), "completed")
<1> DEFINE c == EnsureCreated(s, e)
           d == Apply(s, e)
           m == ModelAfter(e, model)
<1>0. ~Over(s)
  BY TalkingGoesOn
<1>1. Talking(c, model) \/ Talking(c, m)
  BY EnsureCreatedTalks
<1>2. d =
        CASE e.type = "started"        -> [c EXCEPT !.model = IF e.arg # "none" THEN e.arg ELSE @]
          [] e.type = "thinking_delta" -> Extend(OpenReasoning(c), e.n)
          [] e.type = "thinking_break" -> NextPart(c)
          [] e.type = "reasoning"      -> AddReasoning(c, e.n)
          [] e.type = "text_delta"     -> Extend(OpenMessage(c), e.n)
          [] e.type = "tool_call"      -> AddCall(c, e.n)
          [] e.type = "done"           -> Complete(c, e.arg)
          [] e.type = "failed"         -> FailTurn(c)
          [] e.type = "rate_limits"    -> c
  BY <1>0 DEF Apply
<1>3. e.type # "started" => Talking(c, model) /\ m = model
  BY <1>1 DEF ModelAfter
<1>4. SUFFICES /\ Logged(d) /\ d.model = m
               /\ e.type \notin {"done", "failed"} => Talking(d, m)
               /\ e.type = "done" => d.failed = FALSE /\ Sent(d, "completed")
               /\ e.type = "failed" => d.failed = TRUE /\ ~Sent(d, "completed")
  OBVIOUS
<1>5. Talking(d, m) => Logged(d) /\ d.model = m
  BY DEF Talking
<1>6. CASE e.type = "started"
  <2> DEFINE b == [c EXCEPT !.model = IF e.arg # "none" THEN e.arg ELSE @]
  <2>1. d = b
    BY <1>2, <1>6
  <2>2. Logged(b) /\ b.sent = c.sent /\ b.failed = c.failed /\ b.model = m
    BY <1>1, <1>6 DEF Talking, Logged, Fields, ModelAfter
  <2> HIDE DEF b, c, d, m
  <2>3. Talking(b, m)
    BY <1>1, <2>2 DEF Talking
  <2>4. QED
    BY <1>5, <1>6, <2>1, <2>3
<1> HIDE DEF c, d, m
<1>7. CASE e.type = "thinking_delta"
  <2>1. d = Extend(OpenReasoning(c), e.n)
    BY <1>2, <1>7
  <2>2. Talking(OpenReasoning(c), model)
    BY <1>3, <1>7, OpensTalk
  <2>3. QED
    BY <1>3, <1>5, <1>7, <2>1, <2>2, FillingTalks
<1>8. CASE e.type = "thinking_break"
  BY <1>2, <1>3, <1>5, <1>8, FillingTalks
<1>9. CASE e.type = "reasoning"
  BY <1>2, <1>3, <1>5, <1>9, AddReasoningTalks
<1>10. CASE e.type = "text_delta"
  <2>1. d = Extend(OpenMessage(c), e.n)
    BY <1>2, <1>10
  <2>2. Talking(OpenMessage(c), model)
    BY <1>3, <1>10, OpensTalk
  <2>3. QED
    BY <1>3, <1>5, <1>10, <2>1, <2>2, FillingTalks
<1>11. CASE e.type = "tool_call"
  BY <1>2, <1>3, <1>5, <1>11, AddCallTalks
<1>12. CASE e.type = "done"
  <2>1. d = Complete(c, e.arg) /\ Talking(c, model) /\ m = model
    BY <1>2, <1>3, <1>12
  <2>2. Closed(Complete(c, e.arg), model)
    BY <2>1, EndsTurn
  <2>3. QED
    BY <1>12, <2>1, <2>2 DEF Closed
<1>13. CASE e.type = "failed"
  <2>1. d = FailTurn(c) /\ Talking(c, model) /\ m = model
    BY <1>2, <1>3, <1>13
  <2>2. QED
    BY <1>13, <2>1, EndsTurn
<1>14. CASE e.type = "rate_limits"
  BY <1>2, <1>3, <1>5, <1>14
<1>15. QED
  BY <1>6, <1>7, <1>8, <1>9, <1>10, <1>11, <1>12, <1>13, <1>14 DEF EventTypes

\* A turn goes on until it is over or has failed, and says that it is complete when
\* it is over without a failure.
EndInv ==
  /\ Logged(st) /\ st.failed \in BOOLEAN
  /\ (phase # "over" /\ st.failed = FALSE) => Talking(st, st.model)
  /\ Sent(st, "completed") <=> (phase = "over" /\ st.failed = FALSE)

\* After a completion no event comes, after a failure none is rendered, and the
\* model is the one that was named last.
LEMMA EndSteps ==
  /\ Init => EndInv
  /\ EndInv /\ [Next]_vars => EndInv' /\ (Ended(st) => st'.sent = st.sent)
  /\ \A u \in Upstream :
       EndInv /\ Render(u) => st'.model = IF Over(st) THEN st.model ELSE ModelAfter(MapOne(u), st.model)
<1>1. ASSUME Init
      PROVE  EndInv
  <2>1. /\ DOMAIN st = Fields /\ st.sent = <<>> /\ st.failed = FALSE /\ phase = "quota"
    BY <1>1 DEF Init, TurnInit, NewState, Fields
  <2>2. <<>> \in Seq(Int)
    OBVIOUS
  <2>3. Logged(st)
    BY <2>1, <2>2 DEF IsSeq, Logged
  <2>4. \A i \in 1 .. Len(st.sent) : FALSE
    BY <2>1
  <2>5. QED
    BY <2>1, <2>3, <2>4 DEF EndInv, Talking, Sent
<1>2. ASSUME EndInv, NEW u \in Upstream, Render(u)
      PROVE  /\ EndInv' /\ (Ended(st) => st'.sent = st.sent)
             /\ st'.model = IF Over(st) THEN st.model ELSE ModelAfter(MapOne(u), st.model)
  <2> DEFINE e == MapOne(u)
  <2>1. /\ phase # "over" /\ phase' = PhaseAfter(u) /\ st' = Apply(st, e)
    BY <1>2 DEF Render, Send, Sendable
  <2>2. /\ e.type \in EventTypes
        /\ u \in Final => e.type \in {"done", "failed"}
        /\ e.type = "done" => u \in Final
    <3>1. /\ u \in {"completed", "cut"} => e.type = "done"
          /\ u \in {"broken", "error"} => e.type = "failed"
      BY DEF MapOne, Event
    <3>2. u \in Content \cup {"quota", "created"} => e.type \in EventTypes /\ e.type # "done"
      BY DEF Content, MapOne, Event, EventTypes
    <3>3. QED
      BY <1>2, <3>1, <3>2 DEF Render, Upstream, Content, Final, Silent, EventTypes
  <2>3. phase' = "over" <=> u \in Final
    BY <2>1 DEF PhaseAfter, Final
  <2> HIDE DEF e
  <2>4. EndInv' <=> /\ Logged(st') /\ st'.failed \in BOOLEAN
                    /\ (phase' # "over" /\ st'.failed = FALSE) => Talking(st', st'.model)
                    /\ Sent(st', "completed") <=> (phase' = "over" /\ st'.failed = FALSE)
    BY DEF EndInv, Logged, Talking, Sent
  <2>5. CASE st.failed = TRUE
    <3>1. st' = st /\ Over(st)
      BY <2>1, <2>5 DEF Apply, Over
    <3>2. QED
      BY <1>2, <2>4, <2>5, <3>1 DEF EndInv
  <2>6. CASE st.failed # TRUE
    <3> DEFINE model == st.model
    <3>1. Talking(st, model)
      BY <1>2, <2>1, <2>6 DEF EndInv
    <3> HIDE DEF model
    <3>2. ~Ended(st) /\ ~Over(st)
      BY <3>1, TalkingGoesOn
    <3>3. /\ Logged(st') /\ st'.model = ModelAfter(e, model)
          /\ e.type \notin {"done", "failed"} => Talking(st', ModelAfter(e, model))
          /\ e.type = "done" => st'.failed = FALSE /\ Sent(st', "completed")
          /\ e.type = "failed" => st'.failed = TRUE /\ ~Sent(st', "completed")
      <4> DEFINE d == Apply(st, e)
      <4>1. /\ Logged(d) /\ d.model = ModelAfter(e, model)
            /\ e.type \notin {"done", "failed"} => Talking(d, ModelAfter(e, model))
            /\ e.type = "done" => d.failed = FALSE /\ Sent(d, "completed")
            /\ e.type = "failed" => d.failed = TRUE /\ ~Sent(d, "completed")
        BY <2>2, <3>1, ApplyTalks
      <4>2. st' = d
        BY <2>1
      <4> HIDE DEF d
      <4>3. QED
        BY <4>1, <4>2
    <3>4. e.type \notin {"done", "failed"} =>
            Talking(st', st'.model) /\ st'.failed = FALSE /\ ~Sent(st', "completed")
      BY <3>3, TalkingGoesOn DEF Talking
    <3>5. EndInv'
      BY <2>2, <2>3, <2>4, <3>3, <3>4
    <3>6. QED
      BY <3>2, <3>3, <3>5 DEF model, e
  <2>7. QED
    BY <2>5, <2>6
<1>3. ASSUME EndInv, NEW u \in Upstream, Absorb(u)
      PROVE  EndInv' /\ (Ended(st) => st'.sent = st.sent)
  <2>1. st' = st /\ phase' = phase
    BY <1>3 DEF Absorb, Send, Silent, PhaseAfter, Final
  <2>2. QED
    BY <1>3, <2>1 DEF EndInv, Logged, Talking, Sent
<1>4. ASSUME EndInv, UNCHANGED vars
      PROVE  EndInv' /\ (Ended(st) => st'.sent = st.sent)
  BY <1>4 DEF vars, turnVars, EndInv, Logged, Talking, Sent
<1>5. QED
  BY <1>1, <1>2, <1>3, <1>4 DEF Next

\* Nothing follows the terminal event: a turn that is complete has no more
\* events, one that has failed renders none (failed).
THEOREM EndSafe == Spec => NothingAfterTheEnd
<1> DEFINE Step == (st.sent # <<>> /\ Last(st.sent).name \in {"completed", "failed"}) => st'.sent = st.sent
<1>1. EndInv /\ [Next]_vars => EndInv' /\ [Step]_vars
  BY EndSteps DEF Ended, Ends
<1>2. Init => EndInv
  BY EndSteps
<1>3. QED
  BY <1>1, <1>2, PTL DEF Spec, NothingAfterTheEnd

-----------------------------------------------------------------------------
(* What a client makes of an event.                                        *)

\* A view is a fold of Read.
Facts == INSTANCE SequenceFacts WITH Op <- Read

\* A client reads one more event.
LEMMA ViewAppend ==
  ASSUME NEW s, IsSeq(s), NEW e
  PROVE  View(Append(s, e)) = Read(View(s), e) /\ View(<<>>) = NewView
<1>1. \A r : View(r) = Facts!Fold(NewView, r)
  BY Zenon DEF View, FoldLeft, MapThenFoldSet, Facts!Fold, Facts!FoldLeft, Facts!MapThenFoldSet, Max, Facts!Max
<1>2. PICK S : s \in Seq(S)
  BY DEF IsSeq
<1>3. s \in Seq(S \cup {e}) /\ e \in S \cup {e}
  BY <1>2
<1>4. Facts!Fold(NewView, Append(s, e)) = Read(Facts!Fold(NewView, s), e)
  BY <1>3, Facts!FoldAppend
<1>5. Facts!Fold(NewView, <<>>) = NewView
  BY Facts!FoldEmpty
<1> QED BY <1>1, <1>4, <1>5, Zenon

\* A view in the middle of a stream.
Seen(items, open, partOpen) ==
  [phase |-> "streaming", items |-> items, open |-> open, partOpen |-> partOpen, ok |-> TRUE]

\* A client that has nothing open opens the item that is added; a tool call comes with
\* its part open (output_item.added).
LEMMA ReadItemAdded ==
  ASSUME NEW items, NEW e, e.name = "item.added", e.at = Len(items)
  PROVE  /\ e.item.kind = "call" => Read(Seen(items, NoItem, FALSE), e) = Seen(items, e.item, TRUE)
         /\ e.item.kind # "call" => Read(Seen(items, NoItem, FALSE), e) = Seen(items, e.item, FALSE)
  BY DEF Read, Legal, Take, Seen, IsOpen, NoItem

\* A client appends an empty part to the open item, and expects deltas for it.
LEMMA ReadPartAdded ==
  ASSUME NEW items, NEW open, NEW e, open.kind # "none", e.name = "part.added",
         e.at = Len(items), e.id = open.id, e.part = Len(open.body)
  PROVE  Read(Seen(items, open, FALSE), e) = Seen(items, [open EXCEPT !.body = Append(@, <<>>)], TRUE)
  BY DEF Read, Legal, Take, Seen, IsOpen

\* The open item with one more delta in a part.
Filled(open, part, text) == [open EXCEPT !.body[part + 1] = Append(@, text)]

\* A client appends a delta to the last part of the open item.
LEMMA ReadDelta ==
  ASSUME NEW items, NEW open, NEW e, open.kind # "none", e.name = "delta",
         e.at = Len(items), e.id = open.id, e.part = Len(open.body) - 1
  PROVE  Read(Seen(items, open, TRUE), e) = Seen(items, Filled(open, e.part, e.text), TRUE)
  BY DEF Filled, Read, Legal, Take, Seen, IsOpen, InLastPart

\* A client that has the text the server repeats keeps what it has.
LEMMA ReadTextDone ==
  ASSUME NEW items, NEW open, NEW e, open.kind # "none", e.name = "text.done",
         e.at = Len(items), e.id = open.id, e.part = Len(open.body) - 1, e.text = Last(open.body)
  PROVE  Read(Seen(items, open, TRUE), e) = Seen(items, open, TRUE)
  BY DEF Read, Legal, Take, Seen, IsOpen, InLastPart

\* A client closes the part whose text the server repeats.
LEMMA ReadPartDone ==
  ASSUME NEW items, NEW open, NEW e, open.kind # "none", e.name = "part.done",
         e.at = Len(items), e.id = open.id, e.part = Len(open.body) - 1, e.text = Last(open.body)
  PROVE  Read(Seen(items, open, TRUE), e) = Seen(items, open, FALSE)
  BY DEF Read, Legal, Take, Seen, IsOpen, InLastPart

\* A client closes the open item with what its deltas said, or with the backend's
\* version of a reconstruction.
LEMMA ReadItemDone ==
  ASSUME NEW items, NEW open, NEW e, open.kind # "none", e.name = "item.done", e.at = Len(items),
         e.item = open \/ (e.item.kind = "reasoning" /\ open.kind = "stand_in")
  PROVE  Read(Seen(items, open, FALSE), e) = Seen(Append(items, e.item), NoItem, FALSE)
  BY DEF Read, Legal, Take, Seen, IsOpen, Closes

\* A client that has nothing open replaces a closed stand-in by the backend's item.
LEMMA ReadReplaced ==
  ASSUME NEW items, NEW e, e.name = "item.done", e.at # Len(items), e.item.kind = "reasoning",
         items[e.at + 1].kind = "stand_in"
  PROVE  Read(Seen(items, NoItem, FALSE), e) = Seen([items EXCEPT ![e.at + 1] = e.item], NoItem, FALSE)
  BY DEF Read, Legal, Take, Seen, IsOpen, Replaces, ReplaceAt, NoItem

\* After the two events of ensure_created a client has an empty response and reads on.
LEMMA ReadCreated ==
  ASSUME NEW e, NEW f, e.name = "created", f.name = "in_progress"
  PROVE  Read(Read(NewView, e), f) = Seen(<<>>, NoItem, FALSE)
  BY DEF Read, Legal, Take, Seen, IsOpen, NoItem, NewView

-----------------------------------------------------------------------------
(* What a client has after each helper.                                    *)

\* The items, the open one among them: bodies of parts, parts of numbers.
ItemType == [kind : {"none", "stand_in", "message", "reasoning", "call"}, id : Nat, body : Seq(Seq(Nat))]

\* Nothing is open, or an item that is streamed, with a part to fill.
OpenOK(open) == open = NoItem \/ (open.kind \in {"stand_in", "message"} /\ open.body # <<>>)

\* A state that a helper may be given, and one whose client has kept up with it.
Shape(s) ==
  /\ Logged(s) /\ Good(s)
  /\ s.output \in Seq(ItemType) /\ s.open \in ItemType /\ OpenOK(s.open)

\* The client has what the state holds.
Ready(s) == Shape(s) /\ View(s.sent) = Seen(s.output, s.open, IsOpen(s))

\* A helper neither announces the response nor ends it.
Keeps(s, c) == c.created = s.created /\ c.failed = s.failed

\* A state that differs in its log only.
SameButLog(s, c) ==
  /\ Logged(c)
  /\ c.output = s.output /\ c.open = s.open /\ c.slot = s.slot /\ Keeps(s, c)

\* An event that is sent goes to the log only, and the client reads it (emit).
LEMMA EmitRead ==
  ASSUME NEW s, Logged(s), NEW e
  PROVE  SameButLog(s, Emit(s, e)) /\ View(Emit(s, e).sent) = Read(View(s.sent), e)
<1>1. /\ DOMAIN Emit(s, e) = Fields /\ Emit(s, e).sent = Append(s.sent, e)
      /\ Emit(s, e).output = s.output /\ Emit(s, e).open = s.open /\ Emit(s, e).slot = s.slot
      /\ Emit(s, e).created = s.created /\ Emit(s, e).failed = s.failed
  BY DEF Emit, Logged, Fields
<1>2. IsSeq(Append(s.sent, e))
  BY AppendFacts DEF Logged
<1>3. View(Append(s.sent, e)) = Read(View(s.sent), e)
  BY ViewAppend DEF Logged
<1> QED BY <1>1, <1>2, <1>3 DEF Logged, SameButLog, Keeps

\* Closing the part that is filling is followed by a client (finish_summary_part).
LEMMA FinishPartRead ==
  ASSUME NEW s, Ready(s), IsOpen(s)
  PROVE  SameButLog(s, FinishPart(s)) /\ View(FinishPart(s).sent) = Seen(s.output, s.open, FALSE)
<1> DEFINE e == OpenPart(s, "text.done", Last(s.open.body))
           f == OpenPart(s, "part.done", Last(s.open.body))
<1>1. /\ e.name = "text.done" /\ e.at = Len(s.output) /\ e.id = s.open.id
      /\ e.part = Len(s.open.body) - 1 /\ e.text = Last(s.open.body)
      /\ f.name = "part.done" /\ f.at = Len(s.output) /\ f.id = s.open.id
      /\ f.part = Len(s.open.body) - 1 /\ f.text = Last(s.open.body)
  BY DEF OpenPart, PartEvent, Here
<1>2. FinishPart(s) = Emit(Emit(s, e), f)
  BY DEF FinishPart
<1> HIDE DEF e, f
<1>3. View(s.sent) = Seen(s.output, s.open, TRUE) /\ s.open.kind # "none" /\ Logged(s)
  BY DEF Ready, Shape, IsOpen
<1>4. SameButLog(s, Emit(s, e)) /\ View(Emit(s, e).sent) = Seen(s.output, s.open, TRUE)
  <2>1. SameButLog(s, Emit(s, e)) /\ View(Emit(s, e).sent) = Read(View(s.sent), e)
    BY <1>3, EmitRead
  <2>2. Read(Seen(s.output, s.open, TRUE), e) = Seen(s.output, s.open, TRUE)
    BY <1>1, <1>3, ReadTextDone
  <2> QED BY <1>3, <2>1, <2>2
<1>5. SameButLog(Emit(s, e), Emit(Emit(s, e), f)) /\ View(Emit(Emit(s, e), f).sent) = Seen(s.output, s.open, FALSE)
  <2>1. SameButLog(Emit(s, e), Emit(Emit(s, e), f))
        /\ View(Emit(Emit(s, e), f).sent) = Read(View(Emit(s, e).sent), f)
    BY <1>4, EmitRead DEF SameButLog
  <2>2. Read(Seen(s.output, s.open, TRUE), f) = Seen(s.output, s.open, FALSE)
    BY <1>1, <1>3, ReadPartDone
  <2> QED BY <1>4, <2>1, <2>2
<1> QED BY <1>2, <1>4, <1>5 DEF SameButLog, Keeps

\* Closing the open item is followed by a client, which then has it in its list; the
\* slot names it when it is a stand-in (close_open).
LEMMA CloseOpenRead ==
  ASSUME NEW s, Ready(s)
  PROVE  /\ Ready(CloseOpen(s)) /\ Keeps(s, CloseOpen(s)) /\ CloseOpen(s).open = NoItem
         /\ CloseOpen(s).output = IF IsOpen(s) THEN Append(s.output, s.open) ELSE s.output
         /\ CloseOpen(s).slot = IF IsOpen(s) THEN SlotAfter(s) ELSE s.slot
<1>1. CASE ~IsOpen(s)
  <2>1. s.open = NoItem
    BY <1>1 DEF Ready, Shape, OpenOK, IsOpen
  <2> QED BY <1>1, <2>1 DEF CloseOpen, Keeps
<1>2. CASE IsOpen(s)
  <2> DEFINE p == FinishPart(s)
             e == ItemDone(Here(s), s.open)
             c == Emit(p, e)
             d == CloseOpen(s)
  <2>1. d = [c EXCEPT !.output = Append(@, s.open), !.open = NoItem, !.slot = SlotAfter(s)]
    BY <1>2 DEF CloseOpen
  <2>2. e.name = "item.done" /\ e.at = Len(s.output) /\ e.item = s.open
    BY DEF ItemDone, Here
  <2>3. SameButLog(s, p) /\ View(p.sent) = Seen(s.output, s.open, FALSE)
    BY <1>2, FinishPartRead
  <2> HIDE DEF e, p
  <2>4. SameButLog(p, c) /\ View(c.sent) = Seen(Append(s.output, s.open), NoItem, FALSE)
    <3>1. SameButLog(p, c) /\ View(c.sent) = Read(View(p.sent), e)
      BY <2>3, EmitRead DEF SameButLog
    <3>2. Read(Seen(s.output, s.open, FALSE), e) = Seen(Append(s.output, e.item), NoItem, FALSE)
      BY <1>2, <2>2, ReadItemDone DEF IsOpen
    <3> QED BY <2>2, <2>3, <3>1, <3>2
  <2> HIDE DEF c
  <2>5. /\ Logged(d) /\ d.sent = c.sent /\ d.output = Append(s.output, s.open) /\ d.open = NoItem
        /\ d.slot = SlotAfter(s) /\ Keeps(s, d)
    BY <2>1, <2>3, <2>4 DEF SameButLog, Keeps, Logged, Fields
  <2>6. d.output \in Seq(ItemType) /\ NoItem \in ItemType
    BY <2>5 DEF Ready, Shape, NoItem, ItemType
  <2>7. Good(d)
    BY CloseOpenSound DEF Sound, Ready, Shape
  <2> HIDE DEF d
  <2>8. Ready(d)
    <3>1. IsOpen(d) = FALSE
      BY <2>5 DEF IsOpen, NoItem
    <3>2. Shape(d)
      BY <2>5, <2>6, <2>7 DEF Shape, OpenOK
    <3> QED BY <2>4, <2>5, <3>1, <3>2 DEF Ready
  <2> QED BY <1>2, <2>5, <2>8 DEF d
<1> QED BY <1>1, <1>2

\* A new item with one empty part is followed by a client that has nothing open.
LEMMA BeginRead ==
  ASSUME NEW s, Ready(s), s.open = NoItem, NEW kind \in {"stand_in", "message"}
  PROVE  /\ Ready(Begin(s, kind)) /\ Keeps(s, Begin(s, kind))
         /\ Begin(s, kind).open.kind = kind /\ Begin(s, kind).open.body = <<NoText>>
         /\ Begin(s, kind).output = s.output /\ Begin(s, kind).slot = s.slot
<1> DEFINE item == [kind |-> kind, id |-> Len(s.sent), body |-> <<>>]
           full == [item EXCEPT !.body = <<NoText>>]
           e == ItemAdded(s, item)
           f == PartEvent(s, "part.added", item.id, 0, NoText)
           c == Emit(s, e)
           d == Emit(c, f)
           b == Begin(s, kind)
<1>1. b = [d EXCEPT !.open = full]
  BY DEF Begin
<1>2. e.name = "item.added" /\ e.at = Len(s.output) /\ e.item = item
  BY DEF ItemAdded, Here
<1>3. f.name = "part.added" /\ f.at = Len(s.output) /\ f.id = item.id /\ f.part = Len(item.body)
  BY DEF PartEvent, Here
<1>4. /\ item.kind = kind /\ full.kind = kind /\ full.body = <<NoText>>
      /\ full = [item EXCEPT !.body = Append(@, <<>>)]
  BY DEF NoText
<1>5. full \in ItemType
  <2>1. Len(s.sent) \in Nat
    BY AppendFacts DEF Ready, Shape, Logged
  <2>2. <<NoText>> \in Seq(Seq(Nat))
    BY DEF NoText
  <2> QED BY <2>1, <2>2 DEF ItemType
<1>6. View(s.sent) = Seen(s.output, NoItem, FALSE) /\ Logged(s)
  <2>1. IsOpen(s) = FALSE
    BY DEF IsOpen, NoItem
  <2> QED BY <2>1 DEF Ready, Shape
<1> HIDE DEF item, full, e, f
<1>7. SameButLog(s, c) /\ View(c.sent) = Seen(s.output, item, FALSE)
  <2>1. SameButLog(s, c) /\ View(c.sent) = Read(View(s.sent), e)
    BY <1>6, EmitRead
  <2>2. Read(Seen(s.output, NoItem, FALSE), e) = Seen(s.output, item, FALSE)
    BY <1>2, <1>4, ReadItemAdded
  <2> QED BY <1>6, <2>1, <2>2
<1> HIDE DEF c
<1>8. SameButLog(c, d) /\ View(d.sent) = Seen(s.output, full, TRUE)
  <2>1. SameButLog(c, d) /\ View(d.sent) = Read(View(c.sent), f)
    BY <1>7, EmitRead DEF SameButLog
  <2>2. Read(Seen(s.output, item, FALSE), f) = Seen(s.output, full, TRUE)
    BY <1>3, <1>4, ReadPartAdded
  <2> QED BY <1>7, <2>1, <2>2
<1> HIDE DEF d
<1>9. /\ Logged(b) /\ b.sent = d.sent /\ b.output = s.output /\ b.open = full /\ b.slot = s.slot /\ Keeps(s, b)
  BY <1>1, <1>7, <1>8 DEF SameButLog, Keeps, Logged, Fields
<1>10. Good(b)
  BY BeginSound DEF Sound, Ready, Shape
<1> HIDE DEF b
<1>11. Ready(b)
  <2>1. full.body # <<>>
    BY <1>4
  <2> QED BY <1>4, <1>5, <1>8, <1>9, <1>10, <2>1 DEF Ready, Shape, OpenOK, IsOpen
<1> QED BY <1>4, <1>9, <1>11 DEF b

\* Opening a reconstruction or a message is followed by a client, and closes whatever
\* else was open (open_reasoning, open_message).
LEMMA OpensRead ==
  ASSUME NEW s, Ready(s)
  PROVE  /\ Ready(OpenReasoning(s)) /\ Keeps(s, OpenReasoning(s)) /\ OpenReasoning(s).open.kind = "stand_in"
         /\ OpenReasoning(s).output = IF s.open.kind = "stand_in" THEN s.output ELSE CloseOpen(s).output
         /\ OpenReasoning(s).slot = IF s.open.kind = "stand_in" THEN s.slot ELSE NoSlot
         /\ Ready(OpenMessage(s)) /\ Keeps(s, OpenMessage(s)) /\ OpenMessage(s).open.kind = "message"
         /\ MessageOpen(s) => OpenMessage(s) = s
         /\ ~MessageOpen(s) => /\ OpenMessage(s).output = CloseOpen(s).output
                               /\ OpenMessage(s).slot = CloseOpen(s).slot
                               /\ OpenMessage(s).open.body = <<NoText>>
<1> DEFINE c == CloseOpen(s)
           b == Begin(c, "stand_in")
           m == Begin(c, "message")
           d == OpenReasoning(s)
<1>1. Ready(c) /\ Keeps(s, c) /\ c.open = NoItem
  BY CloseOpenRead
<1> HIDE DEF c
<1>2. /\ Ready(b) /\ Keeps(c, b) /\ b.open.kind = "stand_in" /\ b.output = c.output /\ b.slot = c.slot
      /\ Ready(m) /\ Keeps(c, m) /\ m.open.kind = "message" /\ m.output = c.output /\ m.slot = c.slot
      /\ m.open.body = <<NoText>>
  BY <1>1, BeginRead
<1>3. d = IF s.open.kind = "stand_in" THEN s ELSE [b EXCEPT !.slot = NoSlot]
  BY DEF OpenReasoning, c
<1>4. OpenMessage(s) = IF MessageOpen(s) THEN s ELSE m
  BY DEF OpenMessage, c
<1> HIDE DEF b, m
<1>5. /\ Ready(d) /\ Keeps(s, d) /\ d.open.kind = "stand_in"
      /\ d.output = IF s.open.kind = "stand_in" THEN s.output ELSE c.output
      /\ d.slot = IF s.open.kind = "stand_in" THEN s.slot ELSE NoSlot
  <2>1. CASE s.open.kind = "stand_in"
    BY <1>3, <2>1 DEF Keeps
  <2>2. CASE s.open.kind # "stand_in"
    <3>1. /\ DOMAIN d = Fields /\ d.sent = b.sent /\ d.output = b.output /\ d.open = b.open /\ d.slot = NoSlot
          /\ Keeps(s, d)
      BY <1>1, <1>2, <1>3, <2>2 DEF Ready, Shape, Logged, Fields, Keeps
    <3>2. Good(d)
      BY OpenReasoningSound DEF Sound, Ready, Shape
    <3> HIDE DEF d
    <3>3. Ready(d)
      BY <1>2, <3>1, <3>2 DEF Ready, Shape, Logged, IsOpen
    <3> QED BY <1>2, <2>2, <3>1, <3>3
  <2> QED BY <2>1, <2>2
<1>6. /\ Ready(OpenMessage(s)) /\ Keeps(s, OpenMessage(s)) /\ OpenMessage(s).open.kind = "message"
      /\ MessageOpen(s) => OpenMessage(s) = s
      /\ ~MessageOpen(s) => OpenMessage(s) = m
  BY <1>1, <1>2, <1>4 DEF Keeps, MessageOpen
<1> QED BY <1>2, <1>5, <1>6 DEF c

\* The parts of an item with one more delta in the last of them.
Longer(body, n) == [body EXCEPT ![Len(body)] = Append(@, n)]

\* A delta to the open item is followed by a client, and makes its last part longer.
LEMMA ExtendRead ==
  ASSUME NEW s, Ready(s), IsOpen(s), NEW n \in Nat
  PROVE  /\ Ready(Extend(s, n)) /\ Keeps(s, Extend(s, n))
         /\ Extend(s, n).output = s.output /\ Extend(s, n).slot = s.slot
         /\ Extend(s, n).open = [s.open EXCEPT !.body = Longer(@, n)]
         /\ s.open.body \in Seq(Seq(Nat)) /\ s.open.body # <<>>
<1> DEFINE e == OpenPart(s, "delta", n)
           c == Emit(s, e)
           open == [s.open EXCEPT !.body = Longer(@, n)]
           x == [c.open EXCEPT !.body[Len(s.open.body)] = Append(@, n)]
           d == Extend(s, n)
<1>1. e.name = "delta" /\ e.at = Len(s.output) /\ e.id = s.open.id /\ e.part = Len(s.open.body) - 1 /\ e.text = n
  BY DEF OpenPart, PartEvent, Here
<1>2. d = [c EXCEPT !.open = x]
  BY DEF Extend
<1>3. s.open \in ItemType /\ s.open.kind # "none" /\ Logged(s) /\ View(s.sent) = Seen(s.output, s.open, TRUE)
  BY DEF Ready, Shape, IsOpen
<1>4. s.open.body \in Seq(Seq(Nat)) /\ s.open.body # <<>> /\ s.open.kind \in {"stand_in", "message"}
  BY <1>3 DEF Ready, Shape, OpenOK, NoItem, ItemType
<1>5. Len(s.open.body) \in 1 .. Len(s.open.body) /\ (Len(s.open.body) - 1) + 1 = Len(s.open.body)
  BY <1>4
<1>6. Longer(s.open.body, n) \in Seq(Seq(Nat)) /\ Longer(s.open.body, n) # <<>>
  <2>1. Append(s.open.body[Len(s.open.body)], n) \in Seq(Nat)
    BY <1>4, <1>5
  <2>2. Longer(s.open.body, n) \in Seq(Seq(Nat)) /\ Len(Longer(s.open.body, n)) = Len(s.open.body)
    BY <1>4, <1>5, <2>1 DEF Longer
  <2> QED BY <1>5, <2>2
<1>7. open \in ItemType /\ open.kind = s.open.kind /\ open.body = Longer(s.open.body, n)
  BY <1>3, <1>6 DEF ItemType
<1>8. Filled(s.open, e.part, e.text) = open
  BY <1>1, <1>5 DEF Filled, Longer
<1> HIDE DEF e, open
<1>9. SameButLog(s, c) /\ View(c.sent) = Seen(s.output, open, TRUE)
  <2>1. SameButLog(s, c) /\ View(c.sent) = Read(View(s.sent), e)
    BY <1>3, EmitRead
  <2>2. Read(Seen(s.output, s.open, TRUE), e) = Seen(s.output, open, TRUE)
    BY <1>1, <1>3, <1>8, ReadDelta
  <2> QED BY <1>3, <2>1, <2>2
<1>10. x = open
  BY <1>9 DEF SameButLog, open, Longer
<1> HIDE DEF c, x
<1>11. Logged(d) /\ d.sent = c.sent /\ d.output = s.output /\ d.open = open /\ d.slot = s.slot /\ Keeps(s, d)
  BY <1>2, <1>9, <1>10 DEF SameButLog, Keeps, Logged, Fields
<1>12. Good(d)
  BY ExtendSound DEF Sound, Ready, Shape
<1> HIDE DEF d
<1>13. Ready(d)
  <2>1. IsOpen(d) = TRUE /\ OpenOK(d.open)
    BY <1>4, <1>6, <1>7, <1>11 DEF IsOpen, OpenOK
  <2> QED BY <1>7, <1>9, <1>11, <1>12, <2>1 DEF Ready, Shape
<1> QED BY <1>4, <1>11, <1>13 DEF d, open

\* The break between two summary parts is followed by a client (ThinkingBreak).
LEMMA NextPartRead ==
  ASSUME NEW s, Ready(s)
  PROVE  /\ Ready(NextPart(s)) /\ Keeps(s, NextPart(s))
         /\ NextPart(s).output = s.output /\ NextPart(s).slot = s.slot
         /\ NextPart(s).open.kind = s.open.kind
         /\ s.open.kind # "stand_in" => NextPart(s) = s
<1>1. CASE s.open.kind # "stand_in"
  BY <1>1 DEF NextPart, Keeps
<1>2. CASE s.open.kind = "stand_in"
  <2> DEFINE p == FinishPart(s)
             e == PartEvent(s, "part.added", s.open.id, Len(s.open.body), NoText)
             c == Emit(p, e)
             open == [s.open EXCEPT !.body = Append(@, NoText)]
             d == NextPart(s)
  <2>1. d = [c EXCEPT !.open = [c.open EXCEPT !.body = Append(@, NoText)]]
    BY <1>2 DEF NextPart
  <2>2. e.name = "part.added" /\ e.at = Len(s.output) /\ e.id = s.open.id /\ e.part = Len(s.open.body)
    BY DEF PartEvent, Here
  <2>3. SameButLog(s, p) /\ View(p.sent) = Seen(s.output, s.open, FALSE)
    BY <1>2, FinishPartRead DEF IsOpen
  <2>4. s.open \in ItemType
    BY DEF Ready, Shape
  <2>5. open \in ItemType /\ open.kind = "stand_in" /\ open.body # <<>>
    <3>1. s.open.body \in Seq(Seq(Nat))
      BY <2>4 DEF ItemType
    <3>2. Append(s.open.body, NoText) \in Seq(Seq(Nat)) /\ Append(s.open.body, NoText) # <<>>
      BY <3>1 DEF NoText
    <3> QED BY <1>2, <2>4, <3>2 DEF ItemType
  <2>6. open = [s.open EXCEPT !.body = Append(@, <<>>)]
    BY DEF NoText
  <2> HIDE DEF e, p, open
  <2>7. SameButLog(p, c) /\ View(c.sent) = Seen(s.output, open, TRUE)
    <3>1. SameButLog(p, c) /\ View(c.sent) = Read(View(p.sent), e)
      BY <2>3, EmitRead DEF SameButLog
    <3>2. Read(Seen(s.output, s.open, FALSE), e) = Seen(s.output, open, TRUE)
      BY <1>2, <2>2, <2>6, ReadPartAdded
    <3> QED BY <2>3, <3>1, <3>2
  <2> HIDE DEF c
  <2>8. Logged(d) /\ d.sent = c.sent /\ d.output = s.output /\ d.open = open /\ d.slot = s.slot /\ Keeps(s, d)
    BY <2>1, <2>3, <2>7 DEF SameButLog, Keeps, Logged, Fields, open
  <2>9. Good(d)
    BY NextPartSound DEF Sound, Ready, Shape
  <2> HIDE DEF d
  <2>10. Ready(d)
    <3>1. IsOpen(d) = TRUE /\ OpenOK(d.open)
      BY <2>5, <2>8 DEF IsOpen, OpenOK
    <3> QED BY <2>5, <2>7, <2>8, <2>9, <3>1 DEF Ready, Shape
  <2> QED BY <1>2, <2>5, <2>8, <2>10 DEF d
<1> QED BY <1>1, <1>2

\* The item that a reasoning item of the backend, or a call, becomes.
Whole(kind, id, n) == [kind |-> kind, id |-> id, body |-> <<(<<n>>)>>]

\* An item that arrives whole has one part with one text.
LEMMA WholeType ==
  ASSUME NEW id \in Nat, NEW n \in Nat, NEW kind \in {"reasoning", "call"}
  PROVE  /\ Whole(kind, id, n) \in ItemType /\ Whole(kind, id, n).kind = kind
         /\ Whole(kind, id, n).body = <<(<<n>>)>>
<1>1. <<(<<n>>)>> \in Seq(Seq(Nat))
  OBVIOUS
<1> QED BY <1>1 DEF Whole, ItemType

\* The backend's reasoning item is followed by a client wherever it is placed: in the
\* open reconstruction, in the parked one, or as an item of its own (Reasoning).
LEMMA AddReasoningRead ==
  ASSUME NEW s, Ready(s), NEW n \in Nat, NEW c, c = MessageClosed(s)
  PROVE  /\ Ready(c) /\ Keeps(s, c)
         /\ Ready(AddReasoning(s, n)) /\ Keeps(s, AddReasoning(s, n))
         /\ AddReasoning(s, n).open = NoItem /\ AddReasoning(s, n).slot = NoSlot
         /\ AddReasoning(s, n).output =
              IF IsOpen(c) \/ c.slot = NoSlot THEN Append(c.output, Whole("reasoning", 0, n))
              ELSE [c.output EXCEPT ![c.slot + 1] = Whole("reasoning", 0, n)]
         /\ c = IF MessageOpen(s) THEN CloseOpen(s) ELSE s
         /\ IsOpen(c) => c.open.kind = "stand_in"
<1> DEFINE item == Whole("reasoning", 0, n)
           e == ItemDone(Here(c), item)
           p == FinishPart(c)
           a == Emit(p, e)
           f == ItemDone(c.slot, item)
           b == Emit(c, f)
           g == ItemAdded(c, item)
           i == Emit(c, g)
           d == Emit(i, e)
           r == AddReasoning(s, n)
<1>1. c = IF MessageOpen(s) THEN CloseOpen(s) ELSE s
  BY DEF MessageClosed
<1>2. Ready(c) /\ Keeps(s, c) /\ (IsOpen(c) => c.open.kind = "stand_in")
  <2>1. CASE MessageOpen(s)
    <3>1. c = CloseOpen(s)
      BY <1>1, <2>1
    <3>2. Ready(c) /\ Keeps(s, c) /\ c.open = NoItem
      BY <3>1, CloseOpenRead
    <3> QED BY <3>2 DEF IsOpen, NoItem
  <2>2. CASE ~MessageOpen(s)
    <3>1. c = s
      BY <1>1, <2>2
    <3> QED BY <3>1, <2>2 DEF Keeps, MessageOpen, Ready, Shape, OpenOK, IsOpen, NoItem
  <2> QED BY <2>1, <2>2
<1>3. item.kind = "reasoning" /\ item \in ItemType /\ SlotCleared(c) = NoSlot
  <2>1. 0 \in Nat
    OBVIOUS
  <2> QED BY <2>1, WholeType DEF SlotCleared
<1>4. r = [(IF IsOpen(c) THEN [a EXCEPT !.output = Append(@, item), !.open = NoItem]
            ELSE IF c.slot # NoSlot THEN [b EXCEPT !.output[c.slot + 1] = item]
            ELSE [d EXCEPT !.output = Append(@, item)]) EXCEPT !.slot = SlotCleared(c)]
  BY DEF AddReasoning, Whole
<1>5. /\ e.name = "item.done" /\ e.at = Len(c.output) /\ e.item = item
      /\ f.name = "item.done" /\ f.at = c.slot /\ f.item = item
      /\ g.name = "item.added" /\ g.at = Len(c.output) /\ g.item = item
  BY DEF ItemDone, ItemAdded, Here
<1>6. Good(r)
  BY AddReasoningSound DEF Sound, Ready, Shape
<1>7. Logged(c) /\ c.output \in Seq(ItemType) /\ Good(c) /\ NoItem \in ItemType /\ IsOpen([open |-> NoItem]) = FALSE
  BY <1>2 DEF Ready, Shape, NoItem, ItemType, IsOpen
<1> HIDE DEF item, e, f, g, r
<1>8. ASSUME Logged(r), r.open = NoItem, r.output \in Seq(ItemType), View(r.sent) = Seen(r.output, NoItem, FALSE)
      PROVE  Ready(r)
  <2>1. IsOpen(r) = FALSE /\ OpenOK(r.open)
    BY <1>8 DEF IsOpen, NoItem, OpenOK
  <2> QED BY <1>6, <1>7, <1>8, <2>1 DEF Ready, Shape
<1>9. CASE IsOpen(c)
  <2>1. SameButLog(c, p) /\ View(p.sent) = Seen(c.output, c.open, FALSE)
    BY <1>2, <1>9, FinishPartRead
  <2> HIDE DEF p
  <2>2. SameButLog(p, a) /\ View(a.sent) = Seen(Append(c.output, item), NoItem, FALSE)
    <3>1. SameButLog(p, a) /\ View(a.sent) = Read(View(p.sent), e)
      BY <2>1, EmitRead DEF SameButLog
    <3>2. Read(Seen(c.output, c.open, FALSE), e) = Seen(Append(c.output, e.item), NoItem, FALSE)
      <4>1. /\ c.open.kind = "stand_in" /\ c.open.kind # "none"
            /\ e.name = "item.done" /\ e.at = Len(c.output) /\ e.item.kind = "reasoning"
        BY <1>2, <1>3, <1>5, <1>9
      <4> QED BY <4>1, ReadItemDone
    <3> QED BY <1>5, <2>1, <3>1, <3>2
  <2> HIDE DEF a
  <2>3. r = [[a EXCEPT !.output = Append(@, item), !.open = NoItem] EXCEPT !.slot = NoSlot]
    BY <1>3, <1>4, <1>9
  <2>4. /\ Logged(r) /\ r.sent = a.sent /\ r.output = Append(c.output, item) /\ r.open = NoItem
        /\ r.slot = NoSlot /\ Keeps(c, r)
    BY <2>1, <2>2, <2>3 DEF SameButLog, Keeps, Logged, Fields
  <2>5. r.output \in Seq(ItemType)
    BY <1>3, <1>7, <2>4
  <2>6. Ready(r)
    BY <1>8, <2>2, <2>4, <2>5
  <2> QED BY <1>1, <1>2, <1>9, <2>4, <2>6 DEF r, item, Keeps
<1>10. ~IsOpen(c) => c.open = NoItem /\ View(c.sent) = Seen(c.output, NoItem, FALSE)
  BY <1>2 DEF Ready, Shape, OpenOK, IsOpen
<1>11. CASE ~IsOpen(c) /\ c.slot # NoSlot
  <2>1. c.slot \in 0 .. Len(c.output) - 1 /\ c.output[c.slot + 1].kind = "stand_in" /\ Len(c.output) \in Nat
    BY <1>7, <1>11 DEF Good, SlotOK
  <2>2. SameButLog(c, b) /\ View(b.sent) = Seen([c.output EXCEPT ![c.slot + 1] = item], NoItem, FALSE)
    <3>1. SameButLog(c, b) /\ View(b.sent) = Read(View(c.sent), f)
      BY <1>7, EmitRead
    <3>2. f.at # Len(c.output)
      BY <1>5, <2>1
    <3>3. Read(Seen(c.output, NoItem, FALSE), f) = Seen([c.output EXCEPT ![f.at + 1] = f.item], NoItem, FALSE)
      BY <1>3, <1>5, <2>1, <3>2, ReadReplaced
    <3> QED BY <1>5, <1>10, <1>11, <3>1, <3>3
  <2> HIDE DEF b
  <2>3. r = [[b EXCEPT !.output[c.slot + 1] = item] EXCEPT !.slot = NoSlot]
    BY <1>3, <1>4, <1>11
  <2>4. /\ Logged(r) /\ r.sent = b.sent /\ r.output = [c.output EXCEPT ![c.slot + 1] = item] /\ r.open = NoItem
        /\ r.slot = NoSlot /\ Keeps(c, r)
    BY <1>10, <1>11, <2>2, <2>3 DEF SameButLog, Keeps, Logged, Fields
  <2>5. r.output \in Seq(ItemType)
    BY <1>3, <1>7, <2>1, <2>4
  <2>6. Ready(r)
    BY <1>8, <2>2, <2>4, <2>5
  <2> QED BY <1>1, <1>2, <1>11, <2>4, <2>6 DEF r, item, Keeps
<1>12. CASE ~IsOpen(c) /\ c.slot = NoSlot
  <2>1. SameButLog(c, i) /\ View(i.sent) = Seen(c.output, item, FALSE)
    <3>1. SameButLog(c, i) /\ View(i.sent) = Read(View(c.sent), g)
      BY <1>7, EmitRead
    <3>2. Read(Seen(c.output, NoItem, FALSE), g) = Seen(c.output, g.item, FALSE)
      BY <1>3, <1>5, ReadItemAdded
    <3> QED BY <1>5, <1>10, <1>12, <3>1, <3>2
  <2> HIDE DEF i
  <2>2. SameButLog(i, d) /\ View(d.sent) = Seen(Append(c.output, item), NoItem, FALSE)
    <3>1. SameButLog(i, d) /\ View(d.sent) = Read(View(i.sent), e)
      BY <2>1, EmitRead DEF SameButLog
    <3>2. Read(Seen(c.output, item, FALSE), e) = Seen(Append(c.output, e.item), NoItem, FALSE)
      BY <1>3, <1>5, ReadItemDone
    <3> QED BY <1>5, <2>1, <3>1, <3>2
  <2> HIDE DEF d
  <2>3. r = [[d EXCEPT !.output = Append(@, item)] EXCEPT !.slot = NoSlot]
    BY <1>3, <1>4, <1>12
  <2>4. /\ Logged(r) /\ r.sent = d.sent /\ r.output = Append(c.output, item) /\ r.open = NoItem
        /\ r.slot = NoSlot /\ Keeps(c, r)
    BY <1>10, <1>12, <2>1, <2>2, <2>3 DEF SameButLog, Keeps, Logged, Fields
  <2>5. r.output \in Seq(ItemType)
    BY <1>3, <1>7, <2>4
  <2>6. Ready(r)
    BY <1>8, <2>2, <2>4, <2>5
  <2> QED BY <1>1, <1>2, <1>12, <2>4, <2>6 DEF r, item, Keeps
<1> QED BY <1>9, <1>11, <1>12

\* A tool call that arrives whole is followed by a client (ToolCall).
LEMMA AddCallRead ==
  ASSUME NEW s, Ready(s), NEW n \in Nat
  PROVE  /\ Ready(AddCall(s, n)) /\ Keeps(s, AddCall(s, n))
         /\ AddCall(s, n).open = NoItem /\ AddCall(s, n).slot = CloseOpen(s).slot
         /\ \E id \in Nat : AddCall(s, n).output = Append(CloseOpen(s).output, Whole("call", id, n))
<1> DEFINE c == CloseOpen(s)
           id == Len(c.sent)
           item == Whole("call", id, n)
           empty == [item EXCEPT !.body = <<NoText>>]
           e == ItemAdded(c, empty)
           f == PartEvent(c, "delta", id, 0, n)
           g == PartEvent(c, "part.done", id, 0, <<n>>)
           h == ItemDone(Here(c), item)
           c1 == Emit(c, e)
           c2 == Emit(c1, f)
           c3 == Emit(c2, g)
           c4 == Emit(c3, h)
           d == AddCall(s, n)
<1>1. Ready(c) /\ Keeps(s, c) /\ c.open = NoItem
  BY CloseOpenRead
<1>2. d = [c4 EXCEPT !.output = Append(@, item)]
  BY DEF AddCall, Whole
<1> HIDE DEF c
<1>3. id \in Nat /\ Logged(c) /\ c.output \in Seq(ItemType) /\ View(c.sent) = Seen(c.output, NoItem, FALSE)
  <2>1. IsOpen(c) = FALSE
    BY <1>1 DEF IsOpen, NoItem
  <2> QED BY <1>1, <2>1, AppendFacts DEF Ready, Shape, Logged
<1>4. /\ item \in ItemType /\ item.kind = "call" /\ item.id = id /\ item.body = <<(<<n>>)>>
      /\ empty.kind = "call" /\ empty.id = id /\ empty.body = <<NoText>>
  BY <1>3, WholeType DEF Whole
<1>5. /\ e.name = "item.added" /\ e.at = Len(c.output) /\ e.item = empty
      /\ f.name = "delta" /\ f.at = Len(c.output) /\ f.id = id /\ f.part = 0 /\ f.text = n
      /\ g.name = "part.done" /\ g.at = Len(c.output) /\ g.id = id /\ g.part = 0 /\ g.text = <<n>>
      /\ h.name = "item.done" /\ h.at = Len(c.output) /\ h.item = item
  BY DEF ItemAdded, ItemDone, PartEvent, Here
<1>6. empty = [kind |-> "call", id |-> id, body |-> <<NoText>>] /\ item = [kind |-> "call", id |-> id, body |-> <<(<<n>>)>>]
  BY DEF Whole
<1> HIDE DEF id, item, empty, e, f, g, h
<1>7. Len(empty.body) - 1 = 0 /\ Len(item.body) - 1 = 0 /\ Last(item.body) = <<n>>
  <2>1. Len(<<NoText>>) - 1 = 0 /\ Len(<<(<<n>>)>>) = 1 /\ Len(<<(<<n>>)>>) - 1 = 0
    OBVIOUS
  <2>2. <<(<<n>>)>>[1] = <<n>>
    OBVIOUS
  <2> QED BY <1>4, <2>1, <2>2, Zenon DEF Last
<1>7a. Filled(empty, 0, n) = item
  <2>1. empty.body[0 + 1] = <<>> /\ Append(<<>>, n) = <<n>>
    BY <1>4 DEF NoText
  <2>2. [<<NoText>> EXCEPT ![0 + 1] = <<n>>] = <<(<<n>>)>>
    OBVIOUS
  <2>3. [empty.body EXCEPT ![0 + 1] = <<n>>] = item.body
    BY <1>4, <2>2
  <2>4. Filled(empty, 0, n) = [empty EXCEPT !.body = [empty.body EXCEPT ![0 + 1] = Append(empty.body[0 + 1], n)]]
    BY Zenon DEF Filled
  <2>5. Filled(empty, 0, n) = [empty EXCEPT !.body = item.body]
    BY <2>1, <2>3, <2>4
  <2> QED BY <1>4, <1>6, <2>5
<1>8. SameButLog(c, c1) /\ View(c1.sent) = Seen(c.output, empty, TRUE)
  <2>1. SameButLog(c, c1) /\ View(c1.sent) = Read(View(c.sent), e)
    BY <1>3, EmitRead
  <2>2. Read(Seen(c.output, NoItem, FALSE), e) = Seen(c.output, e.item, TRUE)
    BY <1>4, <1>5, ReadItemAdded
  <2> QED BY <1>3, <1>5, <2>1, <2>2
<1> HIDE DEF c1
<1>9. SameButLog(c1, c2) /\ View(c2.sent) = Seen(c.output, item, TRUE)
  <2>1. SameButLog(c1, c2) /\ View(c2.sent) = Read(View(c1.sent), f)
    BY <1>8, EmitRead DEF SameButLog
  <2>2. Read(Seen(c.output, empty, TRUE), f) = Seen(c.output, Filled(empty, f.part, f.text), TRUE)
    <3>1. /\ empty.kind # "none" /\ f.name = "delta" /\ f.at = Len(c.output)
          /\ f.id = empty.id /\ f.part = Len(empty.body) - 1
      BY <1>4, <1>5, <1>7
    <3> QED BY ONLY <3>1, ReadDelta
  <2> QED BY <1>5, <1>7a, <1>8, <2>1, <2>2
<1> HIDE DEF c2
<1>10. SameButLog(c2, c3) /\ View(c3.sent) = Seen(c.output, item, FALSE)
  <2>1. SameButLog(c2, c3) /\ View(c3.sent) = Read(View(c2.sent), g)
    BY <1>9, EmitRead DEF SameButLog
  <2>2. Read(Seen(c.output, item, TRUE), g) = Seen(c.output, item, FALSE)
    <3>1. item.kind # "none" /\ g.part = Len(item.body) - 1 /\ g.id = item.id /\ g.text = Last(item.body)
      BY <1>4, <1>5, <1>7
    <3> QED BY <1>5, <3>1, ReadPartDone
  <2> QED BY <1>9, <2>1, <2>2
<1> HIDE DEF c3
<1>11. SameButLog(c3, c4) /\ View(c4.sent) = Seen(Append(c.output, item), NoItem, FALSE)
  <2>1. SameButLog(c3, c4) /\ View(c4.sent) = Read(View(c3.sent), h)
    BY <1>10, EmitRead DEF SameButLog
  <2>2. Read(Seen(c.output, item, FALSE), h) = Seen(Append(c.output, h.item), NoItem, FALSE)
    BY <1>4, <1>5, ReadItemDone
  <2> QED BY <1>5, <1>10, <2>1, <2>2
<1> HIDE DEF c4
<1>12. /\ Logged(d) /\ d.sent = c4.sent /\ d.output = Append(c.output, item) /\ d.open = NoItem
       /\ d.slot = c.slot /\ Keeps(s, d)
  BY <1>1, <1>2, <1>8, <1>9, <1>10, <1>11 DEF SameButLog, Keeps, Logged, Fields
<1>13. Good(d)
  BY AddCallSound DEF Sound, Ready, Shape
<1> HIDE DEF d
<1>14. Ready(d)
  <2>1. IsOpen(d) = FALSE /\ OpenOK(d.open) /\ NoItem \in ItemType
    BY <1>12 DEF IsOpen, NoItem, OpenOK, ItemType
  <2>2. d.output \in Seq(ItemType)
    BY <1>3, <1>4, <1>12
  <2> QED BY <1>11, <1>12, <1>13, <2>1, <2>2 DEF Ready, Shape
<1> QED BY <1>3, <1>12, <1>14 DEF c, d, item

-----------------------------------------------------------------------------
(* What the client makes of the stream.                                    *)

\* Before the response is announced, and while it is streamed.
Blank(s) ==
  /\ Logged(s) /\ Good(s)
  /\ s.created = FALSE /\ s.failed = FALSE
  /\ s.output = <<>> /\ s.open = NoItem /\ View(s.sent) = NewView

Streaming(s) == Ready(s) /\ s.created = TRUE /\ s.failed = FALSE

\* What ClientFollows says of a state.
Matches(s) == View(s.sent).ok /\ View(s.sent).items = s.output /\ View(s.sent).open = s.open

\* Before and during the turn the client has what the state holds.
LEMMA StreamingMatches ==
  ASSUME NEW s, Streaming(s) \/ Blank(s) PROVE Matches(s) /\ s.output \in Seq(ItemType) /\ s.open \in ItemType
<1>1. CASE Streaming(s)
  BY <1>1 DEF Streaming, Ready, Shape, Seen, Matches
<1>2. CASE Blank(s)
  <2>1. s.output \in Seq(ItemType) /\ s.open \in ItemType
    BY <1>2 DEF Blank, NoItem, ItemType
  <2> QED BY <1>2, <2>1 DEF Blank, NewView, Matches
<1> QED BY <1>1, <1>2

\* From the announcement on a client reads the stream (ensure_created).
LEMMA EnsureCreatedRead ==
  ASSUME NEW s, Blank(s) \/ Streaming(s), NEW e
  PROVE  /\ Streaming(EnsureCreated(s, e))
         /\ EnsureCreated(s, e).output = s.output /\ EnsureCreated(s, e).open = s.open
         /\ EnsureCreated(s, e).slot = s.slot
<1>1. CASE Streaming(s)
  BY <1>1 DEF EnsureCreated, Announced, Streaming
<1>2. CASE Blank(s)
  <2> DEFINE named == IF e.type = "started" /\ e.arg # "none" THEN e.arg ELSE s.model
             c == [s EXCEPT !.created = TRUE, !.model = named]
             begun == [Envelope(c, "created") EXCEPT !.status = "in_progress"]
             again == [begun EXCEPT !.name = "in_progress"]
             d == Emit(c, begun)
             f == Emit(d, again)
  <2>1. begun.name = "created" /\ again.name = "in_progress"
    BY DEF Envelope
  <2>2. /\ Logged(c) /\ c.sent = s.sent /\ c.created = TRUE /\ c.failed = FALSE
        /\ c.output = s.output /\ c.open = s.open /\ c.slot = s.slot
    BY <1>2 DEF Blank, Logged, Fields
  <2>3. EnsureCreated(s, e) = f
    BY <1>2 DEF EnsureCreated, Announced, Blank
  <2> HIDE DEF c, begun, again
  <2>4. SameButLog(c, d) /\ View(d.sent) = Read(NewView, begun)
    BY <1>2, <2>2, EmitRead DEF Blank
  <2>5. SameButLog(d, f) /\ View(f.sent) = Read(View(d.sent), again)
    BY <2>4, EmitRead DEF SameButLog
  <2>6. View(f.sent) = Seen(<<>>, NoItem, FALSE)
    BY <2>1, <2>4, <2>5, ReadCreated
  <2>7. Good(f)
    BY <1>2, <2>3, EnsureCreatedSound DEF Sound, Blank
  <2> HIDE DEF d, f
  <2>8. /\ Logged(f) /\ f.created = TRUE /\ f.failed = FALSE /\ f.output = s.output /\ f.open = s.open
        /\ f.slot = s.slot /\ f.output = <<>> /\ f.open = NoItem
    BY <1>2, <2>2, <2>4, <2>5 DEF SameButLog, Keeps, Blank
  <2>9. f.output \in Seq(ItemType) /\ f.open \in ItemType /\ IsOpen(f) = FALSE /\ OpenOK(f.open)
    BY <2>8 DEF IsOpen, NoItem, OpenOK, ItemType
  <2> QED BY <2>3, <2>6, <2>7, <2>8, <2>9 DEF Streaming, Ready, Shape
<1> QED BY <1>1, <1>2

\* The terminal event leaves a client with the items it had.
LEMMA ReadEnd ==
  ASSUME NEW items, NEW open, NEW po, NEW e, e.output = items,
         e.name = "failed" \/ (e.name = "completed" /\ open = NoItem)
  PROVE  LET v == Read(Seen(items, open, po), e) IN v.ok /\ v.items = items /\ v.open = open
<1>1. CASE e.name = "failed"
  BY <1>1 DEF Read, Legal, Take, Seen
<1>2. CASE e.name = "completed" /\ open = NoItem
  BY <1>2 DEF Read, Legal, Take, Seen, IsOpen, NoItem
<1> QED BY <1>1, <1>2

\* The end of a turn is followed by a client, which has every item closed (Done).
LEMMA CompleteRead ==
  ASSUME NEW s, Streaming(s), NEW reason
  PROVE  /\ Matches(Complete(s, reason)) /\ Logged(Complete(s, reason)) /\ Complete(s, reason).failed = FALSE
         /\ Complete(s, reason).output = CloseOpen(s).output /\ Complete(s, reason).open = NoItem
         /\ Complete(s, reason).slot = CloseOpen(s).slot
         /\ Last(Complete(s, reason).sent).name = "completed"
<1> DEFINE p == CloseOpen(s)
           c == [p EXCEPT !.status = IF reason = "aborted" THEN "incomplete" ELSE "completed"]
           e == Envelope(c, "completed")
           d == Emit(c, e)
<1>1. Complete(s, reason) = d
  BY DEF Complete
<1>2. Ready(p) /\ Keeps(s, p) /\ p.open = NoItem
  BY CloseOpenRead DEF Streaming
<1> HIDE DEF p
<1>3. /\ Logged(c) /\ c.sent = p.sent /\ c.output = p.output /\ c.open = NoItem /\ c.slot = p.slot /\ c.failed = FALSE
  BY <1>2 DEF Ready, Shape, Logged, Fields, Keeps, Streaming
<1>4. e.name = "completed" /\ e.output = p.output
  BY <1>3 DEF Envelope
<1> HIDE DEF c, e
<1>5. SameButLog(c, d) /\ View(d.sent) = Read(Seen(p.output, NoItem, IsOpen(p)), e)
  <2>1. View(c.sent) = Seen(p.output, NoItem, IsOpen(p))
    BY <1>2, <1>3 DEF Ready
  <2> QED BY <1>3, <2>1, EmitRead
<1>6. Matches(d)
  <2>1. LET v == Read(Seen(p.output, NoItem, IsOpen(p)), e) IN v.ok /\ v.items = p.output /\ v.open = NoItem
    BY <1>4, ReadEnd
  <2> QED BY <1>3, <1>5, <2>1 DEF Matches, SameButLog
<1>7. Last(d.sent) = e
  <2>1. d.sent = Append(c.sent, e)
    BY <1>3 DEF Emit, Logged, Fields
  <2> QED BY <1>3, <2>1, AppendFacts DEF Last, Logged
<1> HIDE DEF d
<1> QED BY <1>1, <1>3, <1>4, <1>5, <1>6, <1>7 DEF SameButLog, Keeps, p

\* The failure of a turn is followed by a client: what was open stays open (Failed).
LEMMA FailTurnRead ==
  ASSUME NEW s, Streaming(s)
  PROVE  /\ Matches(FailTurn(s)) /\ Logged(FailTurn(s)) /\ FailTurn(s).failed = TRUE
         /\ FailTurn(s).output = s.output /\ FailTurn(s).open = s.open
         /\ Last(FailTurn(s).sent).name = "failed"
<1> DEFINE c == [s EXCEPT !.status = "failed", !.failed = TRUE]
           e == Envelope(c, "failed")
           d == Emit(c, e)
<1>1. FailTurn(s) = d
  BY DEF FailTurn
<1>2. Logged(c) /\ c.sent = s.sent /\ c.output = s.output /\ c.open = s.open /\ c.failed = TRUE
  BY DEF Streaming, Ready, Shape, Logged, Fields
<1>3. e.name = "failed" /\ e.output = s.output
  BY <1>2 DEF Envelope
<1> HIDE DEF c, e
<1>4. SameButLog(c, d) /\ View(d.sent) = Read(Seen(s.output, s.open, IsOpen(s)), e)
  BY <1>2, EmitRead DEF Streaming, Ready
<1>5. Matches(d)
  <2>1. LET v == Read(Seen(s.output, s.open, IsOpen(s)), e) IN v.ok /\ v.items = s.output /\ v.open = s.open
    BY <1>3, ReadEnd
  <2> QED BY <1>2, <1>4, <2>1 DEF Matches, SameButLog
<1>6. Last(d.sent) = e
  <2>1. d.sent = Append(c.sent, e)
    BY <1>2 DEF Emit, Logged, Fields
  <2> QED BY <1>2, <2>1, AppendFacts DEF Last, Logged
<1> HIDE DEF d
<1> QED BY <1>1, <1>2, <1>3, <1>4, <1>5, <1>6 DEF SameButLog, Keeps

\* apply, on a state that is streaming already.
LEMMA ApplyIs ==
  ASSUME NEW s, ~Over(s), NEW e, NEW c, c = EnsureCreated(s, e)
  PROVE  /\ e.type = "started" => Apply(s, e) = [c EXCEPT !.model = IF e.arg # "none" THEN e.arg ELSE @]
         /\ e.type = "thinking_delta" => Apply(s, e) = Extend(OpenReasoning(c), e.n)
         /\ e.type = "thinking_break" => Apply(s, e) = NextPart(c)
         /\ e.type = "reasoning" => Apply(s, e) = AddReasoning(c, e.n)
         /\ e.type = "text_delta" => Apply(s, e) = Extend(OpenMessage(c), e.n)
         /\ e.type = "tool_call" => Apply(s, e) = AddCall(c, e.n)
         /\ e.type = "done" => Apply(s, e) = Complete(c, e.arg)
         /\ e.type = "failed" => Apply(s, e) = FailTurn(c)
         /\ e.type = "rate_limits" => Apply(s, e) = c
<1>1. Apply(s, e) =
        CASE e.type = "started"        -> [c EXCEPT !.model = IF e.arg # "none" THEN e.arg ELSE @]
          [] e.type = "thinking_delta" -> Extend(OpenReasoning(c), e.n)
          [] e.type = "thinking_break" -> NextPart(c)
          [] e.type = "reasoning"      -> AddReasoning(c, e.n)
          [] e.type = "text_delta"     -> Extend(OpenMessage(c), e.n)
          [] e.type = "tool_call"      -> AddCall(c, e.n)
          [] e.type = "done"           -> Complete(c, e.arg)
          [] e.type = "failed"         -> FailTurn(c)
          [] e.type = "rate_limits"    -> c
  BY DEF Apply
<1> QED BY <1>1

\* Naming the model changes nothing that the client follows.
LEMMA NamedStreams ==
  ASSUME NEW s, Streaming(s), NEW m
  PROVE  /\ Streaming([s EXCEPT !.model = m])
         /\ [s EXCEPT !.model = m].output = s.output /\ [s EXCEPT !.model = m].open = s.open
         /\ [s EXCEPT !.model = m].slot = s.slot
<1> DEFINE d == [s EXCEPT !.model = m]
<1>1. /\ DOMAIN d = Fields /\ d.sent = s.sent /\ d.output = s.output /\ d.open = s.open /\ d.slot = s.slot
      /\ d.created = s.created /\ d.failed = s.failed
  BY DEF Streaming, Ready, Shape, Logged, Fields
<1>2. Good(d)
  BY OtherFields DEF Sound, Streaming, Ready, Shape
<1> HIDE DEF d
<1>3. Streaming(d)
  BY <1>1, <1>2 DEF Streaming, Ready, Shape, Logged, IsOpen
<1> QED BY <1>1, <1>3 DEF d

\* Whatever event comes to a turn that is not over, the client can follow it (apply).
LEMMA ApplyRead ==
  ASSUME NEW s, Blank(s) \/ Streaming(s), NEW e, e.type \in EventTypes, e.n \in Nat
  PROVE  /\ e.type \notin {"done", "failed"} => Streaming(Apply(s, e))
         /\ e.type \in {"done", "failed"} => Matches(Apply(s, e)) /\ Logged(Apply(s, e))
         /\ e.type = "done" => /\ Apply(s, e).failed = FALSE /\ Apply(s, e).open = NoItem
                               /\ Apply(s, e).output \in Seq(ItemType)
         /\ e.type = "failed" => Apply(s, e).failed = TRUE /\ Last(Apply(s, e).sent).name = "failed"
<1> DEFINE c == EnsureCreated(s, e)
           d == Apply(s, e)
<1>1. ~Over(s)
  BY DEF Over, Blank, Streaming
<1>2. Streaming(c)
  BY EnsureCreatedRead
<1>3. /\ e.type = "started" => d = [c EXCEPT !.model = IF e.arg # "none" THEN e.arg ELSE @]
      /\ e.type = "thinking_delta" => d = Extend(OpenReasoning(c), e.n)
      /\ e.type = "thinking_break" => d = NextPart(c)
      /\ e.type = "reasoning" => d = AddReasoning(c, e.n)
      /\ e.type = "text_delta" => d = Extend(OpenMessage(c), e.n)
      /\ e.type = "tool_call" => d = AddCall(c, e.n)
      /\ e.type = "done" => d = Complete(c, e.arg)
      /\ e.type = "failed" => d = FailTurn(c)
      /\ e.type = "rate_limits" => d = c
  BY <1>1, ApplyIs
<1> SUFFICES /\ e.type \notin {"done", "failed"} => Streaming(d)
             /\ e.type \in {"done", "failed"} => Matches(d) /\ Logged(d)
             /\ e.type = "done" => d.failed = FALSE /\ d.open = NoItem /\ d.output \in Seq(ItemType)
             /\ e.type = "failed" => d.failed = TRUE /\ Last(d.sent).name = "failed"
  BY Zenon DEF d
<1> HIDE DEF c, d
<1>4. ASSUME Ready(d), Keeps(c, d) PROVE Streaming(d)
  BY <1>2, <1>4 DEF Streaming, Keeps
<1>5. Ready(c) /\ Logged(c)
  BY <1>2 DEF Streaming, Ready, Shape
<1>6. CASE e.type = "started"
  BY <1>2, <1>3, <1>6, NamedStreams
<1>7. CASE e.type = "thinking_delta"
  <2>1. Ready(OpenReasoning(c)) /\ Keeps(c, OpenReasoning(c)) /\ IsOpen(OpenReasoning(c))
    BY <1>5, OpensRead DEF IsOpen
  <2>2. Ready(Extend(OpenReasoning(c), e.n)) /\ Keeps(OpenReasoning(c), Extend(OpenReasoning(c), e.n))
    BY <2>1, ExtendRead
  <2> QED BY <1>3, <1>4, <1>7, <2>1, <2>2 DEF Keeps
<1>8. CASE e.type = "thinking_break"
  BY <1>3, <1>4, <1>5, <1>8, NextPartRead
<1>9. CASE e.type = "reasoning"
  <2> DEFINE m == MessageClosed(c)
  <2>1. Ready(AddReasoning(c, e.n)) /\ Keeps(c, AddReasoning(c, e.n))
    <3>1. m = MessageClosed(c)
      OBVIOUS
    <3> HIDE DEF m
    <3> QED BY <1>5, <3>1, AddReasoningRead
  <2> QED BY <1>3, <1>4, <1>9, <2>1
<1>10. CASE e.type = "text_delta"
  <2>1. Ready(OpenMessage(c)) /\ Keeps(c, OpenMessage(c)) /\ IsOpen(OpenMessage(c))
    BY <1>5, OpensRead DEF IsOpen
  <2>2. Ready(Extend(OpenMessage(c), e.n)) /\ Keeps(OpenMessage(c), Extend(OpenMessage(c), e.n))
    BY <2>1, ExtendRead
  <2> QED BY <1>3, <1>4, <1>10, <2>1, <2>2 DEF Keeps
<1>11. CASE e.type = "tool_call"
  BY <1>3, <1>4, <1>5, <1>11, AddCallRead
<1>12. CASE e.type = "done"
  <2> DEFINE f == Complete(c, e.arg)
  <2>1. /\ Matches(f) /\ Logged(f) /\ f.failed = FALSE /\ f.open = NoItem
        /\ f.output = CloseOpen(c).output /\ CloseOpen(c).output \in Seq(ItemType)
    BY <1>2, <1>5, CompleteRead, CloseOpenRead DEF Ready, Shape
  <2> HIDE DEF f
  <2>2. d = f
    BY <1>3, <1>12 DEF f
  <2> QED BY <1>12, <2>1, <2>2
<1>13. CASE e.type = "failed"
  BY <1>2, <1>3, <1>13, FailTurnRead
<1>14. CASE e.type = "rate_limits"
  BY <1>2, <1>3, <1>14
<1> QED
  BY <1>6, <1>7, <1>8, <1>9, <1>10, <1>11, <1>12, <1>13, <1>14 DEF EventTypes

-----------------------------------------------------------------------------
(* The client follows.                                                     *)

\* A turn goes on, or what the client has is what the state holds and no event
\* will be rendered any more.
ClientInv ==
  /\ IsSeq(given)
  /\ \/ Blank(st) \/ Streaming(st)
     \/ Matches(st) /\ Logged(st) /\ (st.failed = TRUE \/ phase = "over")

\* What the surface is given is numbered (Event), and a turn that is over or has
\* failed renders nothing.
LEMMA RenderStep ==
  ASSUME ClientInv, NEW u \in Upstream, Render(u), NEW e, e = MapOne(u)
  PROVE  /\ e.type \in EventTypes /\ e.n \in Nat /\ e.n = Len(given) + 1
         /\ u \notin Silent /\ given' = Append(given, e) /\ st' = Apply(st, e)
         /\ Over(st) => st' = st /\ st.failed = TRUE
         /\ ~Over(st) => st.failed = FALSE /\ (Blank(st) \/ Streaming(st))
         /\ e.type = "done" => phase' = "over"
<1>1. Len(given) \in Nat
  BY AppendFacts DEF ClientInv
<1>2. /\ phase # "over" /\ phase' = PhaseAfter(u) /\ st' = Apply(st, e)
      /\ u \notin Silent /\ given' = Append(given, e)
  BY DEF Render, Send, Sendable
<1>3. e.type \in EventTypes /\ e.n = Len(given) + 1 /\ (e.type = "done" => u \in Final)
  BY <1>2 DEF Upstream, Content, Final, Silent, MapOne, Event, EventTypes
<1>4. e.type = "done" => phase' = "over"
  BY <1>2, <1>3 DEF PhaseAfter, Final
<1>5. Over(st) => st' = st /\ st.failed = TRUE
  BY <1>2 DEF ClientInv, Over, Apply, Blank, Streaming
<1>6. ~Over(st) => st.failed = FALSE /\ (Blank(st) \/ Streaming(st))
  BY <1>2 DEF ClientInv, Over, Blank, Streaming
<1> QED BY <1>1, <1>2, <1>3, <1>4, <1>5, <1>6

\* The invariant of what a client has read is inductive.
LEMMA ClientSteps ==
  /\ Init => ClientInv
  /\ ClientInv /\ [Next]_vars => ClientInv'
<1>0. IsSeq(<<>>)
  <2>1. <<>> \in Seq(Int)
    OBVIOUS
  <2> QED BY <2>1 DEF IsSeq
<1>1. ASSUME Init PROVE ClientInv
  <2>1. /\ DOMAIN st = Fields /\ st.output = <<>> /\ st.sent = <<>> /\ st.open = NoItem
        /\ st.created = FALSE /\ st.failed = FALSE /\ given = <<>>
    BY <1>1 DEF Init, TurnInit, NewState, Fields
  <2>2. View(<<>>) = NewView
    BY <1>0, ViewAppend
  <2>3. Good(st)
    BY <1>1, Steps
  <2> QED BY <1>0, <2>1, <2>2, <2>3 DEF ClientInv, Blank, Logged
<1>2. ASSUME ClientInv, [Next]_vars PROVE ClientInv'
  <2>1. ASSUME NEW u \in Upstream, Render(u) PROVE ClientInv'
    <3> DEFINE e == MapOne(u)
    <3>1. /\ e.type \in EventTypes /\ e.n \in Nat
          /\ given' = Append(given, e) /\ st' = Apply(st, e)
          /\ Over(st) => st' = st /\ st.failed = TRUE
          /\ ~Over(st) => Blank(st) \/ Streaming(st)
          /\ e.type = "done" => phase' = "over"
      BY <1>2, <2>1, RenderStep
    <3> HIDE DEF e
    <3>2. IsSeq(given')
      BY <1>2, <3>1, AppendFacts DEF ClientInv
    <3>3. CASE Over(st)
      <4>1. Matches(st) /\ Logged(st)
        BY <1>2, StreamingMatches DEF ClientInv, Streaming, Ready, Shape, Blank
      <4> QED BY <3>1, <3>2, <3>3, <4>1 DEF ClientInv, Matches, Logged
    <3>4. CASE ~Over(st)
      <4>1. /\ e.type \notin {"done", "failed"} => Streaming(st')
            /\ e.type \in {"done", "failed"} => Matches(st') /\ Logged(st')
            /\ e.type = "failed" => st'.failed = TRUE
        BY <3>1, <3>4, ApplyRead
      <4>2. ClientInv' <=> IsSeq(given') /\ (Blank(st') \/ Streaming(st')
                            \/ (Matches(st') /\ Logged(st') /\ (st'.failed = TRUE \/ phase' = "over")))
        BY Zenon DEF ClientInv, Blank, Streaming, Matches, Logged, Ready, Shape, Good, SlotOK, OpenOK
      <4> QED BY <3>1, <3>2, <4>1, <4>2
    <3> QED BY <3>3, <3>4
  <2>2. ASSUME NEW u \in Upstream, Absorb(u) PROVE ClientInv'
    <3>1. st' = st /\ given' = given /\ phase # "over"
      BY <2>2 DEF Absorb, Send, Sendable
    <3> QED BY <1>2, <3>1 DEF ClientInv, Blank, Streaming, Matches, Logged, Ready, Shape, Good, SlotOK, OpenOK, Keeps, IsOpen
  <2>3. CASE UNCHANGED vars
    BY <1>2, <2>3 DEF vars, turnVars, ClientInv, Blank, Streaming, Matches, Logged, Ready, Shape, Good, SlotOK, OpenOK, Keeps, IsOpen
  <2> QED BY <1>2, <2>1, <2>2, <2>3 DEF Next
<1> QED BY <1>1, <1>2

\* A client that appends deltas to the open item can place every event, and has
\* at every moment what the state holds (apply).
THEOREM ClientSafe == Spec => []ClientFollows
<1>1. ClientInv => ClientFollows
  BY StreamingMatches DEF ClientInv, Matches, ClientFollows
<1> QED BY <1>1, ClientSteps, PTL DEF Spec

\* FlattenSeq is the operator the instance has facts about.
LEMMA FlattenHere == ASSUME NEW ss PROVE FlattenSeq(ss) = Facts!FlattenSeq(ss)
  BY Zenon DEF FlattenSeq, Facts!FlattenSeq

\* What one item says, if it is of one of the kinds.
Says(item, kinds) == IF item.kind \in kinds THEN FlattenSeq(item.body) ELSE <<>>

\* An item says numbers, and nothing while it has no delta.
LEMMA SaysType ==
  ASSUME NEW item \in ItemType, NEW kinds
  PROVE  /\ Says(item, kinds) \in Seq(Nat)
         /\ item.kind \notin kinds => Says(item, kinds) = <<>>
         /\ item.body = <<NoText>> => Says(item, kinds) = <<>>
<1>1. item.body \in Seq(Seq(Nat))
  BY DEF ItemType
<1>2. FlattenSeq(item.body) \in Seq(Nat)
  BY <1>1, FlattenHere, Facts!FlattenType
<1>3. FlattenSeq(<<NoText>>) = <<>>
  <2>1. <<>> \in Seq(Seq(Nat)) /\ NoText \in Seq(Nat) /\ <<>> \o NoText = NoText
    BY DEF NoText
  <2>2. FlattenSeq(Append(<<>>, NoText)) = FlattenSeq(<<>>) \o NoText
    BY <2>1, FlattenHere, Facts!FlattenAppend
  <2>3. Append(<<>>, NoText) = <<NoText>> /\ <<>> \o NoText = <<>>
    BY DEF NoText
  <2>4. FlattenSeq(<<>>) = <<>>
    BY FlattenHere, Facts!FlattenEmpty
  <2> QED BY <2>2, <2>3, <2>4
<1> QED BY <1>2, <1>3 DEF Says

\* A whole item says its number.
LEMMA SaysWhole ==
  ASSUME NEW kind \in {"reasoning", "call"}, NEW id \in Nat, NEW n \in Nat, NEW kinds, kind \in kinds
  PROVE  Says(Whole(kind, id, n), kinds) = <<n>>
<1>1. <<>> \in Seq(Seq(Nat)) /\ <<n>> \in Seq(Nat) /\ <<>> \o <<n>> = <<n>> /\ Append(<<>>, <<n>>) = <<(<<n>>)>>
  OBVIOUS
<1>2. FlattenSeq(Append(<<>>, <<n>>)) = FlattenSeq(<<>>) \o <<n>>
  BY <1>1, FlattenHere, Facts!FlattenAppend
<1>3. FlattenSeq(<<>>) = <<>>
  BY FlattenHere, Facts!FlattenEmpty
<1>4. FlattenSeq(<<(<<n>>)>>) = <<n>>
  BY <1>1, <1>2, <1>3
<1>5. Whole(kind, id, n).kind = kind /\ Whole(kind, id, n).body = <<(<<n>>)>>
  BY WholeType
<1> QED BY <1>4, <1>5 DEF Says

\* Parts with one more delta in the last say one more thing.
LEMMA SaysLonger ==
  ASSUME NEW body \in Seq(Seq(Nat)), body # <<>>, NEW n \in Nat
  PROVE  FlattenSeq(Longer(body, n)) = Append(FlattenSeq(body), n)
<1> DEFINE last == body[Len(body)]
<1>1. last \in Seq(Nat) /\ Append(last, n) \in Seq(Nat)
  OBVIOUS
<1> DEFINE front == Facts!Beginning(body)
           r == [body EXCEPT ![Len(body)] = Append(last, n)]
<1>2. front \in Seq(Seq(Nat)) /\ body = Append(front, last) /\ r = Append(front, Append(last, n))
  <2>1. r = [body EXCEPT ![Len(body)] = Append(last, n)]
    OBVIOUS
  <2> HIDE DEF r
  <2> QED BY <1>1, <2>1, Facts!FrontAndLast
<1>3. Longer(body, n) = Append(front, Append(last, n))
  BY <1>2 DEF Longer
<1> HIDE DEF last, front
<1>4. FlattenSeq(body) = FlattenSeq(front) \o last /\ FlattenSeq(front) \in Seq(Nat)
  <2>1. <<>> \o last = last
    BY <1>1
  <2>2. FlattenSeq(Append(front, last)) = FlattenSeq(front) \o last
    BY <1>1, <1>2, <2>1, FlattenHere, Facts!FlattenAppend
  <2>3. FlattenSeq(front) \in Seq(Nat)
    BY <1>2, FlattenHere, Facts!FlattenType
  <2> QED BY <1>2, <2>2, <2>3
<1>5. FlattenSeq(Longer(body, n)) = FlattenSeq(front) \o Append(last, n)
  <2>1. <<>> \o Append(last, n) = Append(last, n) /\ Append(last, n) \in Seq(Nat)
    BY <1>1
  <2>2. FlattenSeq(Append(front, Append(last, n))) = FlattenSeq(front) \o Append(last, n)
    BY <1>2, <2>1, FlattenHere, Facts!FlattenAppend
  <2> QED BY <1>3, <2>2
<1>6. FlattenSeq(front) \o Append(last, n) = Append(FlattenSeq(front) \o last, n)
  <2> DEFINE S == Nat
             p == FlattenSeq(front)
  <2>1. p \in Seq(S) /\ last \in Seq(S) /\ n \in S
    BY <1>1, <1>4
  <2> HIDE DEF S, p
  <2>2. p \o Append(last, n) = Append(p \o last, n)
    BY <2>1, Facts!ConcatAppend
  <2> QED BY <2>2 DEF p
<1> QED BY <1>4, <1>5, <1>6

\* What the output says, item by item.
LEMMA DeltasAppend ==
  ASSUME NEW q \in Seq(ItemType), NEW item \in ItemType, NEW kinds
  PROVE  /\ Deltas(q, kinds) \in Seq(Nat)
         /\ Deltas(Append(q, item), kinds) = Deltas(q, kinds) \o Says(item, kinds)
         /\ Deltas(<<>>, kinds) = <<>>
<1> DEFINE map(r) == [i \in 1 .. Len(r) |-> Says(r[i], kinds)]
<1>1. \A r : Deltas(r, kinds) = FlattenSeq(map(r))
  BY DEF Deltas, Says
<1>2. map(q) \in Seq(Seq(Nat)) /\ Says(item, kinds) \in Seq(Nat)
  BY SaysType
<1>3. map(Append(q, item)) = Append(map(q), Says(item, kinds))
  OBVIOUS
<1>4. map(<<>>) = <<>>
  OBVIOUS
<1>5. <<>> \o Says(item, kinds) = Says(item, kinds)
  BY <1>2
<1> HIDE DEF map
<1>6. FlattenSeq(map(q)) \in Seq(Nat)
  BY <1>2, FlattenHere, Facts!FlattenType
<1>7. FlattenSeq(Append(map(q), Says(item, kinds))) = FlattenSeq(map(q)) \o Says(item, kinds)
  BY <1>2, <1>5, FlattenHere, Facts!FlattenAppend
<1>8. FlattenSeq(<<>>) = <<>>
  BY FlattenHere, Facts!FlattenEmpty
<1> QED BY <1>1, <1>3, <1>4, <1>6, <1>7, <1>8

-----------------------------------------------------------------------------
(* What the output and the open item say, helper by helper.                *)

\* Sets of kinds that hold neither a stand-in nor the item that is not there.
Spoken(kinds) == "none" \notin kinds /\ "stand_in" \notin kinds

\* What the output and the open item say together.
Told(s, kinds) == Deltas(Append(s.output, s.open), kinds)

\* What the output tells, with the item that is open, is what the closed items tell
\* and then what the open one says.
LEMMA ToldIs ==
  ASSUME NEW s, s.output \in Seq(ItemType), s.open \in ItemType, NEW kinds, Spoken(kinds)
  PROVE  /\ Told(s, kinds) \in Seq(Nat)
         /\ Told(s, kinds) = Deltas(s.output, kinds) \o Says(s.open, kinds)
         /\ Says(s.open, kinds) = <<>> => Told(s, kinds) = Deltas(s.output, kinds)
         /\ s.open.kind \notin kinds => Told(s, kinds) = Deltas(s.output, kinds)
         /\ s.open.kind \in {"none", "stand_in"} => Told(s, kinds) = Deltas(s.output, kinds)
<1> DEFINE d == Deltas(s.output, kinds)
           x == Says(s.open, kinds)
<1>1. d \in Seq(Nat) /\ Told(s, kinds) = d \o x
  BY DeltasAppend DEF Told
<1>2. x \in Seq(Nat) /\ (s.open.kind \notin kinds => x = <<>>)
  BY SaysType
<1> HIDE DEF d, x
<1>3. d \o x \in Seq(Nat) /\ d \o <<>> = d
  BY <1>1, <1>2
<1> QED BY <1>1, <1>2, <1>3 DEF d, x, Spoken

\* close_open moves what was said to the output.
LEMMA CloseOpenTold ==
  ASSUME NEW s, Ready(s), NEW kinds, Spoken(kinds)
  PROVE  Deltas(CloseOpen(s).output, kinds) = Told(s, kinds)
<1>1. CloseOpen(s).output = IF IsOpen(s) THEN Append(s.output, s.open) ELSE s.output
  BY CloseOpenRead
<1>2. CASE IsOpen(s)
  BY <1>1, <1>2 DEF Told
<1>3. CASE ~IsOpen(s)
  BY <1>1, <1>3, ToldIs DEF IsOpen, Ready, Shape
<1> QED BY <1>2, <1>3

\* An item that opens has said nothing yet (open_reasoning, open_message).
LEMMA OpensTold ==
  ASSUME NEW s, Ready(s), NEW kinds, Spoken(kinds)
  PROVE  /\ Told(OpenReasoning(s), kinds) = Told(s, kinds)
         /\ Told(OpenMessage(s), kinds) = Told(s, kinds)
<1> DEFINE r == OpenReasoning(s)
           m == OpenMessage(s)
           c == CloseOpen(s)
<1>1. /\ Ready(r) /\ r.open.kind = "stand_in"
      /\ r.output = IF s.open.kind = "stand_in" THEN s.output ELSE c.output
      /\ Ready(m) /\ (MessageOpen(s) => m = s)
      /\ ~MessageOpen(s) => m.output = c.output /\ m.open.body = <<NoText>>
  BY OpensRead
<1>2. Deltas(c.output, kinds) = Told(s, kinds)
  BY CloseOpenTold
<1> HIDE DEF r, m, c
<1>3. Told(r, kinds) = Told(s, kinds)
  <2>1. Told(r, kinds) = Deltas(r.output, kinds)
    BY <1>1, ToldIs DEF Ready, Shape
  <2>2. s.open.kind = "stand_in" => Told(s, kinds) = Deltas(s.output, kinds)
    BY ToldIs DEF Ready, Shape
  <2> QED BY <1>1, <1>2, <2>1, <2>2
<1>4. Told(m, kinds) = Told(s, kinds)
  <2>1. CASE MessageOpen(s)
    BY <1>1, <2>1
  <2>2. CASE ~MessageOpen(s)
    <3>1. m.output \in Seq(ItemType) /\ m.open \in ItemType
      BY <1>1 DEF Ready, Shape
    <3>2. Says(m.open, kinds) = <<>>
      BY <1>1, <2>2, <3>1, SaysType
    <3>3. Told(m, kinds) = Deltas(m.output, kinds)
      BY <3>1, <3>2, ToldIs
    <3> QED BY <1>1, <1>2, <2>2, <3>3
  <2> QED BY <2>1, <2>2
<1> QED BY <1>3, <1>4 DEF r, m

\* A delta goes to the end of what the open item says (TextDelta, ThinkingDelta).
LEMMA ExtendTold ==
  ASSUME NEW s, Ready(s), IsOpen(s), NEW n \in Nat, NEW kinds, Spoken(kinds)
  PROVE  Told(Extend(s, n), kinds) = IF s.open.kind \in kinds THEN Append(Told(s, kinds), n) ELSE Told(s, kinds)
<1> DEFINE d == Extend(s, n)
<1>1. /\ Ready(d) /\ d.output = s.output
      /\ d.open = [s.open EXCEPT !.body = Longer(@, n)]
      /\ s.open.body \in Seq(Seq(Nat)) /\ s.open.body # <<>>
  BY ExtendRead
<1> HIDE DEF d
<1>2. /\ s.output \in Seq(ItemType) /\ s.open \in ItemType
      /\ d.output \in Seq(ItemType) /\ d.open \in ItemType
  BY <1>1 DEF Ready, Shape
<1>3. d.open.kind = s.open.kind /\ d.open.body = Longer(s.open.body, n)
  BY <1>1, <1>2 DEF ItemType
<1>4. CASE s.open.kind \notin kinds
  <2>1. Told(s, kinds) = Deltas(s.output, kinds)
    BY <1>2, <1>4, ToldIs
  <2>2. Told(d, kinds) = Deltas(d.output, kinds)
    BY <1>2, <1>3, <1>4, ToldIs
  <2> QED BY <1>1, <1>4, <2>1, <2>2 DEF d
<1>5. CASE s.open.kind \in kinds
  <2>1. FlattenSeq(Longer(s.open.body, n)) = Append(FlattenSeq(s.open.body), n)
    BY <1>1, SaysLonger
  <2>2. Says(d.open, kinds) = Append(Says(s.open, kinds), n)
    BY <1>3, <1>5, <2>1 DEF Says
  <2>3. Told(s, kinds) = Deltas(s.output, kinds) \o Says(s.open, kinds)
    BY <1>2, ToldIs
  <2>4. Told(d, kinds) = Deltas(s.output, kinds) \o Append(Says(s.open, kinds), n)
    BY <1>1, <1>2, <2>2, ToldIs
  <2> DEFINE S == Nat
             p == Deltas(s.output, kinds)
             q == Says(s.open, kinds)
  <2>5. p \in Seq(S) /\ q \in Seq(S) /\ n \in S
    BY <1>2, DeltasAppend, SaysType
  <2> HIDE DEF S, p, q
  <2>6. p \o Append(q, n) = Append(p \o q, n)
    BY <2>5, Facts!ConcatAppend
  <2> QED BY <1>5, <2>3, <2>4, <2>6 DEF p, q, d
<1> QED BY <1>4, <1>5

\* A new part says nothing (ThinkingBreak).
LEMMA NextPartTold ==
  ASSUME NEW s, Ready(s), NEW kinds, Spoken(kinds)
  PROVE  Told(NextPart(s), kinds) = Told(s, kinds)
<1> DEFINE d == NextPart(s)
<1>1. Ready(d) /\ d.output = s.output /\ d.open.kind = s.open.kind /\ (s.open.kind # "stand_in" => d = s)
  BY NextPartRead
<1> HIDE DEF d
<1>2. CASE s.open.kind = "stand_in"
  <2>1. Told(s, kinds) = Deltas(s.output, kinds)
    BY <1>2, ToldIs DEF Ready, Shape
  <2>2. Told(d, kinds) = Deltas(d.output, kinds)
    BY <1>1, <1>2, ToldIs DEF Ready, Shape
  <2> QED BY <1>1, <2>1, <2>2 DEF d
<1> QED BY <1>1, <1>2 DEF d

\* A call says its number (ToolCall).
LEMMA AddCallTold ==
  ASSUME NEW s, Ready(s), NEW n \in Nat, NEW kinds, Spoken(kinds)
  PROVE  Told(AddCall(s, n), kinds) = IF "call" \in kinds THEN Append(Told(s, kinds), n) ELSE Told(s, kinds)
<1> DEFINE d == AddCall(s, n)
           c == CloseOpen(s)
<1>1. Ready(d) /\ d.open = NoItem
  BY AddCallRead
<1>2. PICK id \in Nat : d.output = Append(c.output, Whole("call", id, n))
  BY AddCallRead
<1>3. Deltas(c.output, kinds) = Told(s, kinds) /\ Ready(c)
  BY CloseOpenTold, CloseOpenRead
<1> DEFINE item == Whole("call", id, n)
           p == Deltas(c.output, kinds)
<1> HIDE DEF d, c
<1>4. item \in ItemType /\ item.kind = "call"
  BY WholeType
<1>5. Says(item, kinds) = IF "call" \in kinds THEN <<n>> ELSE <<>>
  BY <1>4, SaysWhole DEF Says
<1> HIDE DEF item
<1>6. p \in Seq(Nat) /\ Deltas(d.output, kinds) = p \o Says(item, kinds)
  <2>1. c.output \in Seq(ItemType)
    BY <1>3 DEF Ready, Shape
  <2> QED BY <1>2, <1>4, <2>1, DeltasAppend DEF item
<1>7. Told(d, kinds) = Deltas(d.output, kinds)
  <2>1. d.open.kind = "none"
    BY <1>1 DEF NoItem
  <2> QED BY <1>1, <2>1, ToldIs DEF Ready, Shape
<1> HIDE DEF p
<1>8. p \o <<n>> = Append(p, n) /\ p \o <<>> = p
  BY <1>6
<1> QED BY <1>3, <1>5, <1>6, <1>7, <1>8 DEF p, d

\* No item that counts comes after the one that the slot names.
LateFree(s, kinds) ==
  /\ "message" \notin kinds
  /\ \A i \in 1 .. Len(s.output) : (s.slot # NoSlot /\ i > s.slot + 1) => s.output[i].kind \notin kinds

\* From the k-th item on none is of one of the kinds.
SilentFrom(q, k, kinds) == \A i \in k .. Len(q) : q[i].kind \notin kinds

\* What the output says once one item that says nothing is replaced by another,
\* and every item after it says nothing either.
LEMMA DeltasReplaced ==
  ASSUME NEW q \in Seq(ItemType), NEW k \in 1 .. Len(q), NEW item \in ItemType, NEW kinds,
         q[k].kind \notin kinds,
         item.kind \in kinds => SilentFrom(q, k, kinds)
  PROVE  Deltas(ReplaceAt(q, k, item), kinds) = Deltas(q, kinds) \o Says(item, kinds)
<1> DEFINE r == ReplaceAt(q, k, item)
           map(p) == [i \in 1 .. Len(p) |-> Says(p[i], kinds)]
           x == Says(item, kinds)
<1>1. \A p : Deltas(p, kinds) = FlattenSeq(map(p))
  BY DEF Deltas, Says
<1>2. map(q) \in Seq(Seq(Nat)) /\ Len(map(q)) = Len(q) /\ x \in Seq(Nat)
  BY SaysType
<1>3. map(r) = [map(q) EXCEPT ![k] = x]
  <2>1. Len(r) = Len(q) /\ \A i \in 1 .. Len(q) : r[i] = IF i = k THEN item ELSE q[i]
    BY DEF ReplaceAt
  <2>2. DOMAIN map(r) = 1 .. Len(q) /\ \A i \in 1 .. Len(q) : map(r)[i] = IF i = k THEN x ELSE map(q)[i]
    BY <2>1
  <2>3. map(r) = [i \in 1 .. Len(q) |-> map(r)[i]]
    BY <2>1
  <2>4. [map(q) EXCEPT ![k] = x] = [i \in 1 .. Len(q) |-> IF i = k THEN x ELSE map(q)[i]]
    <3>1. DOMAIN map(q) = 1 .. Len(q)
      OBVIOUS
    <3> HIDE DEF map, x
    <3> QED BY <3>1
  <2> HIDE DEF map, x
  <2> QED BY <2>2, <2>3, <2>4
<1>4. \A i \in 1 .. Len(q) : q[i].kind \notin kinds => map(q)[i] = <<>>
  BY DEF Says
<1> HIDE DEF map
<1>5. FlattenSeq(map(q)) \in Seq(Nat)
  BY <1>2, FlattenHere, Facts!FlattenType
<1>6. CASE item.kind \in kinds
  <2> DEFINE ss == map(q)
             rr == map(r)
  <2>1. Facts!EmptyFrom(ss, k)
    <3>1. k \in Nat /\ k >= 1 /\ Len(q) \in Nat /\ Len(ss) = Len(q) /\ k \in 1 .. Len(ss)
      BY <1>2
    <3>2. ASSUME NEW i \in k .. Len(q) PROVE map(q)[i] = <<>>
      <4>1. i \in 1 .. Len(q) /\ q[i].kind \notin kinds
        BY <1>6, <3>1 DEF SilentFrom
      <4> QED BY <1>4, <4>1
    <3> QED BY <3>1, <3>2 DEF Facts!EmptyFrom
  <2>2. ss \in Seq(Seq(Nat)) /\ rr = [ss EXCEPT ![k] = x]
    BY <1>2, <1>3
  <2> HIDE DEF ss, rr, x
  <2>3. rr = Facts!ReplaceAt(ss, k, x)
    BY <2>2, Zenon DEF Facts!ReplaceAt
  <2>4. FlattenSeq(rr) = FlattenSeq(ss) \o x
    <3> DEFINE S == Nat
    <3>1. ss \in Seq(Seq(S)) /\ x \in Seq(S)
      BY <1>2, <2>2
    <3> HIDE DEF S
    <3>2. Facts!FlattenSeq(Facts!ReplaceAt(ss, k, x)) = Facts!FlattenSeq(ss) \o x
      BY <2>1, <3>1, Facts!FlattenLate
    <3> QED BY <2>3, <3>2, FlattenHere
  <2> QED BY <1>1, <2>4 DEF ss, rr, x
<1>7. CASE item.kind \notin kinds
  <2>1. x = <<>> /\ map(q)[k] = <<>>
    BY <1>4, <1>7, SaysType
  <2>2. map(r) = map(q)
    <3> HIDE DEF x
    <3> QED BY <1>2, <1>3, <2>1
  <2>3. FlattenSeq(map(q)) \o <<>> = FlattenSeq(map(q))
    BY <1>5
  <2> QED BY <1>1, <2>1, <2>2, <2>3
<1> QED BY <1>6, <1>7 DEF r

\* A reasoning item of the backend's says its number, and comes last of what
\* counts if nothing that counts is behind the slot (Reasoning).
LEMMA AddReasoningTold ==
  ASSUME NEW s, Ready(s), NEW n \in Nat, NEW kinds, Spoken(kinds),
         "reasoning" \in kinds => LateFree(s, kinds)
  PROVE  Told(AddReasoning(s, n), kinds) =
           IF "reasoning" \in kinds THEN Append(Told(s, kinds), n) ELSE Told(s, kinds)
<1> DEFINE c == MessageClosed(s)
           d == AddReasoning(s, n)
           item == Whole("reasoning", 0, n)
           p == Deltas(c.output, kinds)
<1>1. /\ Ready(c) /\ Ready(d) /\ d.open = NoItem
      /\ d.output = IF IsOpen(c) \/ c.slot = NoSlot THEN Append(c.output, item)
                    ELSE [c.output EXCEPT ![c.slot + 1] = item]
      /\ c = IF MessageOpen(s) THEN CloseOpen(s) ELSE s
      /\ IsOpen(c) => c.open.kind = "stand_in"
  <2>1. c = MessageClosed(s)
    OBVIOUS
  <2> HIDE DEF c
  <2> QED BY <2>1, AddReasoningRead
<1>2. Deltas(CloseOpen(s).output, kinds) = Told(s, kinds)
  BY CloseOpenTold
<1>3. item \in ItemType /\ item.kind = "reasoning"
  <2>1. 0 \in Nat
    OBVIOUS
  <2> QED BY <2>1, WholeType
<1>4. Says(item, kinds) = IF "reasoning" \in kinds THEN <<n>> ELSE <<>>
  <2>1. 0 \in Nat
    OBVIOUS
  <2> QED BY <1>3, <2>1, SaysWhole DEF Says
<1>5. MessageOpen(s) => /\ c.slot = s.slot /\ c.output = Append(s.output, s.open) /\ IsOpen(s)
  <2>1. /\ CloseOpen(s).output = IF IsOpen(s) THEN Append(s.output, s.open) ELSE s.output
        /\ CloseOpen(s).slot = IF IsOpen(s) THEN SlotAfter(s) ELSE s.slot
    BY CloseOpenRead
  <2> HIDE DEF c
  <2> QED BY <1>1, <2>1 DEF MessageOpen, IsOpen, SlotAfter
<1> HIDE DEF c, d, item
<1>6. c.output \in Seq(ItemType) /\ p \in Seq(Nat)
  BY <1>1, DeltasAppend DEF Ready, Shape
<1>7. p = Told(s, kinds)
  <2>1. CASE MessageOpen(s)
    BY <1>1, <1>2, <2>1
  <2>2. CASE ~MessageOpen(s)
    <3>1. s.open.kind \in {"none", "stand_in"}
      BY <2>2 DEF MessageOpen, Ready, Shape, OpenOK, NoItem
    <3>2. Told(s, kinds) = Deltas(s.output, kinds)
      BY <3>1, ToldIs DEF Ready, Shape
    <3> QED BY <1>1, <2>2, <3>2
  <2> QED BY <2>1, <2>2
<1>8. Deltas(d.output, kinds) = p \o Says(item, kinds)
  <2>1. CASE IsOpen(c) \/ c.slot = NoSlot
    BY <1>1, <1>3, <1>6, <2>1, DeltasAppend
  <2>2. CASE ~IsOpen(c) /\ c.slot # NoSlot
    <3> DEFINE k == c.slot + 1
               q == c.output
    <3>1. k \in 1 .. Len(q) /\ q[k].kind = "stand_in" /\ q[k].kind \notin kinds /\ c.slot \in Nat
      <4>1. Len(q) \in Nat
        BY <1>6
      <4> QED BY <1>1, <2>2, <4>1 DEF Ready, Shape, Good, SlotOK, Spoken
    <3>2. "reasoning" \in kinds => \A i \in k .. Len(q) : q[i].kind \notin kinds
      <4> SUFFICES ASSUME "reasoning" \in kinds, NEW i \in k .. Len(q) PROVE q[i].kind \notin kinds
        OBVIOUS
      <4>1. CASE i = k
        BY <3>1, <4>1
      <4>2. CASE i # k
        <5>1. i > c.slot + 1 /\ i \in 1 .. Len(q)
          BY <3>1, <4>2
        <5>2. CASE MessageOpen(s)
          <6>1. s.output \in Seq(ItemType) /\ Len(s.output) \in Nat
            BY DEF Ready, Shape
          <6>2. CASE i <= Len(s.output)
            BY <1>5, <2>2, <5>1, <5>2, <6>1, <6>2 DEF LateFree
          <6>3. CASE i > Len(s.output)
            <7>1. q[i] = s.open
              BY <1>5, <5>1, <5>2, <6>1, <6>3
            <7> QED BY <5>2, <7>1 DEF LateFree, MessageOpen
          <6> QED BY <5>1, <6>1, <6>2, <6>3
        <5>3. CASE ~MessageOpen(s)
          BY <1>1, <2>2, <5>1, <5>3 DEF LateFree
        <5> QED BY <5>2, <5>3
      <4> QED BY <4>1, <4>2
    <3>3. d.output = [q EXCEPT ![k] = item] /\ q \in Seq(ItemType)
      BY <1>1, <1>6, <2>2
    <3> HIDE DEF k, q
    <3>4. Deltas(d.output, kinds) = Deltas(q, kinds) \o Says(item, kinds)
      <4>1. item.kind \in kinds => SilentFrom(q, k, kinds)
        BY <1>3, <3>2 DEF SilentFrom
      <4>2. d.output = ReplaceAt(q, k, item)
        BY <3>3 DEF ReplaceAt
      <4>3. Deltas(ReplaceAt(q, k, item), kinds) = Deltas(q, kinds) \o Says(item, kinds)
        BY <1>3, <3>1, <3>3, <4>1, DeltasReplaced
      <4> QED BY <4>2, <4>3
    <3> QED BY <3>4 DEF q
  <2> QED BY <2>1, <2>2
<1>9. Told(d, kinds) = Deltas(d.output, kinds)
  <2>1. d.open.kind = "none"
    BY <1>1 DEF NoItem
  <2> QED BY <1>1, <2>1, ToldIs DEF Ready, Shape
<1> HIDE DEF p
<1>10. p \o <<n>> = Append(p, n) /\ p \o <<>> = p
  BY <1>6
<1> QED BY <1>4, <1>7, <1>8, <1>9, <1>10 DEF d

\* The event is one whose number appears in items of these kinds.
Carries(e, kinds) ==
  \/ e.type = "text_delta" /\ "message" \in kinds
  \/ e.type = "tool_call" /\ "call" \in kinds
  \/ e.type = "reasoning" /\ "reasoning" \in kinds

\* What apply does to what the output and the open item say.
LEMMA ApplyTold ==
  ASSUME NEW s, Blank(s) \/ Streaming(s), NEW e, e.type \in EventTypes, e.n \in Nat,
         NEW kinds, Spoken(kinds), "reasoning" \in kinds => LateFree(s, kinds)
  PROVE  Told(Apply(s, e), kinds) = IF Carries(e, kinds) THEN Append(Told(s, kinds), e.n) ELSE Told(s, kinds)
<1> DEFINE c == EnsureCreated(s, e)
           d == Apply(s, e)
<1>1. ~Over(s)
  BY DEF Over, Blank, Streaming
<1>2. Streaming(c) /\ c.output = s.output /\ c.open = s.open /\ c.slot = s.slot
  BY EnsureCreatedRead
<1>3. /\ e.type = "started" => d = [c EXCEPT !.model = IF e.arg # "none" THEN e.arg ELSE @]
      /\ e.type = "thinking_delta" => d = Extend(OpenReasoning(c), e.n)
      /\ e.type = "thinking_break" => d = NextPart(c)
      /\ e.type = "reasoning" => d = AddReasoning(c, e.n)
      /\ e.type = "text_delta" => d = Extend(OpenMessage(c), e.n)
      /\ e.type = "tool_call" => d = AddCall(c, e.n)
      /\ e.type = "done" => d = Complete(c, e.arg)
      /\ e.type = "failed" => d = FailTurn(c)
      /\ e.type = "rate_limits" => d = c
  BY <1>1, ApplyIs
<1>4. Told(c, kinds) = Told(s, kinds)
  BY <1>2 DEF Told
<1> SUFFICES Told(d, kinds) = IF Carries(e, kinds) THEN Append(Told(c, kinds), e.n) ELSE Told(c, kinds)
  BY <1>4, Zenon DEF d
<1> HIDE DEF d
<1>5. "reasoning" \in kinds => LateFree(c, kinds)
  BY <1>2 DEF LateFree
<1> HIDE DEF c
<1>6. Ready(c)
  BY <1>2 DEF Streaming
<1>7. CASE e.type = "started"
  <2> DEFINE m == IF e.arg # "none" THEN e.arg ELSE c.model
  <2>1. d = [c EXCEPT !.model = m]
    BY <1>3, <1>7
  <2> HIDE DEF m
  <2>2. d.output = c.output /\ d.open = c.open
    BY <1>2, <2>1, NamedStreams
  <2> QED BY <1>7, <2>2 DEF Told, Carries
<1>8. CASE e.type = "thinking_delta"
  <2> DEFINE o == OpenReasoning(c)
  <2>1. Ready(o) /\ o.open.kind = "stand_in" /\ IsOpen(o)
    BY <1>6, OpensRead DEF IsOpen
  <2>2. Told(o, kinds) = Told(c, kinds)
    BY <1>6, OpensTold
  <2>3. d = Extend(o, e.n)
    BY <1>3, <1>8
  <2> HIDE DEF o
  <2>4. Told(Extend(o, e.n), kinds) = IF o.open.kind \in kinds THEN Append(Told(o, kinds), e.n) ELSE Told(o, kinds)
    BY <2>1, ExtendTold
  <2> QED BY <1>8, <2>1, <2>2, <2>3, <2>4 DEF Carries, Spoken
<1>9. CASE e.type = "thinking_break"
  BY <1>3, <1>6, <1>9, NextPartTold DEF Carries
<1>10. CASE e.type = "reasoning"
  BY <1>3, <1>5, <1>6, <1>10, AddReasoningTold DEF Carries
<1>11. CASE e.type = "text_delta"
  <2> DEFINE o == OpenMessage(c)
  <2>1. Ready(o) /\ o.open.kind = "message" /\ IsOpen(o)
    BY <1>6, OpensRead DEF IsOpen
  <2>2. Told(o, kinds) = Told(c, kinds)
    BY <1>6, OpensTold
  <2>3. d = Extend(o, e.n)
    BY <1>3, <1>11
  <2> HIDE DEF o
  <2>4. Told(Extend(o, e.n), kinds) = IF o.open.kind \in kinds THEN Append(Told(o, kinds), e.n) ELSE Told(o, kinds)
    BY <2>1, ExtendTold
  <2> QED BY <1>11, <2>1, <2>2, <2>3, <2>4 DEF Carries
<1>12. CASE e.type = "tool_call"
  BY <1>3, <1>6, <1>12, AddCallTold DEF Carries
<1>13. CASE e.type = "done"
  <2> DEFINE f == Complete(c, e.arg)
             p == CloseOpen(c)
  <2>1. f.output = p.output /\ f.open = NoItem
    BY <1>2, CompleteRead
  <2>2. Deltas(p.output, kinds) = Told(c, kinds) /\ Ready(p)
    BY <1>6, CloseOpenTold, CloseOpenRead
  <2>3. d = f
    BY <1>3, <1>13
  <2> HIDE DEF f, p
  <2>4. Told(f, kinds) = Deltas(f.output, kinds)
    <3>1. f.output \in Seq(ItemType) /\ f.open \in ItemType /\ f.open.kind \in {"none", "stand_in"}
      BY <2>1, <2>2 DEF Ready, Shape, NoItem, ItemType
    <3> QED BY <3>1, ToldIs
  <2> QED BY <1>13, <2>1, <2>2, <2>3, <2>4 DEF Carries
<1>14. CASE e.type = "failed"
  <2>1. d.output = c.output /\ d.open = c.open
    BY <1>2, <1>3, <1>14, FailTurnRead
  <2> QED BY <1>14, <2>1 DEF Told, Carries
<1>15. CASE e.type = "rate_limits"
  BY <1>3, <1>15 DEF Carries
<1> QED
  BY <1>7, <1>8, <1>9, <1>10, <1>11, <1>12, <1>13, <1>14, <1>15 DEF EventTypes

-----------------------------------------------------------------------------
(* Text and tool calls.                                                    *)

\* The numbers of one more event.
LEMMA HandledStep ==
  ASSUME IsSeq(given), NEW e, given' = Append(given, e), NEW types, NEW n, n = Len(given)
  PROVE  /\ Received(types)' = Received(types) \o (IF e.type \in types THEN <<e.n>> ELSE <<>>)
         /\ Handled(types)' = Handled(types) \o (IF e.type \in types /\ BeforeFailure(n + 1)'
                                                 THEN <<e.n>> ELSE <<>>)
         /\ BeforeFailure(n + 1)' <=> BeforeFailure(n) /\ e.type # "failed"
         /\ Len(given') = n + 1
<1> DEFINE one(g, i) == IF g[i].type \in types THEN <<g[i].n>> ELSE <<>>
           alive(g, i) == \A j \in 1 .. i : g[j].type # "failed"
           some(g, i) == IF g[i].type \in types /\ alive(g, i) THEN <<g[i].n>> ELSE <<>>
           r == [i \in 1 .. n |-> one(given, i)]
           rr == [i \in 1 .. n + 1 |-> one(given', i)]
           h == [i \in 1 .. n |-> some(given, i)]
           hh == [i \in 1 .. n + 1 |-> some(given', i)]
<1>1. /\ n \in Nat /\ Len(given') = n + 1 /\ given'[n + 1] = e
      /\ \A i \in 1 .. n : given'[i] = given[i]
  BY AppendFacts
<1>2. Received(types) = FlattenSeq(r) /\ Handled(types) = FlattenSeq(h)
  BY DEF Received, Handled, BeforeFailure
<1>3. Received(types)' = FlattenSeq(rr) /\ Handled(types)' = FlattenSeq(hh)
  BY <1>1 DEF Received, Handled, BeforeFailure
<1>4. \A i \in 1 .. n : one(given', i) = one(given, i) /\ (alive(given', i) <=> alive(given, i))
  BY <1>1
<1>5. Facts!OneMore(r, rr, n) /\ Facts!OneMore(h, hh, n)
  <2>1. /\ r = [i \in 1 .. n |-> r[i]] /\ rr = [i \in 1 .. n + 1 |-> rr[i]]
        /\ h = [i \in 1 .. n |-> h[i]] /\ hh = [i \in 1 .. n + 1 |-> hh[i]]
    OBVIOUS
  <2>2. \A i \in 1 .. n : rr[i] = r[i] /\ hh[i] = h[i]
    <3>1. \A i \in 1 .. n : i \in 1 .. n + 1
      BY <1>1
    <3> QED BY <1>4, <3>1
  <2> HIDE DEF r, rr, h, hh
  <2> QED BY <2>1, <2>2 DEF Facts!OneMore
<1>6. n + 1 \in 1 .. n + 1 /\ rr[n + 1] = one(given', n + 1) /\ hh[n + 1] = some(given', n + 1)
  BY <1>1
<1>7. <<>> \o rr[n + 1] = rr[n + 1] /\ <<>> \o hh[n + 1] = hh[n + 1]
  <2>1. \A x : <<>> \o <<x>> = <<x>> /\ <<>> \o <<>> = <<>>
    OBVIOUS
  <2> QED BY <1>6, <2>1
<1>9. BeforeFailure(n + 1)' <=> alive(given', n + 1)
  BY DEF BeforeFailure
<1>10. alive(given', n + 1) <=> alive(given, n) /\ e.type # "failed"
  <2>1. \A i \in 1 .. n + 1 : i \in 1 .. n \/ i = n + 1
    BY <1>1
  <2>2. \A i \in 1 .. n : i \in 1 .. n + 1
    BY <1>1
  <2> QED BY <1>1, <1>6, <2>1, <2>2
<1>11. one(given', n + 1) = IF e.type \in types THEN <<e.n>> ELSE <<>>
  BY <1>1
<1>12. some(given', n + 1) = IF e.type \in types /\ alive(given', n + 1) THEN <<e.n>> ELSE <<>>
  BY <1>1
<1>13. BeforeFailure(n) <=> alive(given, n)
  BY DEF BeforeFailure
<1> HIDE DEF one, some, alive, r, rr, h, hh
<1>14. FlattenSeq(rr) = FlattenSeq(r) \o rr[n + 1] /\ FlattenSeq(hh) = FlattenSeq(h) \o hh[n + 1]
  <2> QED BY <1>1, <1>5, <1>7, FlattenHere, Facts!FlattenOneMore
<1> QED BY <1>1, <1>2, <1>3, <1>6, <1>9, <1>10, <1>11, <1>12, <1>13, <1>14

\* The kinds of NothingLost, and the events that items of some of them say.
Text == {"message", "call"}
TypesOf(kinds) ==
  (IF "message" \in kinds THEN {"text_delta"} ELSE {}) \cup (IF "call" \in kinds THEN {"tool_call"} ELSE {})

\* Until a failure every text and every call is in the output, and what comes after
\* one is not handled.
TextInv(kinds) ==
  /\ Told(st, kinds) \in Seq(Nat)
  /\ Told(st, kinds) = Handled(TypesOf(kinds))
  /\ st.failed = TRUE <=> ~BeforeFailure(Len(given))

\* Until the turn has failed, what each event says goes to the end of what was
\* said before; afterwards nothing is said.
LEMMA TextSteps ==
  ASSUME NEW kinds \in SUBSET Text
  PROVE  /\ Init => TextInv(kinds)
         /\ ClientInv /\ TextInv(kinds) /\ [Next]_vars => TextInv(kinds)'
<1>0. Spoken(kinds)
  BY DEF Spoken, Text
<1>1. ASSUME Init PROVE TextInv(kinds)
  <2>1. st.output = <<>> /\ st.open = NoItem /\ st.failed = FALSE /\ given = <<>>
    BY <1>1 DEF Init, TurnInit, NewState
  <2>2. Handled(TypesOf(kinds)) = <<>>
    <3>1. Handled(TypesOf(kinds)) = FlattenSeq(<<>>)
      BY <2>1 DEF Handled
    <3> QED BY <3>1, FlattenHere, Facts!FlattenEmpty
  <2>3. st.output \in Seq(ItemType) /\ st.open \in ItemType /\ st.open.kind = "none"
    BY <2>1 DEF NoItem, ItemType
  <2>4. Told(st, kinds) = <<>>
    <3>1. Told(st, kinds) = Deltas(st.output, kinds)
      BY <1>0, <2>3, ToldIs
    <3>2. Deltas(<<>>, kinds) = <<>>
      BY <2>1, <2>3, DeltasAppend
    <3> QED BY <2>1, <3>1, <3>2
  <2>5. BeforeFailure(Len(given))
    BY <2>1 DEF BeforeFailure
  <2> QED BY <2>1, <2>2, <2>4, <2>5 DEF TextInv
<1>2. ASSUME ClientInv, TextInv(kinds), [Next]_vars PROVE TextInv(kinds)'
  <2>1. ASSUME NEW u \in Upstream, Render(u) PROVE TextInv(kinds)'
    <3> DEFINE e == MapOne(u)
               n == Len(given)
               types == TypesOf(kinds)
    <3>1. /\ e.type \in EventTypes /\ e.n \in Nat
          /\ given' = Append(given, e) /\ st' = Apply(st, e)
          /\ Over(st) => st' = st /\ st.failed = TRUE
          /\ ~Over(st) => st.failed = FALSE /\ (Blank(st) \/ Streaming(st))
      BY <1>2, <2>1, RenderStep
    <3> HIDE DEF e
    <3>0. /\ e.type \in types => e.type # "failed"
          /\ Carries(e, kinds) <=> e.type \in types
      <4>1. "reasoning" \notin kinds
        BY DEF Text
      <4>2. e.type \in types <=> ((e.type = "text_delta" /\ "message" \in kinds)
                                  \/ (e.type = "tool_call" /\ "call" \in kinds))
        BY DEF TypesOf
      <4> QED BY <4>1, <4>2 DEF Carries
    <3>2. /\ Handled(types)' = Handled(types) \o (IF e.type \in types /\ (BeforeFailure(n) /\ e.type # "failed")
                                                  THEN <<e.n>> ELSE <<>>)
          /\ BeforeFailure(Len(given))' <=> BeforeFailure(n) /\ e.type # "failed"
      <4> SUFFICES ASSUME NEW m, m = n
                   PROVE  /\ Handled(types)' = Handled(types) \o (IF e.type \in types /\ (BeforeFailure(m) /\ e.type # "failed")
                                                  THEN <<e.n>> ELSE <<>>)
                          /\ BeforeFailure(Len(given))' <=> BeforeFailure(m) /\ e.type # "failed"
        BY Zenon
      <4>1. /\ Handled(types)' = Handled(types) \o (IF e.type \in types /\ BeforeFailure(m + 1)'
                                                  THEN <<e.n>> ELSE <<>>)
            /\ BeforeFailure(m + 1)' <=> BeforeFailure(m) /\ e.type # "failed"
            /\ Len(given') = m + 1
        <5> HIDE DEF types
        <5> QED BY <1>2, <3>1, HandledStep DEF ClientInv
      <4> QED BY <4>1 DEF BeforeFailure
    <3>3. Told(st, kinds) \in Seq(Nat) /\ Told(st, kinds) = Handled(types)
      BY <1>2 DEF TextInv
    <3>4. Told(st', kinds) = IF ~Over(st) /\ e.type \in types THEN Append(Told(st, kinds), e.n) ELSE Told(st, kinds)
      <4>1. CASE Over(st)
        BY <3>1, <4>1
      <4>2. CASE ~Over(st)
        <5>1. "reasoning" \in kinds => LateFree(st, kinds)
          BY DEF Text
        <5>2. Told(st', kinds) = IF Carries(e, kinds) THEN Append(Told(st, kinds), e.n) ELSE Told(st, kinds)
          BY <1>0, <3>1, <4>2, <5>1, ApplyTold
        <5> HIDE DEF types
        <5> QED BY <3>0, <4>2, <5>2
      <4> QED BY <4>1, <4>2
    <3>5. st'.failed = TRUE <=> Over(st) \/ e.type = "failed"
      <4>1. CASE Over(st)
        BY <3>1, <4>1
      <4>2. CASE ~Over(st)
        <5>1. /\ e.type \notin {"done", "failed"} => Streaming(st')
              /\ e.type = "done" => st'.failed = FALSE
              /\ e.type = "failed" => st'.failed = TRUE
          BY <3>1, <4>2, ApplyRead
        <5> QED BY <4>2, <5>1 DEF Streaming
      <4> QED BY <4>1, <4>2
    <3>6. Over(st) <=> ~BeforeFailure(n)
      BY <1>2, <3>1 DEF TextInv, Over
    <3>7. Told(st, kinds) \o <<e.n>> = Append(Told(st, kinds), e.n) /\ Told(st, kinds) \o <<>> = Told(st, kinds)
          /\ Append(Told(st, kinds), e.n) \in Seq(Nat)
      BY <3>1, <3>3
    <3>8. Told(st', kinds) \in Seq(Nat) /\ Told(st', kinds) = Handled(types)'
      <4> HIDE DEF types
      <4> QED BY <3>0, <3>2, <3>3, <3>4, <3>6, <3>7
    <3>9. st'.failed = TRUE <=> ~BeforeFailure(Len(given))'
      BY <3>2, <3>5, <3>6
    <3>10. Told(st, kinds)' = Told(st', kinds)
      BY DEF Told, Deltas, Text
    <3> QED BY <3>8, <3>9, <3>10 DEF TextInv
  <2>2. ASSUME NEW u \in Upstream, Absorb(u) PROVE TextInv(kinds)'
    <3>1. st' = st /\ given' = given
      BY <2>2 DEF Absorb, Send
    <3> QED BY <1>2, <3>1 DEF TextInv, Told, Deltas, Handled, BeforeFailure, Text
  <2>3. CASE UNCHANGED vars
    BY <1>2, <2>3 DEF vars, turnVars, TextInv, Told, Deltas, Handled, BeforeFailure, Text
  <2> QED BY <1>2, <2>1, <2>2, <2>3 DEF Next
<1> QED BY <1>1, <1>2

\* Whatever the order of the backend's events, text and tool calls appear in the
\* output completely and in the order in which they came (open_message,
\* close_open, ToolCall).
THEOREM LosesNothing == Spec => []NothingLost
<1>1. TextInv(Text) => NothingLost
  <2>1. TypesOf(Text) = {"text_delta", "tool_call"}
    BY DEF TypesOf, Text
  <2> QED BY <2>1 DEF TextInv, NothingLost, Told, Text
<1>2. /\ Init => TextInv(Text)
      /\ ClientInv /\ TextInv(Text) /\ [Next]_vars => TextInv(Text)'
  BY TextSteps
<1> QED BY <1>1, <1>2, ClientSteps, PTL DEF Spec

\* The kind of the backend's own reasoning items.
Thoughts == {"reasoning"}

\* Where the reconstruction is, while the backend's reasoning item is closed,
\* open or late: nowhere, open, or at the slot; and nothing that the backend
\* would have to finish later comes after it.
Reasoned(s, t) ==
  /\ s.open.kind = "stand_in" <=> t = "open"
  /\ s.slot # NoSlot <=> t = "late"
  /\ \A i \in 1 .. Len(s.output) : s.output[i].kind = "stand_in" => i = s.slot + 1
  /\ LateFree(s, Thoughts)

\* What the backend's reasoning item is after an event.
After(e, t) ==
  CASE e.type = "thinking_delta" -> "open"
    [] e.type = "reasoning" -> "closed"
    [] e.type \in {"text_delta", "tool_call"} /\ t = "open" -> "late"
    [] OTHER -> t

\* The states that a reasoning item of the backend can be in.
ThinkingOK(t) == t \in {"closed", "open", "late"}

\* Only the output, the slot and the kind of the open item count.
LEMMA SameReasoned ==
  ASSUME NEW s, NEW t, Reasoned(s, t), NEW d, d.output = s.output, d.slot = s.slot,
         d.open.kind = "stand_in" <=> s.open.kind = "stand_in"
  PROVE  Reasoned(d, t)
  BY DEF Reasoned, LateFree

\* An item of another kind may come later.
LEMMA LaterReasoned ==
  ASSUME NEW s, NEW t, Reasoned(s, t), t # "open", s.output \in Seq(ItemType), NEW item \in ItemType,
         item.kind \in {"message", "call"},
         NEW d, d.output = Append(s.output, item), d.slot = s.slot, d.open.kind # "stand_in"
  PROVE  Reasoned(d, t)
<1>1. /\ Len(s.output) \in Nat /\ Len(d.output) = Len(s.output) + 1
      /\ \A i \in 1 .. Len(d.output) : i \in 1 .. Len(s.output) \/ i = Len(s.output) + 1
      /\ \A i \in 1 .. Len(s.output) : d.output[i] = s.output[i]
      /\ d.output[Len(s.output) + 1] = item
  OBVIOUS
<1> QED BY <1>1 DEF Reasoned, LateFree, Thoughts

\* A reconstruction that is closed before the backend's item has come is parked
\* at the slot (close_open).
LEMMA CloseOpenReasoned ==
  ASSUME NEW s, Ready(s), NEW t, ThinkingOK(t), Reasoned(s, t)
  PROVE  Reasoned(CloseOpen(s), IF t = "open" THEN "late" ELSE t)
<1> DEFINE c == CloseOpen(s)
<1>1. /\ c.open = NoItem
      /\ c.output = IF IsOpen(s) THEN Append(s.output, s.open) ELSE s.output
      /\ c.slot = IF IsOpen(s) THEN SlotAfter(s) ELSE s.slot
  BY CloseOpenRead
<1> HIDE DEF c
<1>2. c.open.kind # "stand_in" /\ s.output \in Seq(ItemType) /\ s.open \in ItemType /\ Len(s.output) \in Nat
  BY <1>1 DEF NoItem, Ready, Shape
<1>3. CASE ~IsOpen(s)
  <2>1. s.open.kind # "stand_in"
    BY <1>3 DEF IsOpen
  <2>2. t # "open"
    BY <2>1 DEF Reasoned
  <2>3. Reasoned(c, t)
    BY <1>1, <1>2, <1>3, <2>1, SameReasoned
  <2> QED BY <2>2, <2>3 DEF c
<1>4. CASE s.open.kind = "message"
  <2>1. t # "open" /\ IsOpen(s)
    BY <1>4 DEF Reasoned, IsOpen
  <2>2. c.output = Append(s.output, s.open) /\ c.slot = s.slot
    BY <1>1, <1>4, <2>1 DEF SlotAfter
  <2>3. Reasoned(c, t)
    BY <1>2, <1>4, <2>1, <2>2, LaterReasoned
  <2> QED BY <2>1, <2>3 DEF c
<1>5. CASE s.open.kind = "stand_in"
  <2>1. t = "open" /\ s.slot = NoSlot /\ IsOpen(s)
    BY <1>5 DEF Reasoned, IsOpen
  <2>2. c.output = Append(s.output, s.open) /\ c.slot = Len(s.output)
    BY <1>1, <1>5, <2>1 DEF SlotAfter, Here
  <2>3. /\ Len(c.output) = Len(s.output) + 1
        /\ \A i \in 1 .. Len(c.output) : i \in 1 .. Len(s.output) \/ i = Len(s.output) + 1
        /\ \A i \in 1 .. Len(s.output) : c.output[i] = s.output[i]
    BY <1>2, <2>2
  <2>4. \A i \in 1 .. Len(s.output) : s.output[i].kind # "stand_in"
    BY <1>2, <2>1 DEF Reasoned, NoSlot
  <2>5. Reasoned(c, "late")
    BY <1>2, <2>2, <2>3, <2>4 DEF Reasoned, LateFree, Thoughts, NoSlot
  <2> QED BY <2>1, <2>5 DEF c
<1> QED BY <1>3, <1>4, <1>5 DEF Ready, Shape, OpenOK, IsOpen, NoItem

\* The backend's own item takes the place of the reconstruction, wherever that
\* is (Reasoning).
LEMMA AddReasoningReasoned ==
  ASSUME NEW s, Ready(s), NEW t, ThinkingOK(t), Reasoned(s, t), NEW n \in Nat
  PROVE  Reasoned(AddReasoning(s, n), "closed")
<1> DEFINE c == MessageClosed(s)
           d == AddReasoning(s, n)
           item == Whole("reasoning", 0, n)
<1>1. /\ Ready(c) /\ Ready(d) /\ d.open = NoItem /\ d.slot = NoSlot
      /\ d.output = IF IsOpen(c) \/ c.slot = NoSlot THEN Append(c.output, item)
                    ELSE [c.output EXCEPT ![c.slot + 1] = item]
      /\ c = IF MessageOpen(s) THEN CloseOpen(s) ELSE s
      /\ IsOpen(c) => c.open.kind = "stand_in"
  <2>1. c = MessageClosed(s)
    OBVIOUS
  <2> HIDE DEF c
  <2> QED BY <2>1, AddReasoningRead
<1>2. item \in ItemType /\ item.kind = "reasoning"
  <2>1. 0 \in Nat
    OBVIOUS
  <2> QED BY <2>1, WholeType
<1>3. Reasoned(CloseOpen(s), IF t = "open" THEN "late" ELSE t)
  BY CloseOpenReasoned
<1> HIDE DEF c, d, item
<1>4. Reasoned(c, t)
  <2>1. CASE MessageOpen(s)
    <3>1. t # "open"
      BY <2>1 DEF Reasoned, MessageOpen
    <3> QED BY <1>1, <1>3, <2>1, <3>1
  <2>2. CASE ~MessageOpen(s)
    BY <1>1, <2>2
  <2> QED BY <2>1, <2>2
<1>5. c.output \in Seq(ItemType) /\ Len(c.output) \in Nat /\ d.open.kind # "stand_in"
  BY <1>1 DEF Ready, Shape, NoItem
<1>6. \A i \in 1 .. Len(d.output) : d.output[i].kind # "stand_in"
  <2>1. CASE c.slot = NoSlot
    <3>1. \A i \in 1 .. Len(c.output) : c.output[i].kind # "stand_in"
      BY <1>4, <1>5, <2>1 DEF Reasoned, NoSlot
    <3>2. d.output = Append(c.output, item)
      BY <1>1, <2>1
    <3>3. \A i \in 1 .. Len(d.output) : i \in 1 .. Len(c.output) \/ i = Len(c.output) + 1
      BY <1>5, <3>2
    <3> QED BY <1>2, <1>5, <3>1, <3>2, <3>3
  <2>2. CASE c.slot # NoSlot
    <3>1. t = "late" /\ c.open.kind # "stand_in" /\ ~IsOpen(c)
      BY <1>1, <1>4, <2>2 DEF Reasoned
    <3>2. d.output = [c.output EXCEPT ![c.slot + 1] = item]
      BY <1>1, <2>2, <3>1
    <3>3. Len(d.output) = Len(c.output) /\ \A i \in 1 .. Len(c.output) : d.output[i] = IF i = c.slot + 1 THEN item ELSE c.output[i]
      BY <1>5, <3>2
    <3> QED BY <1>2, <1>4, <3>3 DEF Reasoned
  <2> QED BY <2>1, <2>2
<1>7. Reasoned(d, "closed")
  BY <1>1, <1>5, <1>6 DEF Reasoned, LateFree, Thoughts
<1> QED BY <1>7 DEF d

\* Every event of a backend that streams in order leaves the reconstruction where
\* the backend's item wants it; only a failure may leave it behind (apply).
LEMMA ApplyReasoned ==
  ASSUME NEW s, Blank(s) \/ Streaming(s), NEW e, e.type \in EventTypes, e.type # "failed", e.n \in Nat,
         NEW t, ThinkingOK(t), Reasoned(s, t),
         e.type = "thinking_delta" => t # "late", e.type = "done" => t = "closed"
  PROVE  Reasoned(Apply(s, e), After(e, t))
<1> DEFINE c == EnsureCreated(s, e)
           d == Apply(s, e)
           p == CloseOpen(c)
<1>1. ~Over(s)
  BY DEF Over, Blank, Streaming
<1>2. Streaming(c) /\ c.output = s.output /\ c.open = s.open /\ c.slot = s.slot
  BY EnsureCreatedRead
<1>3. /\ e.type = "started" => d = [c EXCEPT !.model = IF e.arg # "none" THEN e.arg ELSE @]
      /\ e.type = "thinking_delta" => d = Extend(OpenReasoning(c), e.n)
      /\ e.type = "thinking_break" => d = NextPart(c)
      /\ e.type = "reasoning" => d = AddReasoning(c, e.n)
      /\ e.type = "text_delta" => d = Extend(OpenMessage(c), e.n)
      /\ e.type = "tool_call" => d = AddCall(c, e.n)
      /\ e.type = "done" => d = Complete(c, e.arg)
      /\ e.type = "rate_limits" => d = c
  BY <1>1, ApplyIs
<1> SUFFICES Reasoned(d, After(e, t))
  BY Zenon DEF d
<1> HIDE DEF d, c
<1>4. Reasoned(c, t)
  BY <1>2, SameReasoned
<1>5. Ready(c) /\ c.output \in Seq(ItemType) /\ OpenOK(c.open)
  BY <1>2 DEF Streaming, Ready, Shape
<1>6. /\ Reasoned(p, IF t = "open" THEN "late" ELSE t) /\ Ready(p) /\ p.open = NoItem /\ p.open.kind # "stand_in"
      /\ p.output \in Seq(ItemType)
      /\ p.output = IF IsOpen(c) THEN Append(c.output, c.open) ELSE c.output
      /\ p.slot = IF IsOpen(c) THEN SlotAfter(c) ELSE c.slot
  BY <1>4, <1>5, CloseOpenReasoned, CloseOpenRead DEF NoItem, Ready, Shape
<1>7. CASE e.type = "started"
  <2> DEFINE m == IF e.arg # "none" THEN e.arg ELSE c.model
  <2>1. d = [c EXCEPT !.model = m]
    BY <1>3, <1>7
  <2> HIDE DEF m
  <2>2. d.output = c.output /\ d.open = c.open /\ d.slot = c.slot
    BY <1>2, <2>1, NamedStreams
  <2>3. Reasoned(d, t)
    BY <1>4, <2>2, SameReasoned
  <2> QED BY <1>7, <2>3 DEF After
<1>8. CASE e.type = "thinking_delta"
  <2> DEFINE o == OpenReasoning(c)
             f == Extend(o, e.n)
  <2>1. /\ Ready(o) /\ o.open.kind = "stand_in" /\ IsOpen(o)
        /\ o.output = IF c.open.kind = "stand_in" THEN c.output ELSE p.output
        /\ o.slot = IF c.open.kind = "stand_in" THEN c.slot ELSE NoSlot
    BY <1>5, OpensRead DEF IsOpen
  <2>2. d = f
    BY <1>3, <1>8
  <2> HIDE DEF o, p
  <2>3. /\ f.output = o.output /\ f.slot = o.slot
        /\ f.open = [o.open EXCEPT !.body = Longer(@, e.n)]
    BY <2>1, ExtendRead
  <2>4. o.open \in ItemType
    BY <2>1 DEF Ready, Shape
  <2> HIDE DEF f
  <2>5. d.open.kind = "stand_in" /\ d.output = o.output /\ d.slot = o.slot
    BY <2>1, <2>2, <2>3, <2>4 DEF ItemType
  <2>6. CASE c.open.kind = "stand_in"
    <3>1. t = "open" /\ Reasoned(d, t)
      <4>1. Reasoned(d, t)
        BY <1>4, <2>1, <2>5, <2>6, SameReasoned
      <4> QED BY <1>4, <2>6, <4>1 DEF Reasoned
    <3> QED BY <1>8, <3>1 DEF After
  <2>7. CASE c.open.kind # "stand_in"
    <3>1. t = "closed"
      BY <1>4, <1>8, <2>7 DEF Reasoned, ThinkingOK
    <3>2. p.slot = NoSlot /\ \A i \in 1 .. Len(p.output) : p.output[i].kind # "stand_in"
      <4>1. Len(p.output) \in Nat
        BY <1>6
      <4> QED BY <1>6, <3>1, <4>1 DEF Reasoned, NoSlot
    <3>3. Reasoned(d, "open")
      BY <2>1, <2>5, <2>7, <3>2 DEF Reasoned, LateFree, Thoughts
    <3> QED BY <1>8, <3>3 DEF After
  <2> QED BY <2>6, <2>7
<1>9. CASE e.type = "thinking_break"
  <2>1. d.output = c.output /\ d.slot = c.slot /\ d.open.kind = c.open.kind
    BY <1>3, <1>5, <1>9, NextPartRead
  <2>2. Reasoned(d, t)
    BY <1>4, <2>1, SameReasoned
  <2> QED BY <1>9, <2>2 DEF After
<1>10. CASE e.type = "reasoning"
  <2>1. Reasoned(AddReasoning(c, e.n), "closed")
    BY <1>4, <1>5, AddReasoningReasoned
  <2> QED BY <1>3, <1>10, <2>1 DEF After
<1>11. CASE e.type = "text_delta"
  <2> DEFINE o == OpenMessage(c)
             f == Extend(o, e.n)
  <2>1. /\ Ready(o) /\ o.open.kind = "message" /\ IsOpen(o)
        /\ MessageOpen(c) => o = c
        /\ ~MessageOpen(c) => o.output = p.output /\ o.slot = p.slot
    BY <1>5, OpensRead DEF IsOpen
  <2>2. d = f
    BY <1>3, <1>11
  <2> HIDE DEF o, p
  <2>3. /\ f.output = o.output /\ f.slot = o.slot
        /\ f.open = [o.open EXCEPT !.body = Longer(@, e.n)]
    BY <2>1, ExtendRead
  <2>4. o.open \in ItemType
    BY <2>1 DEF Ready, Shape
  <2> HIDE DEF f
  <2>5. d.open.kind # "stand_in" /\ d.output = o.output /\ d.slot = o.slot
    BY <2>1, <2>2, <2>3, <2>4 DEF ItemType
  <2>6. CASE MessageOpen(c)
    <3>1. c.open.kind # "stand_in" /\ t # "open"
      BY <1>4, <2>6 DEF MessageOpen, Reasoned
    <3>2. Reasoned(d, t)
      BY <1>4, <2>1, <2>5, <2>6, <3>1, SameReasoned
    <3> QED BY <1>11, <3>1, <3>2 DEF After
  <2>7. CASE ~MessageOpen(c)
    <3>1. Reasoned(d, IF t = "open" THEN "late" ELSE t)
      BY <1>6, <2>1, <2>5, <2>7, SameReasoned
    <3> QED BY <1>11, <3>1 DEF After
  <2> QED BY <2>6, <2>7
<1>12. CASE e.type = "tool_call"
  <2> DEFINE f == AddCall(c, e.n)
  <2>1. f.open = NoItem /\ f.slot = p.slot
    BY <1>5, AddCallRead
  <2>2. PICK id \in Nat : f.output = Append(p.output, Whole("call", id, e.n))
    BY <1>5, AddCallRead
  <2>3. d = f
    BY <1>3, <1>12
  <2> DEFINE item == Whole("call", id, e.n)
             v == IF t = "open" THEN "late" ELSE t
  <2>4. item \in ItemType /\ item.kind = "call"
    BY WholeType
  <2>5. v # "open" /\ Reasoned(p, v)
    BY <1>6
  <2> HIDE DEF f, p, item, v
  <2>6. d.open.kind # "stand_in" /\ d.output = Append(p.output, item) /\ d.slot = p.slot
    BY <2>1, <2>2, <2>3 DEF NoItem, item
  <2>7. Reasoned(d, v)
    BY <1>6, <2>4, <2>5, <2>6, LaterReasoned
  <2> QED BY <1>12, <2>7 DEF After, v
<1>13. CASE e.type = "done"
  <2> DEFINE f == Complete(c, e.arg)
  <2>1. f.output = p.output /\ f.open = NoItem /\ f.slot = p.slot
    BY <1>2, CompleteRead
  <2>2. d = f
    BY <1>3, <1>13
  <2> HIDE DEF f, p
  <2>3. Reasoned(d, t)
    BY <1>6, <1>13, <2>1, <2>2, SameReasoned DEF NoItem
  <2> QED BY <1>13, <2>3 DEF After
<1>14. CASE e.type = "rate_limits"
  BY <1>3, <1>4, <1>14 DEF After
<1> QED
  BY <1>7, <1>8, <1>9, <1>10, <1>11, <1>12, <1>13, <1>14 DEF EventTypes

-----------------------------------------------------------------------------
(* Reasoning that can be replayed.                                         *)

\* The turn has ended well.
Completed(s) == s.sent # <<>> /\ Last(s.sent).name = "completed"

\* While a backend that keeps the order has not failed, its reasoning items are
\* in the output and the reconstruction is where they need it; when the turn is
\* complete none of them is missing.
ReasonInv ==
  /\ ThinkingOK(thinking) /\ orderly \in BOOLEAN
  /\ (orderly /\ st.failed = FALSE) =>
       Deltas(st.output, Thoughts) = Received({"reasoning"}) /\ Reasoned(st, thinking)
  /\ Completed(st) => st.failed = FALSE /\ (orderly => thinking = "closed")

\* In a state that goes on, nothing that a reasoning item said is still open.
LEMMA ThoughtsTold ==
  ASSUME NEW s, s.output \in Seq(ItemType), s.open \in ItemType, OpenOK(s.open)
  PROVE  Told(s, Thoughts) = Deltas(s.output, Thoughts) /\ Told(s, Thoughts) \in Seq(Nat)
<1>1. Spoken(Thoughts) /\ s.open.kind \notin Thoughts
  BY DEF Spoken, Thoughts, OpenOK, NoItem
<1> QED BY <1>1, ToldIs

\* The invariant about reasoning is inductive, beside those of the client and the end.
LEMMA ReasonSteps ==
  /\ Init => ReasonInv
  /\ ClientInv /\ EndInv /\ ReasonInv /\ [Next]_vars => ReasonInv'
<1>0. Spoken(Thoughts)
  BY DEF Spoken, Thoughts
<1>1. ASSUME Init PROVE ReasonInv
  <2>1. /\ st.output = <<>> /\ st.open = NoItem /\ st.slot = NoSlot /\ st.failed = FALSE /\ st.sent = <<>>
        /\ given = <<>> /\ thinking = "closed" /\ orderly = TRUE
    BY <1>1 DEF Init, TurnInit, NewState
  <2>2. Received({"reasoning"}) = <<>>
    <3>1. Received({"reasoning"}) = FlattenSeq(<<>>)
      BY <2>1 DEF Received
    <3> QED BY <3>1, FlattenHere, Facts!FlattenEmpty
  <2>3. Deltas(<<>>, Thoughts) = <<>>
    <3>1. <<>> \in Seq(ItemType) /\ NoItem \in ItemType
      BY DEF NoItem, ItemType
    <3> QED BY <3>1, DeltasAppend
  <2>4. Reasoned(st, "closed")
    BY <2>1 DEF Reasoned, LateFree, Thoughts, NoItem
  <2> QED BY <2>1, <2>2, <2>3, <2>4 DEF ReasonInv, ThinkingOK, Completed
<1>2. ASSUME ClientInv, EndInv, ReasonInv, [Next]_vars PROVE ReasonInv'
  <2>0. ReasonInv' <=> /\ ThinkingOK(thinking') /\ orderly' \in BOOLEAN
                       /\ (orderly' /\ st'.failed = FALSE) =>
                            Deltas(st'.output, Thoughts) = Received({"reasoning"})' /\ Reasoned(st', thinking')
                       /\ Completed(st') => st'.failed = FALSE /\ (orderly' => thinking' = "closed")
    BY DEF ReasonInv, ThinkingOK, Deltas, Thoughts, Reasoned, LateFree, Completed
  <2>1. ASSUME NEW u \in Upstream, Render(u) PROVE ReasonInv'
    <3> DEFINE e == MapOne(u)
    <3>1. /\ e.type \in EventTypes /\ e.n \in Nat
          /\ given' = Append(given, e) /\ st' = Apply(st, e)
          /\ Over(st) => st' = st /\ st.failed = TRUE
          /\ ~Over(st) => st.failed = FALSE /\ (Blank(st) \/ Streaming(st))
      BY <1>2, <2>1, RenderStep
    <3>2. /\ thinking' = ThinkingAfter(u) /\ orderly' = (orderly /\ InOrder(u)) /\ phase # "over"
      BY <2>1 DEF Render, Send, Sendable
    <3>3. /\ e.type # "failed" => ThinkingAfter(u) = After(e, thinking)
          /\ InOrder(u) => /\ e.type = "thinking_delta" => thinking # "late"
                           /\ e.type = "done" => thinking = "closed"
      BY <2>1 DEF Render, Upstream, Content, Final, Silent, MapOne, Event, ThinkingAfter, After, InOrder
    <3>4. ThinkingOK(ThinkingAfter(u))
      BY <1>2 DEF ReasonInv, ThinkingOK, ThinkingAfter
    <3> HIDE DEF e
    <3>5. CASE Over(st)
      BY <1>2, <2>0, <3>1, <3>2, <3>4, <3>5 DEF ReasonInv
    <3>6. CASE ~Over(st)
      <4>1. /\ e.type \notin {"done", "failed"} => Streaming(st')
            /\ e.type = "done" => st'.failed = FALSE /\ st'.open = NoItem /\ st'.output \in Seq(ItemType)
            /\ e.type = "failed" => st'.failed = TRUE /\ Last(st'.sent).name = "failed"
        BY <3>1, <3>6, ApplyRead
      <4>2. Talking(st, st.model)
        BY <1>2, <3>1, <3>2, <3>6 DEF EndInv
      <4>3. e.type \notin {"done", "failed"} => ~Ended(st')
        <5>1. e.type \notin {"done", "failed"} => Talking(st', ModelAfter(e, st.model))
          BY <3>1, <4>2, ApplyTalks
        <5> QED BY <5>1, TalkingGoesOn
      <4>4. Completed(st') => e.type = "done"
        BY <3>1, <4>1, <4>3 DEF Completed, Ended, Ends
      <4>5. Completed(st') => st'.failed = FALSE /\ (orderly' => thinking' = "closed")
        BY <3>2, <3>3, <4>1, <4>4 DEF After
      <4>6. ASSUME orderly', st'.failed = FALSE
            PROVE  Deltas(st'.output, Thoughts) = Received({"reasoning"})' /\ Reasoned(st', thinking')
        <5>1. orderly /\ InOrder(u) /\ e.type # "failed" /\ st.failed = FALSE
          BY <1>2, <3>1, <3>2, <3>6, <4>1, <4>6 DEF ReasonInv
        <5>2. Deltas(st.output, Thoughts) = Received({"reasoning"}) /\ Reasoned(st, thinking) /\ ThinkingOK(thinking)
          BY <1>2, <5>1 DEF ReasonInv
        <5>3. Reasoned(st', thinking')
          BY <3>1, <3>2, <3>3, <3>6, <5>1, <5>2, ApplyReasoned
        <5>4. LateFree(st, Thoughts)
          BY <5>2 DEF Reasoned
        <5>5. Told(st', Thoughts) = IF Carries(e, Thoughts) THEN Append(Told(st, Thoughts), e.n) ELSE Told(st, Thoughts)
          BY <1>0, <3>1, <3>6, <5>4, ApplyTold
        <5>6. Told(st, Thoughts) = Deltas(st.output, Thoughts) /\ Told(st, Thoughts) \in Seq(Nat)
          <6>1. st.output \in Seq(ItemType) /\ st.open \in ItemType
            BY <3>1, <3>6, StreamingMatches
          <6>2. OpenOK(st.open)
            BY <3>1, <3>6 DEF Blank, Streaming, Ready, Shape, OpenOK
          <6> QED BY <6>1, <6>2, ThoughtsTold
        <5>7. Told(st', Thoughts) = Deltas(st'.output, Thoughts)
          <6> DEFINE r == st'
          <6>1. \/ Streaming(r)
                \/ r.open = NoItem /\ r.output \in Seq(ItemType)
            BY <4>1, <5>1
          <6> HIDE DEF r
          <6>2. r.output \in Seq(ItemType) /\ r.open \in ItemType /\ OpenOK(r.open)
            <7>1. CASE Streaming(r)
              <8>1. r.output \in Seq(ItemType) /\ r.open \in ItemType
                BY <7>1, StreamingMatches
              <8>2. OpenOK(r.open)
                BY <7>1 DEF Blank, Streaming, Ready, Shape, OpenOK
              <8> QED BY <8>1, <8>2
            <7>2. CASE r.open = NoItem /\ r.output \in Seq(ItemType)
              BY <7>2 DEF NoItem, ItemType, OpenOK
            <7> QED BY <6>1, <7>1, <7>2
          <6>3. Told(r, Thoughts) = Deltas(r.output, Thoughts)
            BY <6>2, ThoughtsTold
          <6> QED BY <6>3 DEF r
        <5>8. Received({"reasoning"})' = Received({"reasoning"}) \o (IF e.type = "reasoning" THEN <<e.n>> ELSE <<>>)
          <6> DEFINE types == {"reasoning"}
                     n == Len(given)
          <6>1. \A m : m = n => Received(types)' = Received(types) \o (IF e.type \in types THEN <<e.n>> ELSE <<>>)
            <7> HIDE DEF types
            <7> QED BY <1>2, <3>1, HandledStep DEF ClientInv
          <6> QED BY <6>1
        <5>9. Told(st, Thoughts) \o <<e.n>> = Append(Told(st, Thoughts), e.n) /\ Told(st, Thoughts) \o <<>> = Told(st, Thoughts)
          BY <3>1, <5>6
        <5>10. Carries(e, Thoughts) <=> e.type = "reasoning"
          BY DEF Carries, Thoughts
        <5> QED BY <5>2, <5>3, <5>5, <5>6, <5>7, <5>8, <5>9, <5>10
      <4>7. orderly' \in BOOLEAN
        BY <1>2, <3>2 DEF ReasonInv
      <4> QED BY <2>0, <3>2, <3>4, <4>5, <4>6, <4>7
    <3> QED BY <3>5, <3>6
  <2>2. ASSUME NEW u \in Upstream, Absorb(u) PROVE ReasonInv'
    <3>1. /\ st' = st /\ given' = given /\ u = "server_model"
          /\ thinking' = ThinkingAfter(u) /\ orderly' = (orderly /\ InOrder(u))
      BY <2>2 DEF Absorb, Send, Silent
    <3>2. thinking' = thinking /\ orderly' = orderly
      BY <1>2, <3>1 DEF ThinkingAfter, InOrder, ReasonInv
    <3>3. Received({"reasoning"})' = Received({"reasoning"})
      BY <3>1 DEF Received
    <3> QED BY <1>2, <2>0, <3>1, <3>2, <3>3 DEF ReasonInv
  <2>3. CASE UNCHANGED vars
    <3>1. st' = st /\ given' = given /\ thinking' = thinking /\ orderly' = orderly
      BY <2>3 DEF vars, turnVars
    <3>2. Received({"reasoning"})' = Received({"reasoning"})
      BY <3>1 DEF Received
    <3> QED BY <1>2, <2>0, <3>1, <3>2 DEF ReasonInv
  <2> QED BY <1>2, <2>1, <2>2, <2>3 DEF Next
<1> QED BY <1>1, <1>2

\* When a turn of a backend that finishes one reasoning item before the next has
\* completed, each of its reasoning items is in the output once, verbatim and in
\* order, with no reconstruction next to it (Event::Reasoning, reasoning_slot).
THEOREM Replayable == Spec => []ReasoningReplayable
<1>1. ReasonInv => ReasoningReplayable
  <2> SUFFICES ASSUME ReasonInv, orderly, st.sent # <<>>, Last(st.sent).name = "completed"
               PROVE  Deltas(st.output, {"reasoning", "stand_in"}) = Received({"reasoning"})
    BY DEF ReasoningReplayable
  <2>1. /\ st.failed = FALSE /\ thinking = "closed" /\ Reasoned(st, thinking)
        /\ Deltas(st.output, Thoughts) = Received({"reasoning"})
    BY DEF ReasonInv, Completed
  <2>2. \A i \in 1 .. Len(st.output) : st.output[i].kind # "stand_in"
    BY <2>1 DEF Reasoned, NoSlot
  <2>3. Deltas(st.output, {"reasoning", "stand_in"}) = Deltas(st.output, Thoughts)
    BY <2>2 DEF Deltas, Thoughts
  <2> QED BY <2>1, <2>3
<1> QED BY <1>1, ClientSteps, EndSteps, ReasonSteps, PTL DEF Spec

-----------------------------------------------------------------------------
(* Both surfaces together.                                                 *)


ChatFacts == INSTANCE ChatStreamProofs WITH st <- chat

\* What apply makes of an event does not depend on the surface beside it (apply).
LEMMA SameApply ==
  ASSUME NEW s, NEW u
  PROVE  /\ Chat!Apply(s, Chat!MapOne(u)) = ChatFacts!Apply(s, ChatFacts!MapOne(u))
         /\ Chat!Send(u) <=> ChatFacts!Send(u)
<1>1. \A e : Chat!Apply(s, e) = ChatFacts!Apply(s, e)
  BY Zenon DEF Chat!Apply, ChatFacts!Apply, Chat!Over, ChatFacts!Over, Chat!Begin, ChatFacts!Begin,
     Chat!NamedModel, ChatFacts!NamedModel, Chat!AddText, ChatFacts!AddText,
     Chat!AddReasoning, ChatFacts!AddReasoning, Chat!AddBreak, ChatFacts!AddBreak,
     Chat!Separates, ChatFacts!Separates, Chat!Break, ChatFacts!Break,
     Chat!AddCall, ChatFacts!AddCall, Chat!CallIndex, ChatFacts!CallIndex,
     Chat!Complete, ChatFacts!Complete, Chat!Finish, ChatFacts!Finish,
     Chat!FailTurn, ChatFacts!FailTurn, Chat!DoneMark, ChatFacts!DoneMark, Chat!Bare, ChatFacts!Bare,
     Chat!Emit, ChatFacts!Emit, Chat!Chunk, ChatFacts!Chunk, Chat!OutputModel, ChatFacts!OutputModel
<1>2. Chat!MapOne(u) = ChatFacts!MapOne(u)
  BY Zenon DEF Chat!MapOne, ChatFacts!MapOne, Chat!Event, ChatFacts!Event
<1>3. Chat!Send(u) <=> ChatFacts!Send(u)
  BY Zenon DEF Chat!Send, ChatFacts!Send, Chat!MapOne, ChatFacts!MapOne, Chat!Event, ChatFacts!Event,
     Chat!Sendable, ChatFacts!Sendable, Chat!PhaseAfter, ChatFacts!PhaseAfter,
     Chat!ThinkingAfter, ChatFacts!ThinkingAfter, Chat!InOrder, ChatFacts!InOrder,
     Chat!Content, ChatFacts!Content, Chat!Final, ChatFacts!Final, Chat!Silent, ChatFacts!Silent
<1>4. QED
  BY <1>1, <1>2, <1>3, Zenon

\* Both together start and step as ChatStream does.
LEMMA ChatSteps ==
  /\ BothInit => ChatFacts!Init
  /\ [BothNext]_bothVars => [ChatFacts!Next]_(ChatFacts!vars)
<1>1. BothInit => ChatFacts!Init
  BY DEF BothInit, Chat!Init, ChatFacts!Init, Chat!NewState, ChatFacts!NewState,
     Chat!TurnInit, ChatFacts!TurnInit
<1>2. ASSUME NEW u \in Upstream
      PROVE  /\ Chat!Render(u) => ChatFacts!Render(u)
             /\ Chat!Absorb(u) => ChatFacts!Absorb(u)
  BY SameApply, Zenon DEF Chat!Render, ChatFacts!Render, Chat!Absorb, ChatFacts!Absorb,
     Chat!Silent, ChatFacts!Silent
<1>3. Upstream = ChatFacts!Upstream
  BY Zenon DEF Upstream, ChatFacts!Upstream, Content, ChatFacts!Content, Final, ChatFacts!Final,
     Silent, ChatFacts!Silent
<1>4. BothNext => ChatFacts!Next
  BY <1>2, <1>3, Zenon DEF BothNext, ChatFacts!Next
<1>5. UNCHANGED bothVars => UNCHANGED (ChatFacts!vars)
  BY DEF bothVars, vars, turnVars, ChatFacts!vars, ChatFacts!turnVars
<1>6. QED
  BY <1>1, <1>4, <1>5

\* One [DONE] ends every stream of chunks, that of a complete turn and that of a
\* failed one, and there is none before (apply).
THEOREM DoneSafe == BothSpec => []EndsWithDone
<1>1. ChatFacts!Spec => []ChatFacts!EndsWithDone
  BY TurnAssumption, ChatFacts!DoneSafe, PTL
<1>2. ChatFacts!EndsWithDone => EndsWithDone
  BY DEF EndsWithDone, Chat!EndsWithDone, ChatFacts!EndsWithDone, Chat!DoneMark, ChatFacts!DoneMark,
     Chat!Bare, ChatFacts!Bare
<1>3. QED
  BY <1>1, <1>2, ChatSteps, PTL DEF BothSpec, ChatFacts!Spec

\* Every chunk names the model the turn was routed to (Started, output_model).
THEOREM ModelSafe == BothSpec => []OneModel
<1>1. ChatFacts!Spec => []ChatFacts!OneModel
  BY TurnAssumption, ChatFacts!ModelSafe, PTL
<1>2. ChatFacts!OneModel => OneModel
  BY DEF OneModel, Chat!OneModel, ChatFacts!OneModel
<1>3. QED
  BY <1>1, <1>2, ChatSteps, PTL DEF BothSpec, ChatFacts!Spec

\* The operators with which a client reads the log are those of ChatStream.
LEMMA SameReading ==
  /\ \A kind : Chat!Streamed(kind) = ChatFacts!Streamed(kind)
  /\ Chat!StreamedCalls = ChatFacts!StreamedCalls
  /\ \A types : Chat!Handled(types) = ChatFacts!Handled(types)
  /\ \A i : Chat!Thought(i) = ChatFacts!Thought(i)
  /\ \A ss : Chat!FlattenSeq(ss) = ChatFacts!FlattenSeq(ss)
<1>1. \A ss : Chat!FlattenSeq(ss) = ChatFacts!FlattenSeq(ss)
  BY Zenon DEF Chat!FlattenSeq, ChatFacts!FlattenSeq
<1>2. \A kind : Chat!Streamed(kind) = ChatFacts!Streamed(kind)
  BY <1>1, Zenon DEF Chat!Streamed, ChatFacts!Streamed
<1>3. Chat!StreamedCalls = ChatFacts!StreamedCalls
  BY Zenon DEF Chat!StreamedCalls, ChatFacts!StreamedCalls, Chat!FoldLeft, ChatFacts!FoldLeft,
     Chat!MapThenFoldSet, ChatFacts!MapThenFoldSet, Chat!Max, ChatFacts!Max,
     Chat!ReadChunk, ChatFacts!ReadChunk, Chat!MergeCall, ChatFacts!MergeCall
<1>4. \A types : Chat!Handled(types) = ChatFacts!Handled(types)
  BY <1>1, Zenon DEF Chat!Handled, ChatFacts!Handled, Chat!BeforeFailure, ChatFacts!BeforeFailure
<1>5. \A i : Chat!Thought(i) = ChatFacts!Thought(i)
  BY Zenon DEF Chat!Thought, ChatFacts!Thought, Chat!BeforeFailure, ChatFacts!BeforeFailure,
     Chat!Break, ChatFacts!Break
<1>6. QED
  BY <1>1, <1>2, <1>3, <1>4, <1>5

\* A client of the stream gets the calls at the indices, the finish reason and the
\* model that the one-piece message has, and its text where that has no calls.
\* Reasoning is in the stream only (apply, response).
THEOREM StreamAgrees == BothSpec => []StreamAgreesWithResponse
<1>1. ChatFacts!Spec => []ChatFacts!StreamAgreesWithResponse
  BY TurnAssumption, ChatFacts!StreamAgrees, PTL
<1>2. ChatFacts!StreamAgreesWithResponse => StreamAgreesWithResponse
  BY SameReading, Zenon DEF StreamAgreesWithResponse, Chat!StreamAgreesWithResponse,
     ChatFacts!StreamAgreesWithResponse, Chat!Response, ChatFacts!Response,
     Chat!OutputModel, ChatFacts!OutputModel, Chat!Finish, ChatFacts!Finish
<1>3. QED
  BY <1>1, <1>2, ChatSteps, PTL DEF BothSpec, ChatFacts!Spec

\* The reasoning text of the chat surface is that of the turn up to its failure,
\* with a paragraph break for each boundary after the first text, wherever it
\* stands, and none in front (apply, ThinkingBreak).
THEOREM ReasoningSafe == BothSpec => []ReasoningText
<1>1. ChatFacts!Spec => []ChatFacts!ReasoningText
  BY TurnAssumption, ChatFacts!ReasoningSafe, PTL
<1>2. ChatFacts!ReasoningText => ReasoningText
  BY SameReading, Zenon DEF ReasoningText, Chat!ReasoningText, ChatFacts!ReasoningText
<1>3. QED
  BY <1>1, <1>2, ChatSteps, PTL DEF BothSpec, ChatFacts!Spec

-----------------------------------------------------------------------------
(* The two together.                                                       *)

\* Both surfaces have the same model, which the chat surface does not know before
\* the turn has started.
SameModel ==
  /\ st.model = ChatFacts!OutputModel(chat)
  /\ phase \in {"quota", "head"} => chat.model = "none"

\* What is known of each, and of both.
BothInv ==
  /\ ClientInv /\ EndInv /\ TextInv({"message"}) /\ TextInv({"call"})
  /\ ChatFacts!Inv /\ ChatFacts!SpeechInv
  /\ SameModel

\* The turn is the same for both.
LEMMA SameTurn ==
  /\ \A u : MapOne(u) = ChatFacts!MapOne(u)
  /\ \A types : Handled(types) = ChatFacts!Handled(types)
  /\ \A i : BeforeFailure(i) <=> ChatFacts!BeforeFailure(i)
  /\ \A ss : FlattenSeq(ss) = ChatFacts!FlattenSeq(ss)
<1>1. \A u : MapOne(u) = ChatFacts!MapOne(u)
  BY Zenon DEF MapOne, ChatFacts!MapOne, Event, ChatFacts!Event
<1>2. \A i : BeforeFailure(i) <=> ChatFacts!BeforeFailure(i)
  BY Zenon DEF BeforeFailure, ChatFacts!BeforeFailure
<1>3. \A ss : FlattenSeq(ss) = ChatFacts!FlattenSeq(ss)
  BY Zenon DEF FlattenSeq, ChatFacts!FlattenSeq
<1>4. \A types : Handled(types) = ChatFacts!Handled(types)
  BY <1>2, <1>3, Zenon DEF Handled, ChatFacts!Handled, BeforeFailure, ChatFacts!BeforeFailure
<1>5. QED
  BY <1>1, <1>2, <1>3, <1>4

\* A step of both is a step of each.
LEMMA EachSteps ==
  /\ BothInit => Init
  /\ [BothNext]_bothVars => [Next]_vars
<1>1. BothInit => Init
  BY DEF BothInit
<1>2. BothNext => Next
  BY DEF BothNext, Next
<1>3. UNCHANGED bothVars => UNCHANGED vars
  BY DEF bothVars
<1>4. QED
  BY <1>1, <1>2, <1>3

\* An event that names a model names it to both surfaces, and none of them hears
\* of it after a failure (Started).
LEMMA SameModelStep ==
  ASSUME BothInv, NEW u \in Upstream, Render(u), Chat!Render(u)
  PROVE  SameModel'
<1> DEFINE e == MapOne(u)
<1>1. st'.model = IF Over(st) THEN st.model ELSE ModelAfter(e, st.model)
  BY EndSteps DEF BothInv
<1>2. ChatFacts!Render(u) /\ u \in ChatFacts!Upstream /\ e = ChatFacts!MapOne(u)
  <2>1. ChatFacts!Render(u)
    BY SameApply, Zenon DEF Chat!Render, ChatFacts!Render, Chat!Silent, ChatFacts!Silent
  <2>2. Upstream = ChatFacts!Upstream
    BY Zenon DEF Upstream, ChatFacts!Upstream, Content, ChatFacts!Content, Final, ChatFacts!Final,
       Silent, ChatFacts!Silent
  <2>3. QED
    BY <2>1, <2>2, SameTurn
<1>3. phase' = PhaseAfter(u) /\ phase # "over" /\ (u = "quota" => e.type = "rate_limits")
  BY DEF Render, Send, Sendable, MapOne, Event
<1> HIDE DEF e
<1>4. /\ chat.failed = TRUE => chat' = chat
      /\ chat.failed = FALSE => chat'.model = IF e.type = "started" THEN e.arg ELSE chat.model
      /\ e.type = "started" => phase = "head" /\ e.arg \in ChatFacts!Models
  BY <1>2, TurnAssumption, ChatFacts!ModelStep DEF BothInv
<1>5. /\ st.failed \in BOOLEAN /\ chat.failed \in BOOLEAN
      /\ st.failed = TRUE <=> chat.failed = TRUE
  <2>1. st.failed = TRUE <=> ~BeforeFailure(Len(given))
    BY DEF BothInv, TextInv
  <2>2. chat.failed = FALSE <=> ChatFacts!BeforeFailure(Len(given))
    BY Zenon DEF BothInv, ChatFacts!SpeechInv
  <2>3. st.failed \in BOOLEAN
    BY DEF BothInv, EndInv
  <2>4. chat.failed \in BOOLEAN
    BY DEF BothInv, ChatFacts!SpeechInv, ChatFacts!Faithful, ChatFacts!State
  <2>5. QED
    BY <2>1, <2>2, <2>3, <2>4, SameTurn
<1>6. /\ st.model = IF chat.model = "none" THEN "requested" ELSE chat.model
      /\ phase \in {"quota", "head"} => chat.model = "none"
  BY DEF BothInv, SameModel, ChatFacts!OutputModel
<1>7. st'.model = IF chat'.model = "none" THEN "requested" ELSE chat'.model
  <2>1. CASE chat.failed = TRUE
    BY <1>1, <1>4, <1>5, <1>6, <2>1 DEF Over
  <2>2. CASE chat.failed = FALSE
    <3>1. st'.model = IF e.type = "started" /\ e.arg # "none" THEN e.arg ELSE st.model
      BY <1>1, <1>5, <2>2 DEF Over, ModelAfter
    <3>2. CASE e.type = "started"
      BY <1>4, <1>6, <2>2, <3>1, <3>2
    <3>3. CASE e.type # "started"
      BY <1>4, <1>6, <2>2, <3>1, <3>3
    <3>4. QED
      BY <3>2, <3>3
  <2>3. QED
    BY <1>5, <2>1, <2>2
<1>8. phase' \in {"quota", "head"} => u = "quota"
  BY <1>3 DEF PhaseAfter, Render, Send, Sendable, Final, Content, Silent, Upstream
<1>9. u = "quota" => phase = "quota"
  BY DEF Render, Send, Sendable, Final, Content
<1>10. phase' \in {"quota", "head"} => chat'.model = "none"
  <2>1. CASE chat.failed = TRUE
    BY <1>4, <1>6, <1>8, <1>9, <2>1
  <2>2. CASE chat.failed = FALSE
    BY <1>3, <1>4, <1>6, <1>8, <1>9, <2>2
  <2>3. QED
    BY <1>5, <2>1, <2>2
<1>11. QED
  BY <1>7, <1>10 DEF SameModel, ChatFacts!OutputModel

\* The invariant is inductive.
LEMMA BothSteps ==
  /\ BothInit => BothInv
  /\ BothInv /\ [BothNext]_bothVars => BothInv'
<1>0. {"message"} \in SUBSET Text /\ {"call"} \in SUBSET Text
  BY DEF Text
<1>1. ASSUME BothInit
      PROVE  BothInv
  <2>1. Init /\ ChatFacts!Init
    BY <1>1, EachSteps, ChatSteps
  <2>2. ClientInv /\ EndInv /\ TextInv({"message"}) /\ TextInv({"call"})
    BY <1>0, <2>1, ClientSteps, EndSteps, TextSteps
  <2>3. ChatFacts!Inv /\ ChatFacts!SpeechInv
    BY <2>1, TurnAssumption, ChatFacts!InvInit, ChatFacts!SpeechInit
  <2>4. st.model = "requested" /\ chat.model = "none"
    BY <2>1 DEF Init, NewState, ChatFacts!Init, ChatFacts!NewState
  <2>5. QED
    BY <2>2, <2>3, <2>4 DEF BothInv, SameModel, ChatFacts!OutputModel
<1>2. ASSUME BothInv, [BothNext]_bothVars
      PROVE  BothInv'
  <2>1. [Next]_vars /\ [ChatFacts!Next]_(ChatFacts!vars)
    BY <1>2, EachSteps, ChatSteps
  <2>2. ClientInv' /\ EndInv' /\ TextInv({"message"})' /\ TextInv({"call"})'
    BY <1>0, <1>2, <2>1, ClientSteps, EndSteps, TextSteps DEF BothInv
  <2>3. ChatFacts!Inv' /\ ChatFacts!SpeechInv'
    BY <1>2, <2>1, TurnAssumption, ChatFacts!InvNext, ChatFacts!SpeechSteps DEF BothInv
  <2>4. SameModel'
    <3>1. ASSUME NEW u \in Upstream, Render(u), Chat!Render(u)
          PROVE  SameModel'
      BY <1>2, <3>1, SameModelStep
    <3>2. ASSUME NEW u \in Upstream, Absorb(u), Chat!Absorb(u)
          PROVE  SameModel'
      <4>1. st' = st /\ chat' = chat /\ phase' = phase
        BY <3>2 DEF Absorb, Send, Chat!Absorb, Silent, PhaseAfter, Final
      <4>2. QED
        BY <1>2, <4>1 DEF BothInv, SameModel, ChatFacts!OutputModel
    <3>3. CASE UNCHANGED bothVars
      BY <1>2, <3>3 DEF bothVars, vars, turnVars, BothInv, SameModel, ChatFacts!OutputModel
    <3>4. QED
      BY <1>2, <3>1, <3>2, <3>3 DEF BothNext
  <2>5. QED
    BY <2>2, <2>3, <2>4 DEF BothInv
<1>3. QED
  BY <1>1, <1>2

\* A client gets the same text, the same tool calls, the same end and the same model
\* from either endpoint (ResponsesState, ChatResponseState).
THEOREM Agreement == BothSpec => []SurfacesAgree
<1>1. BothInv => SurfacesAgree
  <2> SUFFICES ASSUME BothInv
               PROVE  SurfacesAgree
    OBVIOUS
  <2> DEFINE items == Append(st.output, st.open)
  <2>1. TypesOf({"message"}) = {"text_delta"} /\ TypesOf({"call"}) = {"tool_call"}
    BY DEF TypesOf
  <2>2. /\ Deltas(items, {"message"}) = Handled({"text_delta"})
        /\ Deltas(items, {"call"}) = Handled({"tool_call"})
        /\ st.failed = TRUE <=> ~BeforeFailure(Len(given))
    BY <2>1 DEF BothInv, TextInv, Told
  <2>3. /\ chat.text = ChatFacts!Handled({"text_delta"})
        /\ ChatFacts!FlattenSeq(chat.calls) = ChatFacts!Handled({"tool_call"})
        /\ chat.failed = FALSE <=> ChatFacts!BeforeFailure(Len(given))
        /\ chat.stop # "none" <=> (phase = "over" /\ chat.failed = FALSE)
    BY Zenon DEF BothInv, ChatFacts!SpeechInv
  <2>4. /\ Deltas(items, {"message"}) = chat.text
        /\ Deltas(items, {"call"}) = FlattenSeq(chat.calls)
    BY <2>2, <2>3, SameTurn
  <2>5. st.failed \in BOOLEAN /\ chat.failed \in BOOLEAN
    <3>1. st.failed \in BOOLEAN
      BY DEF BothInv, EndInv
    <3>2. chat.failed \in BOOLEAN
      BY DEF BothInv, ChatFacts!SpeechInv, ChatFacts!Faithful, ChatFacts!State
    <3>3. QED
      BY <3>1, <3>2
  <2>6. st.failed = FALSE <=> chat.failed = FALSE
    BY <2>2, <2>3, <2>5, SameTurn
  <2>7. st.failed = chat.failed
    BY <2>5, <2>6
  <2>8. "completed" \in EndNames <=> chat.stop # "none"
    <3>1. "completed" \in EndNames <=> Sent(st, "completed")
      BY Zenon DEF EndNames, Sent
    <3>2. Sent(st, "completed") <=> (phase = "over" /\ st.failed = FALSE)
      BY DEF BothInv, EndInv
    <3>3. QED
      BY <2>3, <2>6, <3>1, <3>2
  <2>9. st.model = Chat!OutputModel(chat)
    BY DEF BothInv, SameModel, Chat!OutputModel, ChatFacts!OutputModel
  <2>10. QED
    BY <2>4, <2>7, <2>8, <2>9 DEF SurfacesAgree
<1>2. QED
  BY <1>1, BothSteps, PTL DEF BothSpec
=============================================================================

----------------------------- MODULE TurnMetrics -----------------------------
(***************************************************************************)
(* What /metrics counts.  The handler of a surface connects to the         *)
(* backend, opens a turn, lets its TurnRecorder watch the events on their  *)
(* way to the client, and closes the turn when the recorder is dropped:    *)
(* with the stream that owns it, or when a non-streaming handler returns.  *)
(* A stream is polled only while its client takes what it is sent, and no  *)
(* timeout ends one whose client does not.  Several handlers run at once;  *)
(* each visit to the counters is one critical section of Metrics::inner.   *)
(***************************************************************************)
EXTENDS Integers, Sequences, SequencesExt, FiniteSets

CONSTANTS
  Turns,  \* the turns that may be asked for
  Window  \* latency samples kept per band

ASSUME MetricsAssumption ==
  /\ IsFiniteSet(Turns)
  /\ Window \in Nat \ {0}

VARIABLES
  stage,     \* per turn: idle, connecting, open, counted (closed), refused, gone
  recorder,  \* per turn: its TurnRecorder, and the handler's view of the stream
  stalled,   \* open streams whose client does not take what it is sent
  metrics,   \* Inner
  closed     \* history: the turns in the order in which they were counted

vars == <<stage, recorder, stalled, metrics, closed>>

Stages == {"idle", "connecting", "open", "counted", "refused", "gone"}

\* Outcomes a backend's terminal event can set, and all that are counted.
Terminal == {"end_turn", "aborted", "failed"}
Outcomes == Terminal \cup {"dropped", "rejected"}

\* A recorder: the outcome it saw last, whether Done carried token usage, whether
\* a first token was seen; whether the quota event made of the response headers
\* is still to come; whether the client asked for a stream, and whether the
\* handler has read all it will.
Fresh(streaming) ==
  [outcome |-> "none", usage |-> FALSE, token |-> FALSE, quotaDue |-> TRUE,
   streaming |-> streaming, atEnd |-> FALSE]

\* usages stands for the sums of tokens and credits, of the process and by
\* model; totalMs stands for every band that gets a sample of each turn, ttftMs
\* for those that get one of the turns that have it.  The quota that is shown
\* is the subject of QuotaLimits.
NoMetrics ==
  [total |-> 0, inflight |-> 0, outcomes |-> [o \in Outcomes |-> 0], usages |-> 0,
   totalMs |-> <<>>, ttftMs |-> <<>>]

Init ==
  /\ stage = [t \in Turns |-> "idle"]
  /\ recorder = [t \in Turns |-> Fresh(FALSE)]
  /\ stalled = {}
  /\ metrics = NoMetrics
  /\ closed = <<>>

Move(t, from, to) == stage[t] = from /\ stage' = [stage EXCEPT ![t] = to]

Counted(m, outcome) == [m EXCEPT !.outcomes[outcome] = @ + 1]

\* Mutant: a full window loses a sample at the wrong end.
LosesNewest(buffer, t) == Append(IF Len(buffer) = Window THEN Front(buffer) ELSE buffer, t)

\* Mutant: a window that never loses a sample.
Grows(buffer, t) == Append(buffer, t)

\* push: a full window loses its oldest sample.
Push(buffer, t) == Append(IF Len(buffer) = Window THEN Tail(buffer) ELSE buffer, t)

-----------------------------------------------------------------------------
(* A request on its way to the backend.                                    *)

Connect(t) == Move(t, "idle", "connecting") /\ UNCHANGED <<recorder, stalled, metrics, closed>>

\* record_rejected: the backend refused before the first event.
Reject(t) ==
  /\ Move(t, "connecting", "refused")
  /\ metrics' = Counted([metrics EXCEPT !.total = @ + 1], "rejected")
  /\ UNCHANGED <<recorder, stalled, closed>>

\* The client hangs up before there is a turn: the handler is dropped.
Abandon(t) == Move(t, "connecting", "gone") /\ UNCHANGED <<recorder, stalled, metrics, closed>>

\* start_turn.
StartTurn(t) ==
  /\ Move(t, "connecting", "open")
  /\ metrics' = [metrics EXCEPT !.total = @ + 1, !.inflight = @ + 1]
  /\ \E streaming \in BOOLEAN : recorder' = [recorder EXCEPT ![t] = Fresh(streaming)]
  /\ UNCHANGED <<stalled, closed>>

-----------------------------------------------------------------------------
(* The stream of an open turn.                                             *)

\* The client of a stream stops taking what it is sent, the buffers in between
\* fill up, and the stream is not polled ...
Stall(t) ==
  /\ stage[t] = "open"
  /\ recorder[t].streaming
  /\ stalled' = stalled \cup {t}
  /\ UNCHANGED <<stage, recorder, metrics, closed>>

\* ... until it goes on.
Resume(t) ==
  /\ t \in stalled
  /\ stalled' = stalled \ {t}
  /\ UNCHANGED <<stage, recorder, metrics, closed>>

Reads(t) == stage[t] = "open" /\ ~recorder[t].atEnd /\ t \notin stalled

\* The quota of the response headers comes first (update_limits, which is
\* modelled in QuotaLimits).
ObserveQuota(t) ==
  /\ Reads(t)
  /\ recorder[t].quotaDue
  /\ recorder' = [recorder EXCEPT ![t].quotaDue = FALSE]
  /\ UNCHANGED <<stage, stalled, metrics, closed>>

\* Started, ThinkingBreak, Reasoning (no token) or text, thinking, a call.
ObserveContent(t) ==
  /\ Reads(t)
  /\ ~recorder[t].quotaDue
  /\ \E token \in BOOLEAN : recorder' = [recorder EXCEPT ![t].token = @ \/ token]
  /\ UNCHANGED <<stage, stalled, metrics, closed>>

\* Done ends the backend's stream.
ObserveDone(t) ==
  /\ Reads(t)
  /\ ~recorder[t].quotaDue
  /\ \E reason \in {"end_turn", "aborted"}, usage \in BOOLEAN :
       recorder' = [recorder EXCEPT
         ![t].outcome = reason, ![t].usage = usage, ![t].atEnd = TRUE]
  /\ UNCHANGED <<stage, stalled, metrics, closed>>

\* Failed ends it too, unless it stands for an item that cannot be serialised:
\* then the backend goes on, and only a non-streaming handler stops reading.
ObserveFailed(t) ==
  /\ Reads(t)
  /\ ~recorder[t].quotaDue
  /\ \E more \in BOOLEAN :
       recorder' = [recorder EXCEPT
         ![t].outcome = "failed",
         ![t].atEnd = ~more \/ ~recorder[t].streaming]
  /\ UNCHANGED <<stage, stalled, metrics, closed>>

\* Mutant: a recorder that saw no terminal event is not counted.
ClosedAs(t) == recorder[t].outcome

\* No terminal event seen: the client went away in the middle of the stream.
Outcome(t) == IF recorder[t].outcome = "none" THEN "dropped" ELSE recorder[t].outcome

\* saturating_sub.
InflightAfter(m) == IF m.inflight > 0 THEN m.inflight - 1 ELSE 0

\* finish_turn, when the recorder is dropped; what it had seen is kept here.
FinishTurn(t) ==
  /\ Move(t, "open", "counted")
  /\ metrics' = [Counted(metrics, Outcome(t)) EXCEPT
       !.inflight = InflightAfter(metrics),
       !.usages = IF recorder[t].usage THEN @ + 1 ELSE @,
       !.totalMs = Push(@, t),
       !.ttftMs = IF recorder[t].token THEN Push(@, t) ELSE @]
  /\ closed' = Append(closed, t)
  /\ stalled' = stalled \ {t}
  /\ UNCHANGED recorder

\* Mutant: a failed turn is kept.
KeptIfFailed(t) == recorder[t].atEnd /\ t \notin stalled /\ recorder[t].outcome # "failed"

\* The stream was read to its end, so the server or the handler lets go of it.
ReadOut(t) == recorder[t].atEnd /\ t \notin stalled

StreamEnds(t) == ReadOut(t) /\ FinishTurn(t)

\* The client hangs up: at any time, stalled or not, and also after the terminal
\* event.
HangUp(t) == FinishTurn(t)

-----------------------------------------------------------------------------
Next == \E t \in Turns :
  \/ Connect(t) \/ Reject(t) \/ Abandon(t) \/ StartTurn(t)
  \/ Stall(t) \/ Resume(t)
  \/ ObserveQuota(t) \/ ObserveContent(t) \/ ObserveDone(t) \/ ObserveFailed(t)
  \/ StreamEnds(t) \/ HangUp(t)

\* A stream of the backend comes to an end as long as it is read, and the server
\* drops a stream it has read to the end.  No client is assumed to go on reading,
\* or to hang up.
Fairness == \A t \in Turns :
  /\ WF_vars(ObserveQuota(t) \/ ObserveDone(t) \/ ObserveFailed(t))
  /\ WF_vars(StreamEnds(t))

Spec == Init /\ [][Next]_vars /\ Fairness

-----------------------------------------------------------------------------
(* Properties.                                                             *)

RecorderType ==
  [outcome : Terminal \cup {"none"}, usage : BOOLEAN, token : BOOLEAN,
   quotaDue : BOOLEAN, streaming : BOOLEAN, atEnd : BOOLEAN]

Band == {buffer \in Seq(Turns) : Len(buffer) <= Window}

MetricsType ==
  [total : Nat, inflight : Nat, outcomes : [Outcomes -> Nat], usages : Nat,
   totalMs : Band, ttftMs : Band]

\* The state is well formed, and no band outgrows its window, however long the
\* process runs (WINDOW).
TypeOK ==
  /\ stage \in [Turns -> Stages]
  /\ recorder \in [Turns -> RecorderType]
  /\ stalled \subseteq Turns
  /\ metrics \in MetricsType
  /\ closed \in Seq(Turns)

Open == {t \in Turns : stage[t] = "open"}
Asked == {t \in Turns : stage[t] \in {"open", "counted", "refused"}}
Metered == {t \in Turns : stage[t] = "counted" /\ recorder[t].usage}
LastSaid(o) == IF o = "dropped" THEN "none" ELSE o

CountedAs(o) ==
  IF o = "rejected" THEN {t \in Turns : stage[t] = "refused"}
  ELSE {t \in Turns : stage[t] = "counted" /\ recorder[t].outcome = LastSaid(o)}

\* A request is counted once: every turn that was opened or refused is in the
\* total, and it is in flight or under the one outcome that its stream said
\* last, "dropped" exactly if it ended without saying any.
\* Those that hung up while connecting leave no trace, and usage is summed over
\* the closed turns that reported it (start_turn, record_rejected, finish_turn).
CountersAgree ==
  /\ metrics.inflight = Cardinality(Open)
  /\ \A o \in Outcomes : metrics.outcomes[o] = Cardinality(CountedAs(o))
  /\ metrics.total = Cardinality(Asked)
  /\ metrics.usages = Cardinality(Metered)

\* The latest entries of s, as many as a window holds.
Latest(s) == SubSeq(s, IF Len(s) > Window THEN Len(s) - Window + 1 ELSE 1, Len(s))

\* The turns of s that saw a first token.
WithToken(s) == FlattenSeq([i \in 1 .. Len(s) |-> IF recorder[s[i]].token THEN <<s[i]>> ELSE <<>>])

\* However turns overlap, a band of latencies holds the samples of the turns
\* counted last, oldest first; a turn without a token has none in the band of
\* times to the first one (push, WINDOW).
WindowsHoldLatest ==
  /\ metrics.totalMs = Latest(closed)
  /\ metrics.ttftMs = Latest(WithToken(closed))

\* A turn whose client reads on, from some moment at least, does not stay in
\* flight for ever, whatever the clients of the other turns do (Drop for
\* TurnRecorder).
EveryTurnCounted == \A t \in Turns :
  <>[](t \notin stalled) => (stage[t] = "open" ~> stage[t] = "counted")
=============================================================================

-------------------------- MODULE TurnMetricsProofs --------------------------
(***************************************************************************)
(* Theorems about TurnMetrics, for any finite number of turns and any      *)
(* window: the bands never outgrow it, and every counter is the number of  *)
(* turns it claims to count.                                               *)
(***************************************************************************)
EXTENDS TurnMetrics, FiniteSetTheorems, TLAPS

\* push keeps a band within its window (push).
LEMMA PushInBand ==
  ASSUME NEW buffer \in Band, NEW t \in Turns
  PROVE  Push(buffer, t) \in Band
<1>1. CASE Len(buffer) = Window
  <2>1. buffer # <<>> /\ Tail(buffer) \in Seq(Turns) /\ Len(Tail(buffer)) = Len(buffer) - 1
    BY <1>1, MetricsAssumption DEF Band
  <2>2. QED
    BY <1>1, <2>1, MetricsAssumption DEF Band, Push
<1>2. CASE Len(buffer) # Window
  BY <1>2, MetricsAssumption DEF Band, Push
<1>3. QED
  BY <1>1, <1>2

\* Counting an outcome keeps the counters numbers (finish_turn).
LEMMA CountedType ==
  ASSUME NEW m \in MetricsType, NEW o \in Outcomes
  PROVE  /\ Counted(m, o) \in MetricsType
         /\ Counted(m, o).outcomes = [m.outcomes EXCEPT ![o] = @ + 1]
         /\ Counted(m, o).total = m.total
         /\ Counted(m, o).inflight = m.inflight
         /\ Counted(m, o).usages = m.usages
         /\ Counted(m, o).totalMs = m.totalMs
         /\ Counted(m, o).ttftMs = m.ttftMs
<1>1. [m.outcomes EXCEPT ![o] = @ + 1] \in [Outcomes -> Nat]
  BY DEF MetricsType
<1>2. Counted(m, o) = [m EXCEPT !.outcomes = [m.outcomes EXCEPT ![o] = @ + 1]]
  BY DEF Counted
<1>3. QED
  BY <1>1, <1>2 DEF MetricsType

\* The state is well formed and the bands are bounded, for ever.
THEOREM TypeCorrect == Spec => []TypeOK
<1> USE MetricsAssumption
<1>1. Init => TypeOK
  BY DEF Init, TypeOK, RecorderType, MetricsType, Stages, Fresh, Terminal, NoMetrics, Band
<1>2. TypeOK /\ [Next]_vars => TypeOK'
  <2> SUFFICES ASSUME TypeOK, [Next]_vars
               PROVE  TypeOK'
    OBVIOUS
  <2> USE DEF TypeOK, Stages, Terminal, Outcomes, Move
  <2>1. ASSUME NEW t \in Turns, Connect(t)
        PROVE  TypeOK'
    BY <2>1 DEF Connect
  <2>2. ASSUME NEW t \in Turns, Reject(t)
        PROVE  TypeOK'
    <3>1. [metrics EXCEPT !.total = @ + 1] \in MetricsType
      BY DEF MetricsType
    <3>2. metrics' \in MetricsType
      BY <2>2, <3>1, CountedType DEF Reject
    <3>3. QED
      BY <2>2, <3>2 DEF Reject, MetricsType
  <2>3. ASSUME NEW t \in Turns, Abandon(t)
        PROVE  TypeOK'
    BY <2>3 DEF Abandon
  <2>4. ASSUME NEW t \in Turns, StartTurn(t)
        PROVE  TypeOK'
    <3>1. \A streaming \in BOOLEAN : Fresh(streaming) \in RecorderType
      BY DEF Fresh, RecorderType
    <3>2. recorder' \in [Turns -> RecorderType]
      BY <2>4, <3>1 DEF StartTurn, RecorderType
    <3>3. metrics' \in MetricsType
      <4>1. metrics \in MetricsType /\ metrics.total + 1 \in Nat /\ metrics.inflight + 1 \in Nat
        BY DEF MetricsType
      <4>2. [metrics EXCEPT !.total = @ + 1, !.inflight = @ + 1] \in MetricsType
        BY <4>1 DEF MetricsType
      <4>3. QED
        BY <2>4, <4>2 DEF StartTurn
    <3>4. QED
      BY <2>4, <3>2, <3>3 DEF StartTurn, RecorderType, MetricsType
  <2>5. ASSUME NEW t \in Turns, ObserveContent(t)
        PROVE  TypeOK'
    <3>1. PICK token \in BOOLEAN :
            recorder' = [recorder EXCEPT ![t].token = @ \/ token]
      BY <2>5 DEF ObserveContent
    <3>2. recorder[t] \in RecorderType
      BY <2>5 DEF ObserveContent, RecorderType
    <3>3. [recorder[t] EXCEPT !.token = @ \/ token] \in RecorderType
      BY <3>2 DEF RecorderType
    <3>4. recorder' = [recorder EXCEPT ![t] = [recorder[t] EXCEPT !.token = @ \/ token]]
      BY <3>1
    <3>5. recorder' \in [Turns -> RecorderType]
      BY <3>3, <3>4 DEF RecorderType
    <3>6. QED
      BY <2>5, <3>5 DEF ObserveContent, RecorderType
  <2>6. ASSUME NEW t \in Turns, ObserveDone(t)
        PROVE  TypeOK'
    <3>1. PICK reason \in {"end_turn", "aborted"}, usage \in BOOLEAN :
            recorder' = [recorder EXCEPT
              ![t].outcome = reason, ![t].usage = usage, ![t].atEnd = TRUE]
      BY <2>6 DEF ObserveDone
    <3>2. recorder[t] \in RecorderType
      BY DEF RecorderType
    <3>3. [recorder[t] EXCEPT !.outcome = reason, !.usage = usage, !.atEnd = TRUE] \in RecorderType
      BY <3>2 DEF RecorderType
    <3>4. recorder' = [recorder EXCEPT ![t] =
            [recorder[t] EXCEPT !.outcome = reason, !.usage = usage, !.atEnd = TRUE]]
      BY <3>1
    <3>5. recorder' \in [Turns -> RecorderType]
      BY <3>3, <3>4 DEF RecorderType
    <3>6. QED
      BY <2>6, <3>5 DEF ObserveDone, RecorderType
  <2>7. ASSUME NEW t \in Turns, ObserveFailed(t)
        PROVE  TypeOK'
    <3>1. PICK more \in BOOLEAN :
            recorder' = [recorder EXCEPT
              ![t].outcome = "failed", ![t].atEnd = ~more \/ ~recorder[t].streaming]
      BY <2>7 DEF ObserveFailed
    <3>2. recorder[t] \in RecorderType
      BY DEF RecorderType
    <3>3. [recorder[t] EXCEPT !.outcome = "failed", !.atEnd = ~more \/ ~recorder[t].streaming]
            \in RecorderType
      BY <3>2 DEF RecorderType
    <3>4. recorder' = [recorder EXCEPT ![t] =
            [recorder[t] EXCEPT !.outcome = "failed", !.atEnd = ~more \/ ~recorder[t].streaming]]
      BY <3>1
    <3>5. recorder' \in [Turns -> RecorderType]
      BY <3>3, <3>4 DEF RecorderType
    <3>6. QED
      BY <2>7, <3>5 DEF ObserveFailed, RecorderType
  <2>8. ASSUME NEW t \in Turns, FinishTurn(t)
        PROVE  TypeOK'
    <3>1. /\ Push(metrics.totalMs, t) \in Band
          /\ Push(metrics.ttftMs, t) \in Band
      BY PushInBand DEF MetricsType
    <3>2. Outcome(t) \in Outcomes
      BY DEF Outcome, RecorderType
    <3>3. InflightAfter(metrics) \in Nat
      BY DEF InflightAfter, MetricsType
    <3>4. Counted(metrics, Outcome(t)) \in MetricsType
      BY <3>2, CountedType DEF MetricsType
    <3>5. metrics' \in MetricsType
      <4> DEFINE m == Counted(metrics, Outcome(t))
      <4>1. m.totalMs = metrics.totalMs /\ m.ttftMs = metrics.ttftMs /\ m.usages = metrics.usages
        BY <3>2, CountedType DEF MetricsType
      <4>2. metrics' = [m EXCEPT
              !.inflight = InflightAfter(metrics),
              !.usages = IF recorder[t].usage THEN metrics.usages + 1 ELSE metrics.usages,
              !.totalMs = Push(metrics.totalMs, t),
              !.ttftMs = IF recorder[t].token THEN Push(metrics.ttftMs, t) ELSE metrics.ttftMs]
        BY <2>8, <4>1 DEF FinishTurn
      <4> HIDE DEF m
      <4>3. /\ (IF recorder[t].token THEN Push(metrics.ttftMs, t) ELSE metrics.ttftMs) \in Band
            /\ (IF recorder[t].usage THEN metrics.usages + 1 ELSE metrics.usages) \in Nat
        BY <3>1 DEF MetricsType
      <4>4. m \in MetricsType
        BY <3>4 DEF m
      <4>5. QED
        BY <3>1, <3>3, <4>2, <4>3, <4>4 DEF MetricsType
    <3>6. QED
      BY <2>8, <3>5 DEF FinishTurn
  <2>9. ASSUME NEW t \in Turns, ObserveQuota(t)
        PROVE  TypeOK'
    <3>1. /\ recorder[t] \in RecorderType
          /\ [recorder[t] EXCEPT !.quotaDue = FALSE] \in RecorderType
          /\ recorder' = [recorder EXCEPT ![t] = [recorder[t] EXCEPT !.quotaDue = FALSE]]
      BY <2>9 DEF ObserveQuota, RecorderType
    <3>2. recorder' \in [Turns -> RecorderType]
      BY <3>1
    <3>3. metrics' \in MetricsType
      BY <2>9, <3>1 DEF ObserveQuota, RecorderType, MetricsType
    <3>4. QED
      BY <2>9, <3>2, <3>3 DEF ObserveQuota
  <2>10. ASSUME NEW t \in Turns, Stall(t) \/ Resume(t)
         PROVE  TypeOK'
    BY <2>10 DEF Stall, Resume
  <2>11. CASE UNCHANGED vars
    BY <2>11 DEF vars
  <2>12. QED
    BY <2>1, <2>2, <2>3, <2>4, <2>5, <2>6, <2>7, <2>8, <2>9, <2>10, <2>11
       DEF Next, StreamEnds, HangUp
<1>3. QED
  BY <1>1, <1>2, PTL DEF Spec

-----------------------------------------------------------------------------
(* The counters.                                                           *)

\* The sets that are counted are finite, and one more turn is one more.
LEMMA Countable ==
  ASSUME NEW S \in SUBSET Turns
  PROVE  /\ IsFiniteSet(S) /\ Cardinality(S) \in Nat
         /\ \A t \in Turns \ S : Cardinality(S \cup {t}) = Cardinality(S) + 1
         /\ \A t \in S : Cardinality(S) > 0 /\ Cardinality(S \ {t}) = Cardinality(S) - 1
<1>1. IsFiniteSet(S) /\ Cardinality(S) \in Nat
  BY FS_Subset, FS_CardinalityType, MetricsAssumption
<1>2. ASSUME NEW t \in Turns \ S
      PROVE  Cardinality(S \cup {t}) = Cardinality(S) + 1
  BY <1>1, FS_AddElement
<1>3. ASSUME NEW t \in S
      PROVE  Cardinality(S) > 0 /\ Cardinality(S \ {t}) = Cardinality(S) - 1
  <2>1. Cardinality(S \ {t}) = Cardinality(S) - 1 /\ IsFiniteSet(S \ {t})
    BY <1>1, FS_RemoveElement
  <2>2. Cardinality(S \ {t}) \in Nat
    BY <2>1, FS_CardinalityType
  <2>3. QED
    BY <1>1, <2>1, <2>2
<1>4. QED
  BY <1>1, <1>2, <1>3

\* A step that moves no turn into or out of a counted set keeps the agreement.
LEMMA SameSets ==
  ASSUME CountersAgree, Open' = Open, Asked' = Asked, Metered' = Metered,
         metrics'.total = metrics.total, metrics'.inflight = metrics.inflight,
         metrics'.outcomes = metrics.outcomes, metrics'.usages = metrics.usages,
         \A o \in Outcomes : CountedAs(o)' = CountedAs(o)
  PROVE  CountersAgree'
  BY DEF CountersAgree

\* Every request is counted once, under what its stream said last
\* (start_turn, record_rejected, finish_turn).
THEOREM CountersCorrect == Spec => []CountersAgree
<1>1. Init => CountersAgree
  <2> SUFFICES ASSUME Init
               PROVE  CountersAgree
    OBVIOUS
  <2>1. Open = {} /\ Asked = {} /\ Metered = {} /\ \A o \in Outcomes : CountedAs(o) = {}
    BY DEF Init, Open, Asked, Metered, CountedAs
  <2>2. QED
    BY <2>1, FS_EmptySet DEF Init, NoMetrics, CountersAgree
<1>2. TypeOK /\ CountersAgree /\ [Next]_vars => CountersAgree'
  <2> SUFFICES ASSUME TypeOK, CountersAgree, [Next]_vars
               PROVE  CountersAgree'
    OBVIOUS
  <2> USE DEF Open, Asked, Metered, CountedAs
  <2>0. stage \in [Turns -> Stages] /\ recorder \in [Turns -> RecorderType] /\ metrics \in MetricsType
    BY DEF TypeOK
  <2>1. ASSUME NEW t \in Turns, Connect(t)
        PROVE  CountersAgree'
    BY <2>0, <2>1, SameSets DEF Connect, Move
  <2>2. ASSUME NEW t \in Turns, Reject(t)
        PROVE  CountersAgree'
    <3>1. /\ t \notin Asked /\ t \notin CountedAs("rejected")
          /\ Open' = Open /\ Asked' = Asked \cup {t} /\ Metered' = Metered
          /\ CountedAs("rejected")' = CountedAs("rejected") \cup {t}
          /\ \A o \in Outcomes \ {"rejected"} : CountedAs(o)' = CountedAs(o)
      BY <2>0, <2>2 DEF Reject, Move
    <3>2. [metrics EXCEPT !.total = @ + 1] \in MetricsType
      BY <2>0 DEF MetricsType
    <3>3. /\ metrics'.total = metrics.total + 1 /\ metrics'.inflight = metrics.inflight
          /\ metrics'.usages = metrics.usages
          /\ metrics'.outcomes = [metrics.outcomes EXCEPT !["rejected"] = @ + 1]
      BY <2>0, <2>2, <3>2, CountedType DEF Reject, Outcomes, MetricsType
    <3>4. /\ Cardinality(Asked') = Cardinality(Asked) + 1
          /\ Cardinality(CountedAs("rejected")') = Cardinality(CountedAs("rejected")) + 1
      BY <3>1, Countable
    <3>5. QED
      <4> HIDE DEF CountedAs
      <4>1. /\ metrics.outcomes \in [Outcomes -> Nat] /\ "rejected" \in Outcomes
            /\ \A o \in Outcomes : metrics.outcomes[o] = Cardinality(CountedAs(o))
        BY <2>0 DEF MetricsType, CountersAgree, Outcomes
      <4>2. \A o \in Outcomes : metrics'.outcomes[o] = Cardinality(CountedAs(o)')
        BY <3>1, <3>3, <3>4, <4>1
      <4>3. QED
        BY <3>1, <3>3, <3>4, <4>2 DEF CountersAgree
  <2>3. ASSUME NEW t \in Turns, Abandon(t)
        PROVE  CountersAgree'
    BY <2>0, <2>3, SameSets DEF Abandon, Move
  <2>4. ASSUME NEW t \in Turns, StartTurn(t)
        PROVE  CountersAgree'
    <3>1. /\ t \notin Open /\ t \notin Asked
          /\ Open' = Open \cup {t} /\ Asked' = Asked \cup {t} /\ Metered' = Metered
      BY <2>0, <2>4 DEF StartTurn, Move
    <3>2. ASSUME NEW o \in Outcomes
          PROVE  CountedAs(o)' = CountedAs(o)
      BY <2>0, <2>4 DEF StartTurn, Move
    <3>3. /\ metrics'.total = metrics.total + 1 /\ metrics'.inflight = metrics.inflight + 1
          /\ metrics'.outcomes = metrics.outcomes /\ metrics'.usages = metrics.usages
      BY <2>0, <2>4 DEF StartTurn, MetricsType
    <3>4. /\ Cardinality(Asked') = Cardinality(Asked) + 1
          /\ Cardinality(Open') = Cardinality(Open) + 1
      BY <3>1, Countable
    <3>5. QED
      <4> HIDE DEF Open, Asked, Metered, CountedAs
      <4>1. QED
        BY <3>1, <3>2, <3>3, <3>4 DEF CountersAgree
  <2>5. ASSUME NEW t \in Turns,
               ObserveQuota(t) \/ ObserveContent(t) \/ ObserveDone(t) \/ ObserveFailed(t)
        PROVE  CountersAgree'
    <3>1. /\ stage' = stage /\ stage[t] = "open"
          /\ metrics'.total = metrics.total /\ metrics'.inflight = metrics.inflight
          /\ metrics'.outcomes = metrics.outcomes /\ metrics'.usages = metrics.usages
          /\ \A u \in Turns \ {t} : recorder'[u] = recorder[u]
      BY <2>0, <2>5 DEF MetricsType, ObserveQuota, ObserveContent, ObserveDone, ObserveFailed, Reads
    <3>2. Metered' = Metered /\ \A o \in Outcomes : CountedAs(o)' = CountedAs(o)
      BY <3>1
    <3>3. QED
      BY <3>1, <3>2, SameSets
  <2>6. ASSUME NEW t \in Turns, FinishTurn(t)
        PROVE  CountersAgree'
    <3>1. PICK said \in Outcomes \ {"rejected"} :
            said = Outcome(t) /\ LastSaid(said) = recorder[t].outcome
      BY <2>0 DEF Outcome, LastSaid, Outcomes, Terminal, RecorderType
    <3>2. /\ t \in Open /\ t \notin CountedAs(said)
          /\ Open' = Open \ {t} /\ Asked' = Asked
          /\ recorder' = recorder
          /\ stage' = [stage EXCEPT ![t] = "counted"]
      BY <2>0, <2>6, <3>1 DEF FinishTurn, Move
    <3>3. CountedAs(said)' = CountedAs(said) \cup {t}
      BY <2>0, <3>1, <3>2
    <3>4. ASSUME NEW o \in Outcomes \ {said}
          PROVE  CountedAs(o)' = CountedAs(o)
      <4>1. CASE o = "rejected"
        BY <2>0, <3>1, <3>2, <4>1
      <4>2. CASE o # "rejected"
        <5>1. LastSaid(o) # recorder[t].outcome
          BY <3>1, <4>2 DEF LastSaid, Outcomes, Terminal
        <5>2. QED
          BY <2>0, <3>2, <4>2, <5>1
      <4>3. QED
        BY <4>1, <4>2
    <3>5. /\ metrics'.total = metrics.total
          /\ metrics'.inflight = InflightAfter(metrics)
          /\ metrics'.usages = IF recorder[t].usage THEN metrics.usages + 1 ELSE metrics.usages
          /\ metrics'.outcomes = [metrics.outcomes EXCEPT ![said] = @ + 1]
      <4>1. Counted(metrics, said) \in MetricsType
        BY <2>0, <3>1, CountedType
      <4> DEFINE m == Counted(metrics, said)
      <4>2. m.total = metrics.total /\ m.usages = metrics.usages /\ m.outcomes = [metrics.outcomes EXCEPT ![said] = @ + 1]
        BY <2>0, <3>1, CountedType
      <4>3. metrics' = [m EXCEPT
              !.inflight = InflightAfter(metrics),
              !.usages = IF recorder[t].usage THEN @ + 1 ELSE @,
              !.totalMs = Push(@, t),
              !.ttftMs = IF recorder[t].token THEN Push(@, t) ELSE @]
        BY <2>6, <3>1 DEF FinishTurn
      <4> HIDE DEF m
      <4>4. m \in MetricsType
        BY <4>1 DEF m
      <4>5. QED
        BY <4>2, <4>3, <4>4 DEF MetricsType
    <3>6. /\ Cardinality(Open) > 0 /\ Cardinality(Open') = Cardinality(Open) - 1
          /\ Cardinality(CountedAs(said) \cup {t}) = Cardinality(CountedAs(said)) + 1
      BY <3>2, Countable
    <3>7. metrics'.inflight = Cardinality(Open')
      BY <3>5, <3>6, Countable DEF InflightAfter, CountersAgree
    <3>8. /\ metrics'.outcomes[said] = Cardinality(CountedAs(said)')
          /\ \A o \in Outcomes \ {said} : metrics'.outcomes[o] = Cardinality(CountedAs(o)')
      <4> HIDE DEF CountedAs
      <4>1. \A o \in Outcomes : metrics.outcomes[o] = Cardinality(CountedAs(o))
        BY DEF CountersAgree
      <4>2. metrics.outcomes \in [Outcomes -> Nat]
        BY <2>0 DEF MetricsType
      <4>3. QED
        BY <3>1, <3>3, <3>4, <3>5, <3>6, <4>1, <4>2
    <3>9. metrics'.total = Cardinality(Asked')
      BY <3>2, <3>5 DEF CountersAgree
    <3>10. \A o \in Outcomes : metrics'.outcomes[o] = Cardinality(CountedAs(o)')
      <4> HIDE DEF CountedAs
      <4>1. QED
        BY <3>8
    <3>11. metrics'.usages = Cardinality(Metered')
      <4>1. t \notin Metered /\ Metered' = IF recorder[t].usage THEN Metered \cup {t} ELSE Metered
        BY <2>0, <3>2
      <4>2. recorder[t].usage => Cardinality(Metered \cup {t}) = Cardinality(Metered) + 1
        BY <4>1, Countable
      <4>3. QED
        BY <3>5, <4>1, <4>2 DEF CountersAgree
    <3>12. QED
      BY <3>7, <3>9, <3>10, <3>11 DEF CountersAgree
  <2>7. CASE UNCHANGED <<stage, recorder, metrics>>
    BY <2>7, SameSets
  <2>8. QED
    BY <2>1, <2>2, <2>3, <2>4, <2>5, <2>6, <2>7
       DEF Next, Stall, Resume, StreamEnds, HangUp, vars
<1>3. QED
  BY <1>1, <1>2, TypeCorrect, PTL DEF Spec

-----------------------------------------------------------------------------
(* The bands of latencies.                                                 *)

Facts == INSTANCE SequenceFacts WITH Op <- Push

\* FlattenSeq is the operator the instance has facts about.
LEMMA FlattenHere == ASSUME NEW ss PROVE FlattenSeq(ss) = Facts!FlattenSeq(ss)
  BY Zenon DEF FlattenSeq, Facts!FlattenSeq

\* The turns with a token stay the same when one more turn is counted, but for
\* that turn.
LEMMA WithTokenAppend ==
  ASSUME NEW s \in Seq(Turns), NEW t \in Turns
  PROVE  /\ WithToken(<<>>) = <<>>
         /\ WithToken(s) \in Seq(Turns)
         /\ WithToken(Append(s, t)) = IF recorder[t].token THEN Append(WithToken(s), t) ELSE WithToken(s)
<1> DEFINE one(u) == IF recorder[u].token THEN <<u>> ELSE <<>>
           map(r) == [i \in 1 .. Len(r) |-> one(r[i])]
<1>1. map(s) \in Seq(Seq(Turns)) /\ one(t) \in Seq(Turns)
  OBVIOUS
<1>2. map(Append(s, t)) = Append(map(s), one(t))
  OBVIOUS
<1>3. WithToken(<<>>) = <<>>
  BY FlattenHere, Facts!FlattenEmpty DEF WithToken
<1>4. \A r : WithToken(r) = FlattenSeq(map(r))
  BY DEF WithToken
<1>5. <<>> \o one(t) = one(t)
  OBVIOUS
<1> HIDE DEF map
<1>6. WithToken(s) \in Seq(Turns)
  BY <1>1, <1>4, FlattenHere, Facts!FlattenType
<1>7. WithToken(Append(s, t)) = WithToken(s) \o one(t)
  <2> HIDE DEF one
  <2>1. FlattenSeq(Append(map(s), one(t))) = FlattenSeq(map(s)) \o one(t)
    BY <1>1, <1>5, FlattenHere, Facts!FlattenAppend
  <2> QED BY <1>2, <1>4, <2>1
<1> QED BY <1>3, <1>6, <1>7

\* Sequences with the same entries are the same.
LEMMA SameEntries ==
  ASSUME NEW S, NEW a \in Seq(S), NEW b \in Seq(S), Len(a) = Len(b),
         \A i \in 1 .. Len(a) : a[i] = b[i]
  PROVE  a = b
  OBVIOUS

\* How many entries of s are too old for a window.
Older(s) == IF Len(s) > Window THEN Len(s) - Window ELSE 0

\* What the latest entries are, one by one.
LEMMA LatestIs ==
  ASSUME NEW s \in Seq(Turns)
  PROVE  /\ Older(s) \in 0 .. Len(s) /\ Len(s) - Older(s) <= Window
         /\ Len(s) >= Window => Len(s) - Older(s) = Window
         /\ Len(s) < Window => Older(s) = 0
         /\ Latest(s) \in Seq(Turns) /\ Len(Latest(s)) = Len(s) - Older(s)
         /\ \A i \in 1 .. Len(s) - Older(s) : Latest(s)[i] = s[Older(s) + i]
<1>1. Len(s) \in Nat /\ Window \in Nat /\ Window > 0
  BY MetricsAssumption
<1>2. /\ Older(s) \in 0 .. Len(s) /\ Len(s) - Older(s) <= Window
      /\ Len(s) >= Window => Len(s) - Older(s) = Window
      /\ Len(s) < Window => Older(s) = 0
  BY <1>1 DEF Older
<1>3. Latest(s) = SubSeq(s, Older(s) + 1, Len(s))
  BY <1>1 DEF Older, Latest
<1>4. /\ SubSeq(s, Older(s) + 1, Len(s)) \in Seq(Turns)
      /\ Len(SubSeq(s, Older(s) + 1, Len(s))) = Len(s) - Older(s)
      /\ \A i \in 1 .. Len(s) - Older(s) : SubSeq(s, Older(s) + 1, Len(s))[i] = s[Older(s) + i]
  BY <1>1, <1>2
<1> QED BY <1>2, <1>3, <1>4

\* A full window that gets one more sample holds the latest ones again (push).
LEMMA PushLatest ==
  ASSUME NEW s \in Seq(Turns), NEW t \in Turns
  PROVE  Push(Latest(s), t) = Latest(Append(s, t))
<1> DEFINE r == Append(s, t)
           l == Latest(s)
           p == Push(l, t)
<1>1. /\ r \in Seq(Turns) /\ Len(r) = Len(s) + 1 /\ Len(s) \in Nat /\ r[Len(s) + 1] = t
      /\ \A i \in 1 .. Len(s) : r[i] = s[i]
  OBVIOUS
<1>2. Window \in Nat /\ Window > 0
  BY MetricsAssumption
<1> HIDE DEF r, l
<1>3. /\ Older(s) \in 0 .. Len(s) /\ Len(s) - Older(s) <= Window
      /\ Len(s) >= Window => Len(s) - Older(s) = Window
      /\ Len(s) < Window => Older(s) = 0
      /\ l \in Seq(Turns) /\ Len(l) = Len(s) - Older(s)
      /\ \A i \in 1 .. Len(l) : l[i] = s[Older(s) + i]
  BY LatestIs DEF l
<1>4. /\ Older(r) \in 0 .. Len(r)
      /\ Latest(r) \in Seq(Turns) /\ Len(Latest(r)) = Len(r) - Older(r)
      /\ \A i \in 1 .. Len(Latest(r)) : Latest(r)[i] = r[Older(r) + i]
  BY <1>1, LatestIs
<1>5. Older(r) = IF Len(l) = Window THEN Older(s) + 1 ELSE Older(s)
  <2>1. Older(r) = IF Len(r) > Window THEN Len(r) - Window ELSE 0
    BY DEF Older
  <2>2. Len(r) = Len(s) + 1
    BY <1>1
  <2>3. CASE Len(s) < Window
    <3>1. Len(l) # Window /\ Older(s) = 0 /\ ~(Len(r) > Window)
      BY <1>1, <1>2, <1>3, <2>2, <2>3
    <3> QED BY <2>1, <3>1
  <2>4. CASE ~(Len(s) < Window)
    <3>1. Len(l) = Window /\ Len(r) > Window /\ Len(r) - Window = Older(s) + 1
      BY <1>1, <1>2, <1>3, <2>2, <2>4
    <3> QED BY <2>1, <3>1
  <2> QED BY <2>3, <2>4
<1>6. CASE Len(l) = Window
  <2>1. p = Append(Tail(l), t)
    BY <1>6 DEF Push
  <2>2. /\ Tail(l) \in Seq(Turns) /\ Len(Tail(l)) = Window - 1
        /\ \A i \in 1 .. Window - 1 : Tail(l)[i] = l[i + 1]
    BY <1>2, <1>3, <1>6
  <2>3. /\ p \in Seq(Turns) /\ Len(p) = Window /\ p[Window] = t
        /\ \A i \in 1 .. Window - 1 : p[i] = Tail(l)[i]
    <3>1. Append(Tail(l), t) \in Seq(Turns) /\ Len(Append(Tail(l), t)) = Window
      BY <1>2, <2>2
    <3>2. Append(Tail(l), t)[Window] = t /\ \A i \in 1 .. Window - 1 : Append(Tail(l), t)[i] = Tail(l)[i]
      BY <1>2, <2>2
    <3> HIDE DEF p
    <3> QED BY <2>1, <3>1, <3>2
  <2> HIDE DEF p
  <2>4. \A i \in 1 .. Window - 1 : p[i] = r[Older(s) + 1 + i]
    <3>1. \A i \in 1 .. Window - 1 : /\ i + 1 \in 1 .. Len(l) /\ Older(s) + (i + 1) \in 1 .. Len(s)
                                     /\ Older(s) + (i + 1) = Older(s) + 1 + i
      <4>1. /\ Window \in Nat /\ Older(s) \in Nat /\ Len(s) \in Nat
            /\ Len(l) = Window /\ Window = Len(s) - Older(s)
        BY <1>1, <1>2, <1>3, <1>6
      <4> QED BY ONLY <4>1
    <3>2. \A i \in 1 .. Window - 1 : p[i] = s[Older(s) + (i + 1)]
      BY <1>3, <2>2, <2>3, <3>1
    <3> QED BY <1>1, <3>1, <3>2
  <2>5. Len(r) - Older(r) = Window /\ Older(r) = Older(s) + 1 /\ Older(r) + Window = Len(s) + 1
    BY <1>1, <1>2, <1>3, <1>5, <1>6
  <2>6. \A i \in 1 .. Window : Latest(r)[i] = r[Older(s) + 1 + i]
    BY <1>4, <2>5
  <2>7. \A i \in 1 .. Window : i \in 1 .. Window - 1 \/ i = Window
    BY <1>2
  <2>8. \A i \in 1 .. Window : p[i] = Latest(r)[i]
    <3>1. Latest(r)[Window] = t
      BY <1>1, <1>2, <2>5, <2>6
    <3> QED BY <2>3, <2>4, <2>6, <2>7, <3>1
  <2>9. p = Latest(r)
    BY <1>4, <2>3, <2>5, <2>8, SameEntries
  <2> QED BY <2>9 DEF p, l, r
<1>7. CASE Len(l) # Window
  <2>1. Older(s) = 0 /\ Older(r) = 0 /\ Len(l) = Len(s)
    BY <1>1, <1>2, <1>3, <1>5, <1>7
  <2>2. p = Append(l, t)
    BY <1>7 DEF Push
  <2>3. /\ p \in Seq(Turns) /\ Len(p) = Len(s) + 1 /\ p[Len(s) + 1] = t
        /\ \A i \in 1 .. Len(s) : p[i] = l[i]
    BY <1>1, <1>3, <2>1, <2>2
  <2> HIDE DEF p
  <2>4. \A i \in 1 .. Len(s) : l[i] = r[i]
    BY <1>1, <1>3, <2>1
  <2>5. Len(Latest(r)) = Len(s) + 1 /\ \A i \in 1 .. Len(s) + 1 : Latest(r)[i] = r[i]
    BY <1>1, <1>4, <2>1
  <2>6. \A i \in 1 .. Len(s) + 1 : p[i] = Latest(r)[i]
    BY <1>1, <2>3, <2>4, <2>5
  <2>7. p = Latest(r)
    BY <1>4, <2>3, <2>5, <2>6, SameEntries
  <2> QED BY <2>7 DEF p, l, r
<1> QED BY <1>6, <1>7

\* A turn that was counted is not open, so its recorder says no more.
ClosedAreCounted == \A i \in 1 .. Len(closed) : stage[closed[i]] = "counted"

\* The bands hold the samples of the turns counted last, oldest first, whatever
\* the number of turns and the window (push, finish_turn).
THEOREM WindowsCorrect == Spec => []WindowsHoldLatest
<1> DEFINE IInv == ClosedAreCounted /\ WindowsHoldLatest
<1>1. Init => IInv
  <2> SUFFICES ASSUME Init PROVE IInv
    OBVIOUS
  <2>1. closed = <<>> /\ metrics.totalMs = <<>> /\ metrics.ttftMs = <<>>
    BY DEF Init, NoMetrics
  <2>2. Latest(<<>>) = <<>>
    <3>1. Len(<<>>) = 0 /\ SubSeq(<<>>, 1, 0) = <<>>
      OBVIOUS
    <3>2. ~(0 > Window)
      BY MetricsAssumption
    <3> QED BY <3>1, <3>2, Zenon DEF Latest
  <2>3. WithToken(<<>>) = <<>>
    BY FlattenHere, Facts!FlattenEmpty DEF WithToken
  <2> QED BY <2>1, <2>2, <2>3 DEF ClosedAreCounted, WindowsHoldLatest
<1>2. TypeOK /\ IInv /\ [Next]_vars => IInv'
  <2> SUFFICES ASSUME TypeOK, ClosedAreCounted, WindowsHoldLatest, [Next]_vars
               PROVE  ClosedAreCounted' /\ WindowsHoldLatest'
    OBVIOUS
  <2>0. stage \in [Turns -> Stages] /\ recorder \in [Turns -> RecorderType] /\ metrics \in MetricsType
        /\ closed \in Seq(Turns)
    BY DEF TypeOK
  <2>1. ASSUME closed' = closed, metrics'.totalMs = metrics.totalMs, metrics'.ttftMs = metrics.ttftMs,
               \A u \in Turns : stage[u] = "counted" => stage'[u] = "counted" /\ recorder'[u] = recorder[u]
        PROVE  ClosedAreCounted' /\ WindowsHoldLatest'
    <3>1. \A i \in 1 .. Len(closed) : closed[i] \in Turns /\ stage[closed[i]] = "counted"
      BY <2>0 DEF ClosedAreCounted
    <3>2. ClosedAreCounted'
      BY <2>1, <3>1 DEF ClosedAreCounted
    <3>3. WithToken(closed)' = WithToken(closed)
      <4>1. [i \in 1 .. Len(closed) |-> IF recorder[closed[i]].token THEN <<closed[i]>> ELSE <<>>]
            = [i \in 1 .. Len(closed') |-> IF recorder'[closed'[i]].token THEN <<closed'[i]>> ELSE <<>>]
        BY <2>1, <3>1
      <4> QED BY <4>1, Zenon DEF WithToken
    <3> QED BY <2>1, <3>2, <3>3 DEF WindowsHoldLatest, Latest
  <2>2. ASSUME NEW t \in Turns, Connect(t) \/ Reject(t) \/ Abandon(t) \/ StartTurn(t)
        PROVE  ClosedAreCounted' /\ WindowsHoldLatest'
    <3>1. /\ closed' = closed /\ stage[t] # "counted" /\ \A u \in Turns \ {t} : stage'[u] = stage[u]
          /\ \A u \in Turns \ {t} : recorder'[u] = recorder[u]
      BY <2>0, <2>2 DEF Connect, Reject, Abandon, StartTurn, Move
    <3>2. metrics'.totalMs = metrics.totalMs /\ metrics'.ttftMs = metrics.ttftMs
      <4>1. CASE Reject(t)
        <5>0. metrics \in MetricsType
          BY <2>0
        <5>1. [metrics EXCEPT !.total = @ + 1] \in MetricsType
          BY ONLY <5>0 DEF MetricsType
        <5>2. "rejected" \in Outcomes
          BY DEF Outcomes
        <5> QED BY <2>0, <4>1, <5>1, <5>2, CountedType DEF Reject, MetricsType
      <4>2. CASE Connect(t) \/ Abandon(t) \/ StartTurn(t)
        BY <2>0, <4>2 DEF Connect, Abandon, StartTurn, MetricsType
      <4> QED BY <2>2, <4>1, <4>2
    <3> QED BY <2>1, <3>1, <3>2
  <2>3. ASSUME NEW t \in Turns,
               ObserveQuota(t) \/ ObserveContent(t) \/ ObserveDone(t) \/ ObserveFailed(t)
        PROVE  ClosedAreCounted' /\ WindowsHoldLatest'
    <3>1. /\ closed' = closed /\ stage' = stage /\ stage[t] # "counted"
          /\ metrics'.totalMs = metrics.totalMs /\ metrics'.ttftMs = metrics.ttftMs
          /\ \A u \in Turns \ {t} : recorder'[u] = recorder[u]
      BY <2>0, <2>3 DEF MetricsType, ObserveQuota, ObserveContent, ObserveDone, ObserveFailed, Reads
    <3> QED BY <2>1, <3>1
  <2>4. ASSUME NEW t \in Turns, FinishTurn(t)
        PROVE  ClosedAreCounted' /\ WindowsHoldLatest'
    <3>1. /\ closed' = Append(closed, t) /\ recorder' = recorder
          /\ stage' = [stage EXCEPT ![t] = "counted"]
      BY <2>4 DEF FinishTurn, Move
    <3>2. ClosedAreCounted'
      <4>1. \A i \in 1 .. Len(closed') : closed'[i] = t \/ (i \in 1 .. Len(closed) /\ closed'[i] = closed[i])
        BY <2>0, <3>1
      <4>2. \A i \in 1 .. Len(closed) : closed[i] \in Turns /\ stage[closed[i]] = "counted"
        BY <2>0 DEF ClosedAreCounted
      <4>3. stage'[t] = "counted" /\ \A u \in Turns : stage[u] = "counted" => stage'[u] = "counted"
        BY <2>0, <3>1
      <4> QED BY <4>1, <4>2, <4>3 DEF ClosedAreCounted
    <3>3. /\ metrics'.totalMs = Push(metrics.totalMs, t)
          /\ metrics'.ttftMs = IF recorder[t].token THEN Push(metrics.ttftMs, t) ELSE metrics.ttftMs
      <4> DEFINE m == Counted(metrics, Outcome(t))
      <4>1. Outcome(t) \in Outcomes
        BY <2>0 DEF Outcome, Outcomes, Terminal, RecorderType
      <4>2. m \in MetricsType /\ m.totalMs = metrics.totalMs /\ m.ttftMs = metrics.ttftMs
        BY <2>0, <4>1, CountedType
      <4>3. metrics' = [m EXCEPT
              !.inflight = InflightAfter(metrics),
              !.usages = IF recorder[t].usage THEN @ + 1 ELSE @,
              !.totalMs = Push(@, t),
              !.ttftMs = IF recorder[t].token THEN Push(@, t) ELSE @]
        BY <2>4 DEF FinishTurn
      <4> HIDE DEF m
      <4> QED BY <4>2, <4>3 DEF MetricsType
    <3>4. \A s : WithToken(s)' = WithToken(s')
      BY <3>1 DEF WithToken
    <3>5. metrics'.totalMs = Latest(closed')
      BY <2>0, <3>1, <3>3, PushLatest DEF WindowsHoldLatest
    <3>6. metrics'.ttftMs = Latest(WithToken(closed'))
      <4>1. /\ WithToken(closed) \in Seq(Turns)
            /\ WithToken(closed') = IF recorder[t].token THEN Append(WithToken(closed), t) ELSE WithToken(closed)
        BY <2>0, <3>1, WithTokenAppend
      <4> QED BY <3>3, <4>1, PushLatest DEF WindowsHoldLatest
    <3> QED BY <3>2, <3>4, <3>5, <3>6 DEF WindowsHoldLatest, Latest
  <2>5. CASE UNCHANGED <<stage, recorder, metrics, closed>>
    BY <2>1, <2>5
  <2> QED BY <2>2, <2>3, <2>4, <2>5 DEF Next, Stall, Resume, StreamEnds, HangUp, vars
<1> QED BY <1>1, <1>2, TypeCorrect, PTL DEF Spec
=============================================================================

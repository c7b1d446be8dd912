-------------------------- MODULE ConversationProofs --------------------------
(***************************************************************************)
(* Theorems about Conversation, for any catalogue, conversation and number *)
(* of turns.  A request is a function of the conversation at the time it   *)
(* is made; what is to be shown of it follows from how lists that are made *)
(* part by part (FlattenSeq) grow with their parts.                        *)
(***************************************************************************)
EXTENDS Conversation, SequenceFacts

-----------------------------------------------------------------------------
(* The picker.                                                             *)

\* What the picker has for each model of the backend.
OffersOf(models) == [i \in DOMAIN models |-> IF Shown(models[i]) THEN Offers(models[i]) ELSE <<>>]

\* A catalogue is a sequence, and what is offered for its models are sequences of
\* one kind of entries.
LEMMA OffersType ==
  ASSUME NEW models \in Catalogues
  PROVE  /\ DOMAIN models = 1 .. Len(models) /\ Len(models) \in Nat /\ Len(OffersOf(models)) = Len(models)
         /\ \E S : OffersOf(models) \in Seq(Seq(S))
         /\ OpenaiList(models) = FlattenSeq(OffersOf(models))
<1>1. models \in Seq(Range(models))
  BY CatalogueAssumption
<1>2. DOMAIN models = 1 .. Len(models) /\ Len(models) \in Nat
  BY <1>1
<1> DEFINE one(m) == OpenaiEntry(m, "none", ContextDefault(m))
           two(m) == OpenaiEntry(m, "long", ContextMax(m))
           S == {one(models[i]) : i \in DOMAIN models} \cup {two(models[i]) : i \in DOMAIN models}
<1>3. \A i \in DOMAIN models : one(models[i]) \in S /\ two(models[i]) \in S
  OBVIOUS
<1> HIDE DEF one, two, S
<1>4. ASSUME NEW i \in DOMAIN models PROVE Offers(models[i]) \in Seq(S)
  <2>1. Offers(models[i]) = <<one(models[i])>> \o (IF LongVariant(models[i]) THEN <<two(models[i])>> ELSE <<>>)
    BY DEF Offers, one, two
  <2>2. one(models[i]) \in S /\ two(models[i]) \in S
    BY <1>3
  <2> QED BY <2>1, <2>2
<1>5. OffersOf(models) = [i \in 1 .. Len(models) |-> IF Shown(models[i]) THEN Offers(models[i]) ELSE <<>>]
  BY <1>2 DEF OffersOf
<1>6. OffersOf(models) \in Seq(Seq(S)) /\ Len(OffersOf(models)) = Len(models)
  <2>1. \A i \in 1 .. Len(models) : (IF Shown(models[i]) THEN Offers(models[i]) ELSE <<>>) \in Seq(S)
    BY <1>2, <1>4
  <2> QED BY <1>2, <1>5, <2>1
<1>7. OpenaiList(models) = FlattenSeq(OffersOf(models))
  BY DEF OpenaiList, OffersOf
<1> QED BY <1>2, <1>6, <1>7

\* An entry is offered for a model.
OfferedFor(e, m) ==
  /\ Shown(m) /\ e.levels = ReasoningLevels(m)
  /\ \/ e.id = Id(m.slug, "none") /\ e.length = ContextDefault(m)
     \/ e.id = Id(m.slug, "long") /\ e.length = ContextMax(m) /\ LongVariant(m)

\* One more element is one more in length, and the first stays.
LEMMA OneMoreElement ==
  ASSUME NEW T, NEW q \in Seq(T), NEW x \in T, q # <<>>
  PROVE  Len(Append(q, x)) = Len(q) + 1 /\ Append(q, x)[1] = q[1]
OBVIOUS

\* A slug is a sequence of one segment.
Segment(q) == Len(q) = 1 /\ \E R : q \in Seq(R)

\* It stays the first when another segment is appended.
LEMMA FirstStays ==
  ASSUME NEW q, Segment(q), NEW x
  PROVE  Len(Append(q, x)) = 2 /\ Append(q, x)[1] = q[1] /\ <<q[1]>> = q
<1>1. PICK T : q \in Seq(T) /\ x \in T
  <2>1. PICK R : q \in Seq(R)
    BY DEF Segment
  <2>2. q \in Seq(R \cup {x}) /\ x \in R \cup {x}
    BY <2>1
  <2> QED BY <2>2
<1>2. q # <<>> /\ Len(q) = 1 /\ <<q[1]>> = q
  BY <1>1 DEF Segment
<1>3. Len(Append(q, x)) = Len(q) + 1 /\ Append(q, x)[1] = q[1]
  BY <1>1, <1>2, OneMoreElement
<1> QED BY <1>2, <1>3

\* The ids of a slug of one segment are two, and what comes before the first
\* separator is the slug.
LEMMA IdFacts ==
  ASSUME NEW slug, Segment(slug)
  PROVE  /\ WireModel(Id(slug, "none")) = slug /\ WireModel(Id(slug, "long")) = slug
         /\ Id(slug, "none") # Id(slug, "long") /\ Id(slug, "none") = slug
<1> DEFINE long == Append(slug, "long")
<1>1. Len(long) = 2 /\ long[1] = slug[1] /\ <<slug[1]>> = slug
  BY FirstStays
<1>2. Id(slug, "none") = slug /\ Id(slug, "long") = long
  BY DEF Id
<1> HIDE DEF long
<1>3. slug # long
  BY <1>1
<1> QED BY <1>1, <1>2, <1>3 DEF WireModel

\* The slug of a model that is shown has a segment, and one if slugs are separable.
LEMMA SlugIs ==
  ASSUME NEW models \in Catalogues, Separable(models), NEW i \in DOMAIN models, Shown(models[i])
  PROVE  Segment(models[i].slug)
BY CatalogueAssumption DEF Separable, Segment

\* A model is offered once or twice, under different ids.
LEMMA OffersAre ==
  ASSUME NEW m, Shown(m), Segment(m.slug)
  PROVE  /\ Len(Offers(m)) \in {1, 2}
         /\ \A a \in 1 .. Len(Offers(m)) : OfferedFor(Offers(m)[a], m)
         /\ \A a, b \in 1 .. Len(Offers(m)) : Offers(m)[a].id = Offers(m)[b].id => a = b
<1> DEFINE one == OpenaiEntry(m, "none", ContextDefault(m))
           two == OpenaiEntry(m, "long", ContextMax(m))
<1>1. one.id = Id(m.slug, "none") /\ two.id = Id(m.slug, "long") /\ one.id # two.id
  BY IdFacts DEF OpenaiEntry
<1>2. OfferedFor(one, m) /\ (LongVariant(m) => OfferedFor(two, m))
  BY DEF OpenaiEntry, OfferedFor
<1>3. Offers(m) = <<one>> \o (IF LongVariant(m) THEN <<two>> ELSE <<>>)
  BY DEF Offers
<1> HIDE DEF one, two
<1>4. CASE LongVariant(m)
  <2>1. Offers(m) = <<one>> \o <<two>>
    BY <1>3, <1>4
  <2>2. Len(Offers(m)) = 2 /\ Offers(m)[1] = one /\ Offers(m)[2] = two
    BY <2>1, Pair
  <2>3. \A a \in 1 .. 2 : a = 1 \/ a = 2
    OBVIOUS
  <2> QED BY <1>1, <1>2, <1>4, <2>2, <2>3
<1>5. CASE ~LongVariant(m)
  <2>1. Offers(m) = <<one>>
    BY <1>3, <1>5
  <2>2. Len(Offers(m)) = 1 /\ Offers(m)[1] = one
    BY <2>1
  <2>3. \A a \in 1 .. 1 : a = 1
    OBVIOUS
  <2> QED BY <1>2, <2>2, <2>3
<1> QED BY <1>4, <1>5

\* The entries of a list are offered for the first k models, under ids of their own.
RightOffers(list, models, k) ==
  /\ \A a \in 1 .. Len(list) : \E i \in 1 .. k : OfferedFor(list[a], models[i])
  /\ \A a, b \in 1 .. Len(list) : list[a].id = list[b].id => a = b

\* It remains so with the next model's offers.
LEMMA NextOffers ==
  ASSUME NEW models \in Catalogues, Separable(models), NEW k \in Nat, k < Len(models), NEW S, NEW list \in Seq(S),
         NEW more \in Seq(S), RightOffers(list, models, k),
         more = IF Shown(models[k + 1]) THEN Offers(models[k + 1]) ELSE <<>>
  PROVE  RightOffers(list \o more, models, k + 1)
<1> DEFINE n == k + 1
           m == models[n]
           l == Len(list)
<1>1. l \in Nat /\ \A i \in 1 .. k : i \in 1 .. n
  OBVIOUS
<1>2. CASE ~Shown(m)
  <2>1. list \o more = list
    BY <1>2
  <2> QED BY <1>1, <2>1 DEF RightOffers
<1>3. CASE Shown(m)
  <2>1. more = Offers(m)
    BY <1>3
  <2>2. /\ Len(more) \in Nat
        /\ \A a \in 1 .. Len(more) : OfferedFor(more[a], m)
        /\ \A a, b \in 1 .. Len(more) : more[a].id = more[b].id => a = b
    <3>1. n \in DOMAIN models
      BY OffersType
    <3>2. Segment(m.slug)
      BY <1>3, <3>1, SlugIs
    <3> QED BY <1>3, <2>1, <3>2, OffersAre
  <2> DEFINE all == list \o more
  <2>3. /\ Len(all) = l + Len(more)
        /\ \A a \in 1 .. l : all[a] = list[a]
        /\ \A a \in 1 .. Len(all) : a \notin 1 .. l => a - l \in 1 .. Len(more) /\ all[a] = more[a - l]
    BY <1>1, <2>2
  <2> HIDE DEF all, l, m
  <2>4. ASSUME NEW a \in 1 .. Len(all) PROVE \E i \in 1 .. n : OfferedFor(all[a], models[i])
    <3>1. CASE a \in 1 .. l
      <4>1. PICK i \in 1 .. k : OfferedFor(list[a], models[i])
        BY <3>1 DEF RightOffers, l
      <4> QED BY <1>1, <2>3, <3>1, <4>1
    <3>2. CASE a \notin 1 .. l
      <4>1. OfferedFor(all[a], m) /\ n \in 1 .. n
        BY <2>2, <2>3, <3>2
      <4> QED BY <4>1 DEF m
    <3> QED BY <3>1, <3>2
  <2>5. ASSUME NEW a \in 1 .. l, NEW b \in 1 .. Len(all), b \notin 1 .. l PROVE all[a].id # all[b].id
    <3>1. PICK i \in 1 .. k : OfferedFor(all[a], models[i])
      BY <2>3 DEF RightOffers, l
    <3>2. OfferedFor(all[b], m)
      BY <2>2, <2>3, <2>5
    <3>3. models[i].slug # m.slug
      <4>1. i \in DOMAIN models /\ n \in DOMAIN models /\ i # n
        BY OffersType
      <4>2. m.slug # <<>>
        BY <1>3 DEF Shown
      <4> QED BY <4>1, <4>2, CatalogueAssumption DEF m
    <3>4. WireModel(all[a].id) = models[i].slug /\ WireModel(all[b].id) = m.slug
      <4>1. i \in DOMAIN models /\ n \in DOMAIN models /\ Shown(models[i]) /\ Shown(models[n])
        BY <1>3, <3>1, OffersType DEF OfferedFor, m
      <4>2. Segment(models[i].slug) /\ Segment(m.slug)
        BY <4>1, SlugIs DEF m
      <4> QED BY <3>1, <3>2, <4>2, IdFacts DEF OfferedFor
    <3> QED BY <3>3, <3>4
  <2>6. ASSUME NEW a \in 1 .. Len(all), NEW b \in 1 .. Len(all), all[a].id = all[b].id PROVE a = b
    <3>1. CASE a \in 1 .. l /\ b \in 1 .. l
      BY <2>3, <2>6, <3>1 DEF RightOffers, l
    <3>2. CASE a \notin 1 .. l /\ b \notin 1 .. l
      <4>1. a - l = b - l
        BY <2>2, <2>3, <2>6, <3>2
      <4> QED BY <1>1, <4>1
    <3>3. CASE a \in 1 .. l /\ b \notin 1 .. l
      BY <2>5, <2>6, <3>3
    <3>4. CASE a \notin 1 .. l /\ b \in 1 .. l
      BY <2>5, <2>6, <3>4
    <3> QED BY <3>1, <3>2, <3>3, <3>4
  <2> QED BY <2>4, <2>6 DEF RightOffers, all
<1> QED BY <1>2, <1>3

\* The whole picker is right.
LEMMA PickerOffers ==
  ASSUME NEW models \in Catalogues, Separable(models)
  PROVE  RightOffers(OpenaiList(models), models, Len(models))
<1> DEFINE ss == OffersOf(models)
           n == Len(models)
<1>1. DOMAIN models = 1 .. n /\ n \in Nat /\ Len(ss) = n /\ OpenaiList(models) = FlattenSeq(ss)
  BY OffersType
<1>2. PICK S : ss \in Seq(Seq(S))
  BY OffersType
<1>3. \A i \in 1 .. n : ss[i] = IF Shown(models[i]) THEN Offers(models[i]) ELSE <<>>
  BY <1>1 DEF OffersOf
<1> HIDE DEF ss
<1> DEFINE T == {k \in Nat : k <= n => RightOffers(UpTo(ss, k), models, k)}
<1>4. 0 \in T
  <2>1. UpTo(ss, 0) = <<>>
    BY <1>1, <1>2, UpToStep
  <2>2. Len(<<>>) = 0 /\ 1 .. 0 = {}
    OBVIOUS
  <2> QED BY <2>1, <2>2 DEF RightOffers
<1>5. ASSUME NEW k \in Nat, k \in T PROVE k + 1 \in T
  <2>1. SUFFICES ASSUME k + 1 <= n PROVE RightOffers(UpTo(ss, k + 1), models, k + 1)
    OBVIOUS
  <2>2. k \in 0 .. Len(ss) /\ k < n /\ k <= n /\ k + 1 \in 1 .. n
    BY <1>1, <2>1
  <2>3. RightOffers(UpTo(ss, k), models, k)
    BY <1>5, <2>2
  <2> DEFINE list == UpTo(ss, k)
             more == ss[k + 1]
  <2>4. list \in Seq(S) /\ UpTo(ss, k + 1) = list \o more
    BY <1>1, <1>2, <2>2, UpToStep
  <2>5. more \in Seq(S) /\ more = IF Shown(models[k + 1]) THEN Offers(models[k + 1]) ELSE <<>>
    BY <1>1, <1>2, <1>3, <2>2
  <2> HIDE DEF list, more
  <2>6. RightOffers(list \o more, models, k + 1)
    BY <2>2, <2>3, <2>4, <2>5, NextOffers DEF list
  <2> QED BY <2>4, <2>6
<1> HIDE DEF T
<1>6. n \in T
  BY <1>1, <1>4, <1>5, SetInduction
<1>7. UpTo(ss, n) = FlattenSeq(ss)
  <2>1. n \in 0 .. Len(ss)
    BY <1>1
  <2> QED BY <1>1, <1>2, <2>1, UpToStep
<1> QED BY <1>1, <1>6, <1>7 DEF T

\* So what the picker offers is true.
LEMMA PickerTrue ==
  ASSUME NEW models \in Catalogues
  PROVE  OffersTrue(models)
<1> SUFFICES ASSUME Separable(models) PROVE OffersTrue(models)
  BY DEF OffersTrue
<1> DEFINE picker == OpenaiList(models)
           full == Catalogue(models)
<1>1. DOMAIN models = 1 .. Len(models) /\ Len(models) \in Nat
  BY OffersType
<1>2. RightOffers(picker, models, Len(models))
  BY PickerOffers
<1>3. DOMAIN picker = 1 .. Len(picker)
  <2>1. PICK S : OffersOf(models) \in Seq(Seq(S)) /\ picker = FlattenSeq(OffersOf(models))
    BY OffersType
  <2>2. picker \in Seq(S)
    BY <2>1, FlattenType
  <2> QED BY <2>2
<1> HIDE DEF picker
<1>4. DOMAIN full = DOMAIN models /\ \A k \in DOMAIN models : full[k] = Entry(models[k])
  BY DEF Catalogue
<1> HIDE DEF full
<1>5. ASSUME NEW a \in DOMAIN picker
      PROVE  \E k \in DOMAIN full :
               /\ full[k].id = WireModel(picker[a].id)
               /\ ~full[k].hidden
               /\ picker[a].levels = full[k].levels
               /\ Coherent(models[k]) => picker[a].length <= full[k].max
               /\ picker[a].id # full[k].id => picker[a].length > full[k].default
  <2>1. PICK k \in 1 .. Len(models) : OfferedFor(picker[a], models[k])
    BY <1>2, <1>3 DEF RightOffers
  <2> DEFINE m == models[k]
             e == picker[a]
  <2>2. k \in DOMAIN full /\ full[k] = Entry(m)
    BY <1>1, <1>4
  <2>3. /\ full[k].id = m.slug /\ full[k].hidden = Hidden(m) /\ full[k].default = ContextDefault(m)
        /\ full[k].max = ContextMax(m) /\ full[k].levels = ReasoningLevels(m)
    BY <2>2 DEF Entry
  <2>4. /\ m.window \in Nat /\ m.maxWindow \in Nat
        /\ \A slug \in Capped : Cap[slug] \in Nat
    BY <1>1, CatalogueAssumption
  <2>8. Segment(m.slug)
    BY <1>1, <2>1, SlugIs DEF OfferedFor
  <2> HIDE DEF m, e
  <2>5. ContextDefault(m) \in Nat /\ ContextMax(m) \in Nat /\ (Coherent(m) => ContextDefault(m) <= ContextMax(m))
    BY <2>4 DEF ContextDefault, ContextMax, Coherent
  <2>6. OfferedFor(e, m) /\ ~Hidden(m)
    BY <2>1 DEF OfferedFor, Shown, e, m
  <2>9. /\ WireModel(e.id) = m.slug
        /\ e.id # m.slug => e.length = ContextMax(m) /\ LongVariant(m)
        /\ e.length = ContextDefault(m) \/ e.length = ContextMax(m)
    BY <2>8, <2>6, IdFacts DEF OfferedFor
  <2>10. LongVariant(m) => ContextMax(m) > ContextDefault(m)
    BY DEF LongVariant
  <2>7. /\ full[k].id = WireModel(e.id) /\ ~full[k].hidden /\ e.levels = full[k].levels
        /\ Coherent(m) => e.length <= full[k].max
        /\ e.id # full[k].id => e.length > full[k].default
    <3>1. full[k].id = WireModel(e.id) /\ ~full[k].hidden /\ e.levels = full[k].levels
      BY <2>3, <2>6, <2>9 DEF OfferedFor
    <3>2. Coherent(m) => e.length <= full[k].max
      BY <2>3, <2>5, <2>9
    <3>3. e.id # full[k].id => e.length > full[k].default
      BY <2>3, <2>9, <2>10
    <3> QED BY <3>1, <3>2, <3>3
  <2> QED BY <2>2, <2>7 DEF e, m
<1>6. \A i, j \in DOMAIN picker : picker[i].id = picker[j].id => i = j
  BY <1>2, <1>3 DEF RightOffers
<1> QED BY <1>5, <1>6 DEF OffersTrue, picker, full

-----------------------------------------------------------------------------
(* The conversation.                                                       *)

\* What an entry of a conversation is: answers have text or none, and may have
\* calls and reasoning; the result of a call comes after the call.
EntryRight(t, n) ==
  LET e == t[n] IN
  /\ IsContent(e.content) /\ e.calls \in Nat
  /\ e.role # "assistant" => e.calls = 0 /\ e.thought = FALSE
  /\ e.role = "assistant" => e.content.shape # "array"
  /\ e.role = "tool" => e.content = NoContent
  /\ e.call # Nothing => e.role = "tool" /\ \E m \in 1 .. n - 1 : \E k \in 1 .. t[m].calls : e.call = <<m, k>>

Right(t) ==
  /\ \E E : t \in Seq(E)
  /\ \A n \in 1 .. Len(t) : EntryRight(t, n)

TalkRight == Right(talk)

\* An entry comes to the end of a conversation.
LEMMA TalkGrows ==
  ASSUME TalkRight, NEW e, talk' = Append(talk, e)
  PROVE  /\ Len(talk) \in Nat /\ Len(talk') = Len(talk) + 1 /\ DOMAIN talk = 1 .. Len(talk)
         /\ \A n \in 1 .. Len(talk) : talk'[n] = talk[n] /\ EntryRight(talk', n)
         /\ talk'[Len(talk) + 1] = e
         /\ EntryRight(talk', Len(talk) + 1) => TalkRight'
<1>1. PICK E : talk \in Seq(E)
  BY DEF TalkRight, Right
<1>2. /\ Len(talk) \in Nat /\ Len(talk') = Len(talk) + 1 /\ DOMAIN talk = 1 .. Len(talk)
      /\ \A n \in 1 .. Len(talk) : talk'[n] = talk[n]
      /\ talk'[Len(talk) + 1] = e
  BY <1>1
<1>3. ASSUME NEW n \in 1 .. Len(talk) PROVE EntryRight(talk', n)
  <2>1. EntryRight(talk, n) /\ talk'[n] = talk[n] /\ \A m \in 1 .. n - 1 : talk'[m] = talk[m]
    BY <1>2 DEF TalkRight, Right
  <2> QED BY <2>1 DEF EntryRight
<1>4. talk' \in Seq(E \cup {e})
  <2>1. talk \in Seq(E \cup {e}) /\ e \in E \cup {e}
    BY <1>1
  <2> QED BY <2>1
<1>5. \A n \in 1 .. Len(talk) + 1 : n \in 1 .. Len(talk) \/ n = Len(talk) + 1
  BY <1>2
<1> QED BY <1>2, <1>3, <1>4, <1>5 DEF TalkRight, Right

\* A conversation remains one.
LEMMA TalkStep == TalkRight /\ [Next]_vars => TalkRight'
<1> SUFFICES ASSUME TalkRight, [Next]_vars
             PROVE  TalkRight'
  OBVIOUS
<1> DEFINE l == Len(talk)
<1>1. ASSUME NEW entry \in Entries, Say(entry) PROVE TalkRight'
  <2> DEFINE e == Written(entry.role, entry.content)
  <2>1. talk' = Append(talk, e)
    BY <1>1 DEF Say, Write
  <2>2. e.content = entry.content /\ e.role = entry.role /\ e.calls = 0 /\ e.thought = FALSE /\ e.call = Nothing
    BY DEF Written
  <2>3. IsContent(entry.content) /\ entry.role \notin {"assistant", "tool"}
    BY ConversationAssumption
  <2> HIDE DEF e
  <2>4. talk'[l + 1] = e
    BY <2>1, TalkGrows
  <2>5. EntryRight(talk', l + 1)
    BY <2>2, <2>3, <2>4 DEF EntryRight, l
  <2> QED BY <2>1, <2>5, TalkGrows
<1>2. ASSUME ReportResult PROVE TalkRight'
  <2>1. PICK id \in Pending, known \in BOOLEAN :
          Write([Written("tool", NoContent) EXCEPT !.call = IF known THEN id ELSE Nothing])
    BY <1>2 DEF ReportResult
  <2> DEFINE e == [Written("tool", NoContent) EXCEPT !.call = IF known THEN id ELSE Nothing]
  <2>2. talk' = Append(talk, e)
    BY <2>1 DEF Write
  <2>3. e.content = NoContent /\ e.role = "tool" /\ e.calls = 0 /\ e.thought = FALSE /\ (e.call = id \/ e.call = Nothing)
    BY DEF Written
  <2> HIDE DEF e
  <2>4. /\ talk'[l + 1] = e /\ \A n \in 1 .. l : talk'[n] = talk[n]
        /\ l \in Nat /\ DOMAIN talk = 1 .. l
    BY <2>2, TalkGrows
  <2>5. \E m \in 1 .. l : \E k \in 1 .. talk[m].calls : id = <<m, k>>
    BY <2>4 DEF Pending, Calls
  <2>6. IsContent(NoContent)
    BY DEF IsContent, NoContent
  <2>7. e.call # Nothing => \E m \in 1 .. (l + 1) - 1 : \E k \in 1 .. talk'[m].calls : e.call = <<m, k>>
    BY <2>3, <2>4, <2>5
  <2>8. EntryRight(talk', l + 1)
    BY <2>3, <2>4, <2>6, <2>7 DEF EntryRight, l
  <2> QED BY <2>2, <2>8, TalkGrows
<1>3. ASSUME NEW reply \in Replies, Answer(reply) PROVE TalkRight'
  <2> DEFINE e == [Written("assistant", reply.content) EXCEPT !.calls = reply.calls, !.thought = reply.thought]
  <2>1. talk' = Append(talk, e)
    BY <1>3 DEF Answer
  <2>2. e.content = reply.content /\ e.role = "assistant" /\ e.calls = reply.calls /\ e.call = Nothing
    BY DEF Written
  <2>3. IsContent(reply.content) /\ reply.content.shape # "array" /\ reply.calls \in Nat
    BY ConversationAssumption
  <2> HIDE DEF e
  <2>4. talk'[l + 1] = e
    BY <2>1, TalkGrows
  <2>5. EntryRight(talk', l + 1)
    BY <2>2, <2>3, <2>4 DEF EntryRight, l
  <2> QED BY <2>1, <2>5, TalkGrows
<1>4. CASE UNCHANGED talk
  BY <1>4 DEF TalkRight, Right, EntryRight
<1>5. ASSUME NEW model, NEW effort, Ask(model, effort) PROVE UNCHANGED talk
  BY <1>5 DEF Ask
<1> QED BY <1>1, <1>2, <1>3, <1>4, <1>5 DEF Next, Fail, vars

-----------------------------------------------------------------------------
(* Requests, part by part.                                                 *)

\* What an entry adds to the instructions, and to the input of either surface.
InstructedBy(t) ==
  [n \in DOMAIN t |-> IF Leading(t, n) /\ IsText(t[n].content) THEN <<Text(n, t[n].content)>> ELSE <<>>]

ItemsOf(s, t, n) == IF s = "chat" THEN ChatItems(t, n) ELSE RespItems(t, n)
SaidBy(s, t) == [n \in DOMAIN t |-> ItemsOf(s, t, n)]

\* A surface knows the role of every entry.
Known(s, t) == s = "chat" => \A n \in DOMAIN t : ~ChatMessageRefused(t[n])

\* The calls of an answer, as items.
CallItems(n, e) == [k \in 1 .. e.calls |-> FunctionCall(<<n, k>>)]

\* What an answer is to either surface is a sequence.
LEMMA AnswersAreSeq ==
  ASSUME NEW n, NEW e, e.calls \in Nat
  PROVE  /\ CallItems(n, e) = [k \in 1 .. e.calls |-> FunctionCall(CallIds(n, e)[k])]
         /\ IsSeq(CallItems(n, e)) /\ Len(CallItems(n, e)) = e.calls
         /\ IsSeq(ChatAnswer(n, e)) /\ IsSeq(RawAnswer(n, e))
<1> DEFINE calls == CallItems(n, e)
           text == Message("assistant", <<Part("output_text", Text(n, e.content))>>)
           raw == Message("assistant", e.content)
           T == Range(calls) \cup {text, raw, Reasoning(n)}
<1>1. calls = [k \in 1 .. e.calls |-> FunctionCall(CallIds(n, e)[k])]
  BY DEF CallItems, CallIds
<1>2. calls \in Seq(Range(calls)) /\ Len(calls) = e.calls
  <2>1. \A k \in 1 .. e.calls : calls[k] \in Range(calls)
    BY DEF CallItems, Range
  <2> HIDE DEF calls
  <2>2. calls = [k \in 1 .. e.calls |-> calls[k]]
    BY DEF calls, CallItems
  <2> QED BY <2>1, <2>2
<1>3. ChatAnswer(n, e) = (IF IsText(e.content) /\ Text(n, e.content).parts # {} THEN <<text>> ELSE <<>>) \o calls
  BY <1>1 DEF ChatAnswer
<1>4. RawAnswer(n, e) = (IF e.thought THEN <<Reasoning(n)>> ELSE <<>>) \o (IF IsText(e.content) THEN <<raw>> ELSE <<>>)
                        \o calls
  BY <1>1 DEF RawAnswer
<1>5. text \in T /\ raw \in T /\ Reasoning(n) \in T /\ Range(calls) \subseteq T
  OBVIOUS
<1> DEFINE re == Reasoning(n)
<1> HIDE DEF T, text, raw, calls, re
<1>6. calls \in Seq(T)
  BY <1>2, <1>5
<1>7. /\ (IF IsText(e.content) /\ Text(n, e.content).parts # {} THEN <<text>> ELSE <<>>) \in Seq(T)
      /\ (IF IsText(e.content) THEN <<raw>> ELSE <<>>) \in Seq(T)
      /\ (IF e.thought THEN <<re>> ELSE <<>>) \in Seq(T)
  BY <1>5 DEF re
<1>8. ChatAnswer(n, e) \in Seq(T)
  <2> DEFINE a == IF IsText(e.content) /\ Text(n, e.content).parts # {} THEN <<text>> ELSE <<>>
  <2>1. a \in Seq(T) /\ ChatAnswer(n, e) = a \o calls
    BY <1>3, <1>7
  <2> HIDE DEF a
  <2> QED BY <1>6, <2>1
<1>9. RawAnswer(n, e) \in Seq(T)
  <2> DEFINE a == IF e.thought THEN <<re>> ELSE <<>>
             b == IF IsText(e.content) THEN <<raw>> ELSE <<>>
  <2>1. a \in Seq(T) /\ b \in Seq(T) /\ RawAnswer(n, e) = (a \o b) \o calls
    BY <1>4, <1>7 DEF re
  <2> HIDE DEF a, b
  <2>2. a \o b \in Seq(T)
    BY <2>1
  <2> QED BY <1>6, <2>1, <2>2
<1> QED BY <1>1, <1>2, <1>8, <1>9, SeqIs DEF calls, IsSeq

\* What an entry of a known role says is a sequence of items, on either surface.
LEMMA ItemsAreSeq ==
  ASSUME NEW s, NEW t, Right(t), Known(s, t), NEW n \in DOMAIN t
  PROVE  IsSeq(ItemsOf(s, t, n))
<1> DEFINE e == t[n]
<1>1. \A a : IsSeq(<<a>>)
  <2>1. TAKE a
  <2>2. <<a>> \in Seq({a})
    OBVIOUS
  <2> QED BY <2>2, SeqIs
<1>2. IsSeq(<<>>)
  <2>1. <<>> \in Seq({})
    OBVIOUS
  <2> QED BY <2>1, SeqIs
<1>3. e.calls \in Nat
  BY DEF Right, EntryRight
<1>4. IsSeq(ChatAnswer(n, e)) /\ IsSeq(RawAnswer(n, e))
  BY <1>3, AnswersAreSeq
<1>5. CASE s = "chat"
  <2>1. ~ChatMessageRefused(e)
    BY <1>5 DEF Known
  <2>2. e.role \in {"system", "developer", "user", "assistant", "tool"}
    BY <2>1 DEF ChatMessageRefused
  <2> QED BY <1>1, <1>2, <1>4, <1>5, <2>2 DEF ItemsOf, ChatItems, Instructs
<1>6. CASE s # "chat"
  <2> DEFINE raw == RawItems(t, n)
  <2>1. IsSeq(raw)
    BY <1>1, <1>2, <1>4 DEF RawItems
  <2>2. ItemsOf(s, t, n) = [i \in DOMAIN raw |-> NormaliseItem(n, raw[i])]
    BY <1>6 DEF ItemsOf, RespItems
  <2> HIDE DEF raw
  <2>3. DOMAIN raw = 1 .. Len(raw) /\ Len(raw) \in Nat
    BY <2>1, SeqIn
  <2> DEFINE q == ItemsOf(s, t, n)
             T == {NormaliseItem(n, raw[i]) : i \in DOMAIN raw}
  <2>4. q = [i \in 1 .. Len(raw) |-> q[i]] /\ \A i \in 1 .. Len(raw) : q[i] \in T
    BY <2>2, <2>3
  <2> HIDE DEF q, T
  <2>5. q \in Seq(T)
    <3>1. q \in [1 .. Len(raw) -> T]
      BY <2>4
    <3> QED BY <2>3, <3>1
  <2> QED BY <2>5, SeqIs DEF q
<1> QED BY <1>5, <1>6

\* The parts of a conversation, and that they are sequences of sequences.
LEMMA PartsAreSeqs ==
  ASSUME NEW s, NEW t, Right(t)
  PROVE  /\ DOMAIN t = 1 .. Len(t) /\ Len(t) \in Nat
         /\ Len(SaidBy(s, t)) = Len(t) /\ IsSeq(SaidBy(s, t))
         /\ Len(InstructedBy(t)) = Len(t) /\ IsSeq(InstructedBy(t)) /\ \E S : InstructedBy(t) \in Seq(Seq(S))
         /\ Known(s, t) => \E S : SaidBy(s, t) \in Seq(Seq(S))
<1>1. DOMAIN t = 1 .. Len(t) /\ Len(t) \in Nat
  <2>1. PICK E : t \in Seq(E)
    BY DEF Right
  <2> QED BY <2>1
<1> DEFINE l == Len(t)
           p == SaidBy(s, t)
           q == InstructedBy(t)
<1>2. p = [n \in 1 .. l |-> p[n]] /\ q = [n \in 1 .. l |-> q[n]]
  BY <1>1 DEF SaidBy, InstructedBy
<1>3. Len(p) = l /\ IsSeq(p)
  <2> DEFINE T == {ItemsOf(s, t, n) : n \in 1 .. l}
  <2>1. \A n \in 1 .. l : p[n] \in T
    BY <1>1 DEF SaidBy
  <2> HIDE DEF p, T, l
  <2>2. p \in [1 .. l -> T] /\ l \in Nat
    BY <1>1, <1>2, <2>1 DEF l
  <2>3. p \in Seq(T) /\ Len(p) = l
    BY <2>2
  <2> QED BY <2>3, SeqIs
<1>4. \A n \in 1 .. l : IsSeq(q[n])
  <2>1. \A a : IsSeq(<<a>>)
    <3>1. TAKE a
    <3>2. <<a>> \in Seq({a})
      OBVIOUS
    <3> QED BY <3>2, SeqIs
  <2>2. IsSeq(<<>>)
    <3>1. <<>> \in Seq({})
      OBVIOUS
    <3> QED BY <3>1, SeqIs
  <2> QED BY <1>1, <2>1, <2>2 DEF InstructedBy
<1>5. Known(s, t) => \A n \in 1 .. l : IsSeq(p[n])
  BY <1>1, ItemsAreSeq DEF SaidBy
<1> HIDE DEF p, q, l
<1>6. l \in Nat
  BY <1>1 DEF l
<1>7. Len(q) = l /\ IsSeq(q) /\ \E S : q \in Seq(Seq(S))
  BY <1>2, <1>4, <1>6, SeqsOf
<1>8. Known(s, t) => \E S : p \in Seq(Seq(S))
  BY <1>2, <1>5, <1>6, SeqsOf
<1> QED BY <1>1, <1>3, <1>7, <1>8 DEF p, q, l

\* What begins the conversation instructs: it says nothing else. What comes after
\* an entry that does not begin it does not either.
LEMMA LeadingFacts ==
  ASSUME NEW t, DOMAIN t = 1 .. Len(t), Len(t) \in Nat
  PROVE  /\ \A n \in DOMAIN t : Leading(t, n) <=> (n \in Prologue(t))
         /\ \A n \in DOMAIN t : \A h \in 1 .. n : ~Leading(t, h) => ~Leading(t, n)
         /\ \A s : \A n \in DOMAIN t : Leading(t, n) => ItemsOf(s, t, n) = <<>>
<1>1. \A n \in DOMAIN t : Leading(t, n) <=> (n \in Prologue(t))
  BY DEF Leading, Prologue
<1>2. \A n \in DOMAIN t : \A h \in 1 .. n : ~Leading(t, h) => ~Leading(t, n)
  BY DEF Leading
<1>3. ASSUME NEW s, NEW n \in DOMAIN t, Leading(t, n) PROVE ItemsOf(s, t, n) = <<>>
  <2>0. t[n].role \in {"system", "developer"}
    <3>1. n \in 1 .. n
      OBVIOUS
    <3> QED BY <1>3, <3>1 DEF Leading, Instructs
  <2>1. CASE s = "chat"
    BY <1>3, <2>0, <2>1 DEF ItemsOf, ChatItems
  <2>2. CASE s # "chat"
    <3>1. RawItems(t, n) = <<>>
      BY <1>1, <1>3, <2>0 DEF RawItems
    <3>2. RespItems(t, n) = [i \in DOMAIN <<>> |-> NormaliseItem(n, <<>>[i])]
      BY <3>1 DEF RespItems
    <3>3. RespItems(t, n) = <<>>
      BY <3>2
    <3> QED BY <2>2, <3>3 DEF ItemsOf
  <2> QED BY <2>1, <2>2
<1> QED BY <1>1, <1>2, <1>3

\* The tools as a surface hands them on.
ToolsOf(s) == IF s = "chat" THEN ChatTools(settings.tools) ELSE settings.tools

\* A backend request for given instructions and input, and the way it takes.
RouteOf(s, model, instructions, input) ==
  IF SessionId = "absent" THEN <<"derived", <<model, instructions, ToolsOf(s), FirstOf(input)>>>>
  ELSE <<"caller", SessionId>>

IsRequest(s, r, model, instructions, input, effort) ==
  /\ r.body.instructions = instructions /\ r.body.input = input /\ r.body.tools = ToolsOf(s).list
  /\ r.body.model = WireModel(model) /\ r.body.effort = effort
  /\ r.sessionId = RouteOf(s, WireModel(model), instructions, input)
  /\ r.body.promptCacheKey = r.sessionId
  /\ r.body = [model |-> WireModel(model), instructions |-> instructions, input |-> input,
               tools |-> ToolsOf(s).list, effort |-> effort,
               promptCacheKey |-> RouteOf(s, WireModel(model), instructions, input)]

\* What a surface that takes the conversation makes of it: all that its parts say.
LEMMA StreamIs ==
  ASSUME TalkRight, NEW s \in Surface, ~Refused(s), NEW model, NEW effort
  PROVE  /\ Known(s, talk)
         /\ IsRequest(s, Stream(ToWire(s, model, effort)), model,
                      FlattenSeq(InstructedBy(talk)), FlattenSeq(SaidBy(s, talk)), effort)
<1> DEFINE instructions == FlattenSeq(InstructedBy(talk))
           input == FlattenSeq(SaidBy(s, talk))
           wire == [model |-> model, instructions |-> instructions, input |-> input,
                    tools |-> ToolsOf(s), effort |-> effort, sessionId |-> SessionId]
<1>1. DOMAIN talk = 1 .. Len(talk) /\ Len(talk) \in Nat
  BY PartsAreSeqs DEF TalkRight
<1>2. ASSUME s = "chat" PROVE Known(s, talk) /\ ToWire(s, model, effort) = wire
  <2>1. Known(s, talk)
    BY <1>2 DEF Refused, ChatRefused, Known
  <2>2. ToWire(s, model, effort) = wire
    <3>1. ChatInstructions(talk) = instructions
      BY DEF ChatInstructions, InstructedBy
    <3>2. SaidBy(s, talk) = [n \in DOMAIN talk |-> ChatItems(talk, n)]
      BY <1>2 DEF SaidBy, ItemsOf
    <3>3. FlattenSeq([n \in DOMAIN talk |-> ChatItems(talk, n)]) = input
      BY <3>2
    <3>4. ToWire(s, model, effort) = ChatToWire(talk, model, effort)
      BY <1>2 DEF ToWire
    <3> HIDE DEF instructions, input
    <3>5. ToolsOf(s) = ChatTools(settings.tools)
      BY <1>2 DEF ToolsOf
    <3> QED BY <3>1, <3>3, <3>4, <3>5 DEF ChatToWire
  <2> QED BY <2>1, <2>2
<1>3. ASSUME s # "chat" PROVE Known(s, talk) /\ ToWire(s, model, effort) = wire
  <2>1. Known(s, talk)
    BY <1>3 DEF Known
  <2>2. ~NeedsState
    BY <1>3 DEF Refused, RespRefused
  <2>3. \A n : Sends(n)
    BY <2>2 DEF NeedsState, Sends
  <2>4. ToWire(s, model, effort) = wire
    <3>1. InstructedBy(talk) = [n \in DOMAIN talk |->
             IF n \in Prologue(talk) /\ IsText(talk[n].content) THEN <<Text(n, talk[n].content)>> ELSE <<>>]
      <4>1. \A n \in DOMAIN talk : Leading(talk, n) <=> (n \in Prologue(talk))
        BY <1>1, LeadingFacts
      <4> QED BY <4>1 DEF InstructedBy
    <3>2. SaidBy(s, talk) = [n \in DOMAIN talk |-> IF Sends(n) THEN RespItems(talk, n) ELSE <<>>]
      BY <1>3, <2>3 DEF SaidBy, ItemsOf
    <3>3. RespInstructions(talk) = instructions
      BY <3>1 DEF RespInstructions
    <3>4. RespInput(talk) = input
      BY <3>2 DEF RespInput
    <3>5. ToWire(s, model, effort) = RespToWire(talk, model, effort)
      BY <1>3 DEF ToWire
    <3> HIDE DEF instructions, input
    <3>6. ToolsOf(s) = settings.tools
      BY <1>3 DEF ToolsOf
    <3> QED BY <3>3, <3>4, <3>5, <3>6 DEF RespToWire
  <2> QED BY <2>1, <2>4
<1>4. Known(s, talk) /\ ToWire(s, model, effort) = wire
  <2> HIDE DEF wire
  <2> QED BY <1>2, <1>3
<1> HIDE DEF instructions, input
<1>5. IsRequest(s, Stream(wire), model, instructions, input, effort)
  <2> DEFINE req == [model |-> WireModel(model), instructions |-> instructions, input |-> input,
                     tools |-> ToolsOf(s), effort |-> effort, sessionId |-> SessionId]
  <2>1. Stream(wire) = [body |-> BuildBody(req), sessionId |-> EffectiveCacheKey(req)]
    <3>1. [wire EXCEPT !.model = WireModel(@)] = req
      OBVIOUS
    <3> QED BY <3>1 DEF Stream
  <2>2. EffectiveCacheKey(req) = RouteOf(s, WireModel(model), instructions, input)
    BY DEF EffectiveCacheKey, CacheKey, RouteOf
  <2> HIDE DEF wire
  <2>3. BuildBody(req) = [model |-> WireModel(model), instructions |-> instructions, input |-> input,
                          tools |-> ToolsOf(s).list, effort |-> effort,
                          promptCacheKey |-> RouteOf(s, WireModel(model), instructions, input)]
    BY <2>2 DEF BuildBody
  <2> QED BY <2>1, <2>2, <2>3 DEF IsRequest
<1> QED BY <1>4, <1>5 DEF instructions, input

\* What an entry says stays when others come after it.
LEMMA PartsStay ==
  ASSUME NEW s, NEW t, NEW u, Right(t), Right(u), Len(t) <= Len(u), Alike(Len(t), u, t), NEW k \in 0 .. Len(t)
  PROVE  UpTo(SaidBy(s, u), k) = UpTo(SaidBy(s, t), k) /\ UpTo(InstructedBy(u), k) = UpTo(InstructedBy(t), k)
<1> DEFINE l == Len(t)
<1>1. l \in Nat /\ DOMAIN t = 1 .. l /\ Len(u) \in Nat /\ DOMAIN u = 1 .. Len(u) /\ l <= Len(u)
  BY PartsAreSeqs
<1>2. \A n \in 1 .. l : u[n] = t[n] /\ n \in DOMAIN u /\ n \in DOMAIN t
  BY <1>1 DEF Alike
<1>3. \A n \in 1 .. l : Leading(u, n) <=> Leading(t, n)
  <2>1. \A n \in 1 .. l : \A i \in 1 .. n : i \in 1 .. l
    BY <1>1
  <2> QED BY <1>2, <2>1 DEF Leading
<1>4. \A n \in 1 .. l : (n \in Prologue(u)) <=> (n \in Prologue(t))
  BY <1>1, <1>2, <1>3, LeadingFacts
<1>5. \A n \in 1 .. l : ItemsOf(s, u, n) = ItemsOf(s, t, n)
  <2>1. \A n \in 1 .. l : ChatItems(u, n) = ChatItems(t, n)
    <3>1. TAKE n \in 1 .. l
    <3>2. u[n] = t[n] /\ Leading(u, n) = Leading(t, n)
      BY <1>2, <1>3, Zenon DEF Leading
    <3> QED BY <3>2, Zenon DEF ChatItems
  <2>2. \A n \in 1 .. l : RawItems(u, n) = RawItems(t, n)
    BY <1>2, <1>4 DEF RawItems
  <2>3. \A n \in 1 .. l : RespItems(u, n) = RespItems(t, n)
    BY <2>2 DEF RespItems
  <2> QED BY <2>1, <2>3 DEF ItemsOf
<1>6. Alike(l, SaidBy(s, u), SaidBy(s, t)) /\ Alike(l, InstructedBy(u), InstructedBy(t))
  BY <1>2, <1>3, <1>5 DEF Alike, SaidBy, InstructedBy
<1>7. ASSUME NEW p, NEW q, IsSeq(p), IsSeq(q), Len(q) = l, Len(p) = Len(u), Alike(l, p, q)
      PROVE  UpTo(p, k) = UpTo(q, k)
  <2> DEFINE T == Range(p) \cup Range(q)
  <2>1. p \in Seq(T) /\ q \in Seq(T)
    <3>1. \A i \in DOMAIN p : p[i] \in T
      BY DEF Range
    <3>2. \A i \in DOMAIN q : q[i] \in T
      BY DEF Range
    <3> HIDE DEF T
    <3> QED BY <1>7, <3>1, <3>2, SeqIn
  <2> HIDE DEF T
  <2>2. k \in 0 .. Len(p) /\ k <= Len(q) /\ Alike(k, p, q)
    BY <1>1, <1>7 DEF Alike
  <2> QED BY <2>1, <2>2, SameUpTo
<1> DEFINE pu == SaidBy(s, u)
           pt == SaidBy(s, t)
           qu == InstructedBy(u)
           qt == InstructedBy(t)
<1>8. /\ IsSeq(pu) /\ IsSeq(pt) /\ IsSeq(qu) /\ IsSeq(qt)
      /\ Len(pu) = Len(u) /\ Len(qu) = Len(u) /\ Len(pt) = l /\ Len(qt) = l
  BY PartsAreSeqs
<1> HIDE DEF pu, pt, qu, qt, l
<1>9. UpTo(pu, k) = UpTo(pt, k) /\ UpTo(qu, k) = UpTo(qt, k)
  BY <1>6, <1>7, <1>8 DEF pu, pt, qu, qt
<1> QED BY <1>9 DEF pu, pt, qu, qt

\* A request says what the first entries of the conversation say, for a model of
\* the picker.
Made(s, t, r) ==
  \E k \in 0 .. Len(t) : \E i \in DOMAIN Picker : \E effort :
    IsRequest(s, r, Picker[i].id, UpTo(InstructedBy(t), k), UpTo(SaidBy(s, t), k), effort)

\* The last request of each surface is such a request.
LastMade ==
  /\ backend \in Catalogues
  /\ last = [s \in Surface |-> last[s]]
  /\ \A s \in Surface : last[s] # <<>> => \E r : last[s] = <<r>> /\ Made(s, talk, r)

\* It remains one while the conversation grows.
LEMMA MadeStays ==
  ASSUME NEW s, NEW t, NEW u, Right(t), Right(u), Len(t) <= Len(u), Alike(Len(t), u, t), NEW r, Made(s, t, r)
  PROVE  Made(s, u, r)
<1>0. PICK k \in 0 .. Len(t), i \in DOMAIN Picker :
        \E effort : IsRequest(s, r, Picker[i].id, UpTo(InstructedBy(t), k), UpTo(SaidBy(s, t), k), effort)
  BY DEF Made
<1>1. PICK effort : IsRequest(s, r, Picker[i].id, UpTo(InstructedBy(t), k), UpTo(SaidBy(s, t), k), effort)
  BY <1>0
<1>2. UpTo(SaidBy(s, u), k) = UpTo(SaidBy(s, t), k) /\ UpTo(InstructedBy(u), k) = UpTo(InstructedBy(t), k)
  BY PartsStay
<1>3. k \in 0 .. Len(u)
  BY PartsAreSeqs
<1> QED BY <1>1, <1>2, <1>3 DEF Made

\* And a surface that takes a turn makes one, of the whole conversation.
LEMMA AskMakes ==
  ASSUME TalkRight, NEW s \in Surface, ~Refused(s), NEW i \in DOMAIN Picker, NEW effort
  PROVE  LET r == Stream(ToWire(s, Picker[i].id, effort))
             l == Len(talk)
         IN /\ IsRequest(s, r, Picker[i].id, UpTo(InstructedBy(talk), l), UpTo(SaidBy(s, talk), l), effort)
            /\ Made(s, talk, r)
<1> DEFINE r == Stream(ToWire(s, Picker[i].id, effort))
           l == Len(talk)
           p == SaidBy(s, talk)
           q == InstructedBy(talk)
<1>1. Known(s, talk) /\ IsRequest(s, r, Picker[i].id, FlattenSeq(q), FlattenSeq(p), effort)
  BY StreamIs
<1>2. l \in Nat /\ Len(p) = l /\ Len(q) = l /\ (\E S : p \in Seq(Seq(S))) /\ \E S : q \in Seq(Seq(S))
  BY <1>1, PartsAreSeqs DEF TalkRight
<1> HIDE DEF p, q, l, r
<1>3. UpTo(p, l) = FlattenSeq(p)
  <2>1. PICK S : p \in Seq(Seq(S))
    BY <1>2
  <2>2. l \in 0 .. Len(p)
    BY <1>2
  <2> QED BY <1>2, <2>1, <2>2, UpToStep
<1>4. UpTo(q, l) = FlattenSeq(q)
  <2>1. PICK S : q \in Seq(Seq(S))
    BY <1>2
  <2>2. l \in 0 .. Len(q)
    BY <1>2
  <2> QED BY <1>2, <2>1, <2>2, UpToStep
<1>5. IsRequest(s, r, Picker[i].id, UpTo(q, l), UpTo(p, l), effort)
  BY <1>1, <1>3, <1>4
<1>6. l \in 0 .. l
  BY <1>2
<1>7. Made(s, talk, r)
  BY <1>5, <1>6 DEF Made, l, p, q
<1> QED BY <1>5, <1>7 DEF r, l, p, q

ConversationInv == TalkRight /\ LastMade

\* It is so at the start.
LEMMA ConversationInit == Init => ConversationInv
<1> SUFFICES ASSUME Init PROVE ConversationInv
  OBVIOUS
<1>1. TalkRight
  <2>1. talk \in Seq({}) /\ Len(talk) = 0
    BY DEF Init
  <2> QED BY <2>1 DEF TalkRight, Right
<1>2. LastMade
  BY DEF Init, LastMade
<1> QED BY <1>1, <1>2 DEF ConversationInv

\* A request that has been made stays, and a new one is such a request.
LEMMA LastStep == TalkRight /\ LastMade /\ [Next]_vars => LastMade'
<1> SUFFICES ASSUME TalkRight, LastMade, [Next]_vars
             PROVE  LastMade'
  OBVIOUS
<1>1. TalkRight'
  BY TalkStep
<1>2. ASSUME UNCHANGED <<backend, settings>>, NEW s, NEW r, NEW u, u = talk', Made(s, u, r)
      PROVE  Made(s, talk, r)'
  <2>0. PICK k \in 0 .. Len(u), i \in DOMAIN Picker :
          \E effort : IsRequest(s, r, Picker[i].id, UpTo(InstructedBy(u), k), UpTo(SaidBy(s, u), k), effort)
    BY <1>2 DEF Made
  <2>1. PICK effort : IsRequest(s, r, Picker[i].id, UpTo(InstructedBy(u), k), UpTo(SaidBy(s, u), k), effort)
    BY <2>0
  <2>2. Picker' = Picker
    BY <1>2 DEF Picker
  <2> DEFINE instructions == UpTo(InstructedBy(u), k)
             input == UpTo(SaidBy(s, u), k)
  <2> HIDE DEF instructions, input
  <2>3. settings' = settings
    BY <1>2
  <2>4. SessionId' = SessionId
    BY <2>3, Zenon DEF SessionId
  <2>5. IsRequest(s, r, Picker[i].id, instructions, input, effort)
    BY <2>1 DEF instructions, input
  <2>6. PICK id : id = Picker[i].id
    OBVIOUS
  <2>7. IsRequest(s, r, id, instructions, input, effort)'
    BY <2>3, <2>4, <2>5, <2>6 DEF IsRequest, RouteOf, ToolsOf
  <2> QED BY <1>2, <2>1, <2>2, <2>6, <2>7 DEF Made, instructions, input
<1>3. ASSUME UNCHANGED <<backend, settings, last>>, NEW e, talk' = Append(talk, e) PROVE LastMade'
  <2>1. PICK u : u = talk'
    OBVIOUS
  <2>2. Right(talk) /\ Right(u)
    BY <1>1, <2>1 DEF TalkRight
  <2>3. Len(talk) <= Len(u) /\ Alike(Len(talk), u, talk)
    BY <1>3, <2>1, TalkGrows DEF Alike
  <2>4. ASSUME NEW s \in Surface, last[s] # <<>> PROVE \E r : last'[s] = <<r>> /\ Made(s, talk, r)'
    <3>1. PICK r : last[s] = <<r>> /\ Made(s, talk, r)
      BY <2>4 DEF LastMade
    <3>2. Made(s, u, r)
      BY <2>2, <2>3, <3>1, MadeStays
    <3>3. Made(s, talk, r)'
      BY <1>2, <1>3, <2>1, <3>2
    <3> QED BY <1>3, <3>1, <3>3
  <2> QED BY <1>3, <2>4 DEF LastMade
<1>4. ASSUME NEW i \in DOMAIN Picker, NEW effort, Ask(Picker[i].id, effort) PROVE LastMade'
  <2> DEFINE of(s) == Stream(ToWire(s, Picker[i].id, effort))
  <2>1. /\ UNCHANGED <<backend, settings, talk>>
        /\ last' = [s \in Surface |-> IF Refused(s) THEN last[s] ELSE <<of(s)>>]
    BY <1>4 DEF Ask
  <2>2. ASSUME NEW s \in Surface, last'[s] # <<>> PROVE \E r : last'[s] = <<r>> /\ Made(s, talk, r)
    <3>1. CASE Refused(s)
      <4>1. last'[s] = last[s]
        BY <2>1, <3>1
      <4> QED BY <2>2, <4>1 DEF LastMade
    <3>2. CASE ~Refused(s)
      <4>1. last'[s] = <<of(s)>>
        BY <2>1, <3>2
      <4>2. Made(s, talk, of(s))
        BY <3>2, AskMakes
      <4> QED BY <4>1, <4>2
    <3> QED BY <3>1, <3>2
  <2>3. ASSUME NEW s \in Surface, last'[s] # <<>> PROVE \E r : last'[s] = <<r>> /\ Made(s, talk, r)'
    <3>1. PICK r : last'[s] = <<r>> /\ Made(s, talk, r)
      BY <2>2, <2>3
    <3>2. Made(s, talk, r)'
      BY <1>2, <2>1, <3>1
    <3> QED BY <3>1, <3>2
  <2>4. backend' \in Catalogues /\ last' = [s \in Surface |-> last'[s]]
    BY <2>1 DEF LastMade
  <2> QED BY <2>3, <2>4 DEF LastMade
<1>5. ASSUME UNCHANGED <<backend, settings, talk, last>> PROVE LastMade'
  <2>1. ASSUME NEW s \in Surface, last[s] # <<>> PROVE \E r : last'[s] = <<r>> /\ Made(s, talk, r)'
    <3>1. PICK r : last[s] = <<r>> /\ Made(s, talk, r)
      BY <2>1 DEF LastMade
    <3>2. PICK u : u = talk' /\ u = talk
      BY <1>5
    <3>3. Made(s, talk, r)'
      BY <1>2, <1>5, <3>1, <3>2
    <3> QED BY <1>5, <3>1, <3>3
  <2> QED BY <1>5, <2>1 DEF LastMade
<1>6. (\E entry \in Entries : Say(entry)) \/ ReportResult \/ (\E reply \in Replies : Answer(reply))
        => UNCHANGED <<backend, settings, last>> /\ \E e : talk' = Append(talk, e)
  BY DEF Say, Write, ReportResult, Answer
<1>7. Fail \/ UNCHANGED vars => UNCHANGED <<backend, settings, talk, last>>
  BY DEF Fail, vars
<1> QED BY <1>3, <1>4, <1>5, <1>6, <1>7 DEF Next

\* The request of a turn names a model of the backend that it lists.
LEMMA MadeListed ==
  ASSUME backend \in Catalogues, Separable(backend), NEW s, NEW t, NEW r, Made(s, t, r)
  PROVE  \E m \in Range(backend) : m.slug = r.body.model /\ ~Hidden(m)
<1>1. PICK i \in DOMAIN Picker : r.body.model = WireModel(Picker[i].id)
  BY DEF Made, IsRequest
<1>2. DOMAIN Picker = 1 .. Len(Picker)
  <2>1. PICK S : OffersOf(backend) \in Seq(Seq(S)) /\ Picker = FlattenSeq(OffersOf(backend))
    BY OffersType DEF Picker
  <2>2. Picker \in Seq(S)
    BY <2>1, FlattenType
  <2> QED BY <2>2
<1>3. PICK k \in 1 .. Len(backend) : OfferedFor(Picker[i], backend[k])
  BY <1>1, <1>2, PickerOffers DEF RightOffers, Picker
<1>4. k \in DOMAIN backend
  BY OffersType
<1>5. backend[k] \in Range(backend)
  BY <1>4 DEF Range
<1>6. Segment(backend[k].slug)
  BY <1>3, <1>4, SlugIs DEF OfferedFor
<1>7. WireModel(Picker[i].id) = backend[k].slug /\ ~Hidden(backend[k])
  BY <1>3, <1>6, IdFacts DEF OfferedFor, Shown
<1> QED BY <1>1, <1>5, <1>7

\* The picker offers models that exist, as often as they are worth offering, and a
\* turn with an offered id reaches the model it was offered for, which the backend
\* lists, if no slug of the catalogue holds the separator (openai_list, wire_model,
\* Client::stream): for every such catalogue, coherent or not.
THEOREM PickerSafe == Spec => []PickerIsTrue
<1>1. Init => ConversationInv
  BY ConversationInit
<1>2. ConversationInv /\ [Next]_vars => ConversationInv'
  BY TalkStep, LastStep DEF ConversationInv
<1>3. ConversationInv => PickerIsTrue
  <2> SUFFICES ASSUME LastMade PROVE PickerIsTrue
    BY DEF ConversationInv
  <2>1. OffersTrue(backend)
    BY PickerTrue DEF LastMade
  <2>2. ASSUME Separable(backend), NEW s \in Surface, last[s] # <<>>
        PROVE  \E m \in Range(backend) : m.slug = last[s][1].body.model /\ ~Hidden(m)
    <3>1. PICK r : last[s] = <<r>> /\ Made(s, talk, r)
      BY <2>2 DEF LastMade
    <3>2. last[s][1] = r
      BY <3>1
    <3> QED BY <2>2, <3>1, <3>2, MadeListed DEF LastMade
  <2> QED BY <2>1, <2>2 DEF PickerIsTrue
<1> QED BY <1>1, <1>2, <1>3, PTL DEF Spec

-----------------------------------------------------------------------------
(* The cache.                                                              *)

\* What the first k entries say begins what all of them say; and once they say
\* something, the instructions are complete.
LEMMA LaterSaysMore ==
  ASSUME NEW s, NEW t, Right(t), Known(s, t), NEW k \in 0 .. Len(t)
  PROVE  LET old == UpTo(SaidBy(s, t), k)
             new == UpTo(SaidBy(s, t), Len(t))
         IN old # <<>> => /\ IsPrefix(old, new)
                          /\ FirstOf(new) = FirstOf(old)
                          /\ UpTo(InstructedBy(t), Len(t)) = UpTo(InstructedBy(t), k)
<1> DEFINE l == Len(t)
           p == SaidBy(s, t)
           q == InstructedBy(t)
           old == UpTo(p, k)
           new == UpTo(p, l)
<1> SUFFICES ASSUME old # <<>>
             PROVE  IsPrefix(old, new) /\ FirstOf(new) = FirstOf(old) /\ UpTo(q, l) = UpTo(q, k)
  OBVIOUS
<1>1. /\ DOMAIN t = 1 .. l /\ l \in Nat /\ Len(p) = l /\ Len(q) = l
      /\ (\E S : p \in Seq(Seq(S))) /\ \E S : q \in Seq(Seq(S))
  BY PartsAreSeqs
<1>2. /\ \A n \in 1 .. l : Leading(t, n) => p[n] = <<>>
      /\ \A n \in 1 .. l : \A h \in 1 .. n : ~Leading(t, h) => ~Leading(t, n)
      /\ \A n \in 1 .. l : ~Leading(t, n) => q[n] = <<>>
  BY <1>1, LeadingFacts DEF SaidBy, InstructedBy
<1> HIDE DEF p, q, l
<1>3. k \in Nat /\ k <= l /\ 0 \in 0 .. l /\ k \in 0 .. l /\ l \in k .. l
  BY <1>1 DEF l
<1>4. PICK S : p \in Seq(Seq(S))
  BY <1>1
<1>5. IsPrefix(old, new) /\ old \in Seq(S) /\ new \in Seq(S)
  <2>1. k \in 0 .. Len(p) /\ l \in k .. Len(p) /\ l \in 0 .. Len(p)
    BY <1>1, <1>3
  <2> QED BY <1>4, <2>1, UpToGrows, UpToStep
<1>6. FirstOf(new) = FirstOf(old)
  <2> HIDE DEF old, new
  <2>1. Len(old) <= Len(new) /\ SubSeq(old, 1, Len(old)) = SubSeq(new, 1, Len(old))
    BY <1>5 DEF IsPrefix
  <2>2. 1 \in 1 .. Len(old) /\ new # <<>>
    BY <1>5, <2>1
  <2>3. old[1] = new[1]
    BY <1>5, <2>1, <2>2
  <2> QED BY <2>2, <2>3 DEF FirstOf
<1>7. PICK h \in 1 .. k : p[h] # <<>>
  <2>1. SUFFICES ASSUME \A i \in 1 .. k : p[i] = <<>> PROVE FALSE
    OBVIOUS
  <2>2. 0 \in 0 .. Len(p) /\ k \in 0 .. Len(p)
    BY <1>1, <1>3
  <2>3. \A i \in 0 + 1 .. k : p[i] = <<>>
    BY <2>1
  <2>4. UpTo(p, k) = UpTo(p, 0)
    BY <1>4, <2>2, <2>3, UpToGrows
  <2>5. UpTo(p, 0) = <<>>
    BY <1>4, <2>2, UpToStep
  <2> QED BY <2>4, <2>5
<1>8. \A i \in k + 1 .. l : q[i] = <<>>
  <2>1. ~Leading(t, h)
    BY <1>1, <1>2, <1>3, <1>7
  <2>2. \A i \in k + 1 .. l : i \in 1 .. l /\ h \in 1 .. i
    BY <1>1, <1>3
  <2> QED BY <1>2, <2>1, <2>2
<1>9. UpTo(q, l) = UpTo(q, k)
  <2>1. PICK R : q \in Seq(Seq(R))
    BY <1>1
  <2>2. k \in 0 .. Len(q) /\ l \in k .. Len(q)
    BY <1>1, <1>3
  <2> QED BY <1>8, <2>1, <2>2, UpToGrows
<1> QED BY <1>5, <1>6, <1>9

\* From a request to the next of the same surface.
LEMMA NextRequest ==
  ASSUME TalkRight, LastMade, NEW s \in Surface, last[s] # <<>>, ~Refused(s),
         NEW i \in DOMAIN Picker, NEW effort
  PROVE  LET old == last[s][1]
             new == Stream(ToWire(s, Picker[i].id, effort))
         IN /\ new.sessionId = new.body.promptCacheKey
            /\ old.body.input # <<>> => SameHead(old, new)
            /\ old.body.input # <<>> /\ old.body.model = new.body.model => new.sessionId = old.sessionId
<1> DEFINE new == Stream(ToWire(s, Picker[i].id, effort))
           l == Len(talk)
           p == SaidBy(s, talk)
           q == InstructedBy(talk)
<1>1. PICK old : last[s] = <<old>> /\ Made(s, talk, old)
  BY DEF LastMade
<1>2. last[s][1] = old
  BY <1>1
<1>3. PICK k \in 0 .. l, j \in DOMAIN Picker :
        \E was : IsRequest(s, old, Picker[j].id, UpTo(q, k), UpTo(p, k), was)
  BY <1>1 DEF Made
<1>4. PICK was : IsRequest(s, old, Picker[j].id, UpTo(q, k), UpTo(p, k), was)
  BY <1>3
<1>5. IsRequest(s, new, Picker[i].id, UpTo(q, l), UpTo(p, l), effort)
  BY AskMakes
<1>6. UpTo(p, k) # <<>> => /\ IsPrefix(UpTo(p, k), UpTo(p, l))
                           /\ FirstOf(UpTo(p, l)) = FirstOf(UpTo(p, k))
                           /\ UpTo(q, l) = UpTo(q, k)
  <2>1. Known(s, talk)
    BY StreamIs
  <2> QED BY <2>1, LaterSaysMore DEF TalkRight
<1> HIDE DEF new, l, p, q
<1>7. SameHead(old, new) <=> /\ old.body.instructions = new.body.instructions
                             /\ old.body.tools = new.body.tools
                             /\ IsPrefix(old.body.input, new.body.input)
  BY DEF SameHead
<1>8. /\ new.sessionId = new.body.promptCacheKey
      /\ old.body.input # <<>> => SameHead(old, new)
  BY <1>4, <1>5, <1>6, <1>7 DEF IsRequest
<1>9. old.body.input # <<>> /\ old.body.model = new.body.model => new.sessionId = old.sessionId
  BY <1>4, <1>5, <1>6 DEF IsRequest, RouteOf, ToolsOf
<1> QED BY <1>2, <1>8, <1>9 DEF new

\* From turn to turn the backend sees the same prefix, and the request takes the
\* same way to the machine that holds it: whatever is said, answered, asked of tools
\* or steered in between, at whatever effort, in which variant of the model
\* (cache_key, effective_cache_key, build_body): for every conversation.
THEOREM CacheSafe == Spec => CacheStays
<1> DEFINE Kept ==
      \A s \in Surface :
        last[s] # <<>> /\ last'[s] # last[s] =>
          LET old == last[s][1]
              new == last'[s][1]
          IN /\ new.sessionId = new.body.promptCacheKey
             /\ old.body.input # <<>> => SameHead(old, new)
             /\ old.body.input # <<>> /\ old.body.model = new.body.model =>
                  new.sessionId = old.sessionId
<1>1. Init => ConversationInv
  BY ConversationInit
<1>2. ConversationInv /\ [Next]_vars => ConversationInv'
  BY TalkStep, LastStep DEF ConversationInv
<1>3. ConversationInv /\ [Next]_vars => [Kept]_vars
  <2> SUFFICES ASSUME ConversationInv, Next
               PROVE  Kept
    OBVIOUS
  <2>1. TalkRight /\ LastMade
    BY DEF ConversationInv
  <2>2. ASSUME NEW i \in DOMAIN Picker, NEW effort, Ask(Picker[i].id, effort) PROVE Kept
    <3> SUFFICES ASSUME NEW s \in Surface, last[s] # <<>>, last'[s] # last[s]
                 PROVE  LET old == last[s][1]
                            new == last'[s][1]
                        IN /\ new.sessionId = new.body.promptCacheKey
                           /\ old.body.input # <<>> => SameHead(old, new)
                           /\ old.body.input # <<>> /\ old.body.model = new.body.model =>
                                new.sessionId = old.sessionId
      OBVIOUS
    <3>1. last'[s] = IF Refused(s) THEN last[s] ELSE <<Stream(ToWire(s, Picker[i].id, effort))>>
      BY <2>2 DEF Ask
    <3>2. ~Refused(s) /\ last'[s][1] = Stream(ToWire(s, Picker[i].id, effort))
      BY <3>1
    <3> QED BY <2>1, <3>2, NextRequest
  <2>3. UNCHANGED last => Kept
    OBVIOUS
  <2>4. (\E entry \in Entries : Say(entry)) \/ ReportResult \/ (\E reply \in Replies : Answer(reply)) \/ Fail
          => UNCHANGED last
    BY DEF Say, Write, ReportResult, Answer, Fail
  <2> HIDE DEF Kept
  <2> QED BY <2>2, <2>3, <2>4 DEF Next
<1> QED BY <1>1, <1>2, <1>3, PTL DEF Spec, CacheStays

-----------------------------------------------------------------------------
(* The two surfaces.                                                       *)

\* The input without its reasoning, entry by entry and part by part.
LEMMA SpokenJoined ==
  ASSUME NEW T, NEW a \in Seq(T), NEW b \in Seq(T)
  PROVE  Spoken(a) \in Seq(T) /\ Spoken(a \o b) = Spoken(a) \o Spoken(b)
<1> DEFINE G == [x \in T |-> IF x.type = "reasoning" THEN <<>> ELSE <<x>>]
<1>1. Maps(G, T, Seq(T))
  BY DEF Maps
<1>2. ASSUME NEW q \in Seq(T) PROVE Spoken(q) = FlattenSeq(Mapped(G, q))
  <2>1. \A i \in DOMAIN q : q[i] \in T
    OBVIOUS
  <2>2. Mapped(G, q) = [i \in DOMAIN q |-> IF q[i].type = "reasoning" THEN <<>> ELSE <<q[i]>>]
    BY <2>1 DEF Mapped
  <2> QED BY <2>2 DEF Spoken
<1> HIDE DEF G
<1> DEFINE x == Mapped(G, a)
           y == Mapped(G, b)
           V == Seq(T)
<1>3. a \o b \in Seq(T)
  OBVIOUS
<1>4. x \in Seq(V) /\ y \in Seq(V) /\ Mapped(G, a \o b) = x \o y
  <2>1. Maps(G, T, V)
    BY <1>1
  <2> HIDE DEF V
  <2>2. Mapped(G, a) \in Seq(V) /\ Mapped(G, b) \in Seq(V)
    BY <2>1, MappedJoined
  <2> HIDE DEF x, y
  <2>3. a \in Seq(T) /\ b \in Seq(T)
    OBVIOUS
  <2>4. Mapped(G, a \o b) = Mapped(G, a) \o Mapped(G, b)
    BY <2>1, <2>3, MappedJoined
  <2> QED BY <2>2, <2>4 DEF x, y
<1>5. Spoken(a) = FlattenSeq(x) /\ Spoken(b) = FlattenSeq(y) /\ Spoken(a \o b) = FlattenSeq(x \o y)
  BY <1>2, <1>3, <1>4
<1> HIDE DEF x, y
<1>6. FlattenSeq(x) \in Seq(T) /\ FlattenSeq(x \o y) = FlattenSeq(x) \o FlattenSeq(y)
  BY <1>4, FlattenType, FlattenJoined
<1> QED BY <1>5, <1>6

\* Of nothing it is nothing, and of one item that item, unless it is reasoning.
LEMMA SpokenOne ==
  ASSUME NEW x
  PROVE  Spoken(<<>>) = <<>> /\ Spoken(<<x>>) = IF x.type = "reasoning" THEN <<>> ELSE <<x>>
<1> DEFINE g == IF x.type = "reasoning" THEN <<>> ELSE <<x>>
<1>1. g \in Seq({x})
  OBVIOUS
<1>2. [i \in DOMAIN <<x>> |-> IF <<x>>[i].type = "reasoning" THEN <<>> ELSE <<<<x>>[i]>>] = <<g>>
  OBVIOUS
<1>3. [i \in DOMAIN <<>> |-> IF <<>>[i].type = "reasoning" THEN <<>> ELSE <<<<>>[i]>>] = <<>>
  OBVIOUS
<1>4. Spoken(<<x>>) = FlattenSeq(<<g>>) /\ Spoken(<<>>) = FlattenSeq(<<>>)
  BY <1>2, <1>3, Zenon DEF Spoken
<1> HIDE DEF g
<1>5. FlattenSeq(<<g>>) = g
  BY <1>1, FlattenOne
<1> QED BY <1>4, <1>5, FlattenEmpty DEF g

\* Of items that are not reasoning it is all of them.
LEMMA SpokenAll ==
  ASSUME NEW T, NEW q \in Seq(T), \A i \in 1 .. Len(q) : q[i].type # "reasoning"
  PROVE  Spoken(q) = q
<1> DEFINE K == {k \in Nat : k <= Len(q) => Spoken(SubSeq(q, 1, k)) = SubSeq(q, 1, k)}
<1>1. 0 \in K
  <2>1. SubSeq(q, 1, 0) = <<>>
    OBVIOUS
  <2> QED BY <2>1, SpokenOne
<1>2. ASSUME NEW k \in Nat, k \in K PROVE k + 1 \in K
  <2>1. SUFFICES ASSUME k + 1 <= Len(q) PROVE Spoken(SubSeq(q, 1, k + 1)) = SubSeq(q, 1, k + 1)
    OBVIOUS
  <2> DEFINE p == SubSeq(q, 1, k)
             x == q[k + 1]
  <2>2. k <= Len(q) /\ k + 1 \in 1 .. Len(q)
    BY <2>1
  <2>3. p \in Seq(T) /\ x \in T /\ SubSeq(q, 1, k + 1) = p \o <<x>> /\ <<x>> \in Seq(T)
    <3>1. p \in Seq(T) /\ x \in T /\ Len(p) = k
      BY <2>2
    <3> DEFINE z == SubSeq(q, 1, k + 1)
               y == <<x>>
    <3>2. y \in Seq(T) /\ Len(y) = 1 /\ y[1] = x
      BY <3>1
    <3>3. z \in Seq(T) /\ Len(z) = k + 1 /\ z[k + 1] = x /\ \A i \in 1 .. k : z[i] = p[i]
      BY <2>2
    <3> HIDE DEF p, x, y, z
    <3>4. OneThenOther(p, y, z)
      BY <3>1, <3>2, <3>3 DEF OneThenOther
    <3>5. z = p \o y
      BY <3>1, <3>2, <3>3, <3>4, JoinedIs
    <3> QED BY <3>1, <3>2, <3>5 DEF y, z
  <2>4. Spoken(p) = p
    BY <1>2, <2>2
  <2>5. Spoken(<<x>>) = <<x>>
    BY <2>2, SpokenOne
  <2> DEFINE y == <<x>>
  <2> HIDE DEF p, x, y
  <2>6. y \in Seq(T) /\ Spoken(y) = y
    BY <2>3, <2>5 DEF y
  <2>7. Spoken(p \o y) = p \o y
    <3>1. p \in Seq(T) /\ y \in Seq(T)
      BY <2>3, <2>6
    <3>2. Spoken(p \o y) = Spoken(p) \o Spoken(y)
      BY <3>1, SpokenJoined
    <3> QED BY <2>4, <2>6, <3>2
  <2> QED BY <2>3, <2>7 DEF y
<1> HIDE DEF K
<1>3. Len(q) \in K
  <2>1. Len(q) \in Nat
    OBVIOUS
  <2> QED BY <1>1, <1>2, <2>1, SetInduction
<1>4. SubSeq(q, 1, Len(q)) = q /\ Len(q) <= Len(q)
  OBVIOUS
<1> QED BY <1>3, <1>4 DEF K

\* Parts that differ in reasoning only make inputs that do.
LEMMA SpokenParts ==
  ASSUME NEW S, NEW ss \in Seq(Seq(S)), NEW uu \in Seq(Seq(S)), Len(uu) = Len(ss),
         \A n \in 1 .. Len(ss) : uu[n] = Spoken(ss[n])
  PROVE  Spoken(FlattenSeq(ss)) = FlattenSeq(uu)
<1> DEFINE l == Len(ss)
           K == {k \in Nat : k <= l => Spoken(UpTo(ss, k)) = UpTo(uu, k)}
<1>0. l \in Nat /\ l \in 0 .. Len(ss) /\ l \in 0 .. Len(uu)
  OBVIOUS
<1>1. 0 \in K
  <2>1. UpTo(ss, 0) = <<>> /\ UpTo(uu, 0) = <<>>
    BY <1>0, UpToStep
  <2> QED BY <2>1, SpokenOne
<1>2. ASSUME NEW k \in Nat, k \in K PROVE k + 1 \in K
  <2>1. SUFFICES ASSUME k + 1 <= l PROVE Spoken(UpTo(ss, k + 1)) = UpTo(uu, k + 1)
    OBVIOUS
  <2>2. k \in 0 .. Len(ss) /\ k \in 0 .. Len(uu) /\ k < Len(ss) /\ k < Len(uu) /\ k <= l /\ k + 1 \in 1 .. l
    BY <2>1
  <2> DEFINE a == UpTo(ss, k)
             x == ss[k + 1]
  <2>3. a \in Seq(S) /\ UpTo(ss, k + 1) = a \o x
    BY <2>2, UpToStep
  <2>4. UpTo(uu, k + 1) = UpTo(uu, k) \o uu[k + 1]
    BY <2>2, UpToStep
  <2>5. Spoken(a) = UpTo(uu, k) /\ Spoken(x) = uu[k + 1] /\ x \in Seq(S)
    BY <1>2, <2>2
  <2> HIDE DEF a, x
  <2>6. Spoken(a \o x) = Spoken(a) \o Spoken(x)
    BY <2>3, <2>5, SpokenJoined
  <2> QED BY <2>3, <2>4, <2>5, <2>6
<1> HIDE DEF K, l
<1>3. l \in K
  BY <1>0, <1>1, <1>2, SetInduction
<1>4. UpTo(ss, l) = FlattenSeq(ss) /\ UpTo(uu, l) = FlattenSeq(uu)
  BY <1>0, UpToStep DEF l
<1>5. Spoken(UpTo(ss, l)) = UpTo(uu, l)
  BY <1>0, <1>3 DEF K
<1> QED BY <1>4, <1>5

\* An answer's text as an item, and what the Responses surface makes of an answer.
TextItem(n, e) == Message("assistant", <<Part("output_text", Text(n, e.content))>>)
Thoughts(n, e) == IF e.thought THEN <<Reasoning(n)>> ELSE <<>>
Words(n, e) == IF IsText(e.content) THEN <<TextItem(n, e)>> ELSE <<>>

\* Of an answer that a client hands back, the Responses surface changes the text's
\* type only (normalise_item).
LEMMA RespAnswer ==
  ASSUME NEW t, Right(t), NEW n \in DOMAIN t, t[n].role = "assistant"
  PROVE  RespItems(t, n) = (Thoughts(n, t[n]) \o Words(n, t[n])) \o CallItems(n, t[n])
<1> DEFINE e == t[n]
           raw == Message("assistant", e.content)
           a == IF e.thought THEN <<Reasoning(n)>> ELSE <<>>
           b == IF IsText(e.content) THEN <<raw>> ELSE <<>>
           c == CallItems(n, e)
           T == Range(c) \cup {raw, Reasoning(n)}
           G == [x \in T |-> NormaliseItem(n, x)]
           U == {NormaliseItem(n, x) : x \in T}
<1>1. DOMAIN t = 1 .. Len(t) /\ e.calls \in Nat /\ e.content.shape # "array"
  BY PartsAreSeqs DEF Right, EntryRight
<1>2. RawItems(t, n) = (a \o b) \o c
  <2>1. n \notin Prologue(t)
    <3>1. ~Instructs(t[n]) /\ n \in 1 .. n
      BY <1>1 DEF Instructs
    <3> QED BY <3>1 DEF Prologue
  <2>2. RawItems(t, n) = RawAnswer(n, e)
    BY <2>1, Zenon DEF RawItems
  <2>3. c = [k \in 1 .. e.calls |-> FunctionCall(CallIds(n, e)[k])]
    BY <1>1, AnswersAreSeq
  <2> QED BY <2>2, <2>3, Zenon DEF RawAnswer
<1>3. IsSeq(c) /\ Len(c) = e.calls /\ DOMAIN c = 1 .. e.calls
  BY <1>1, AnswersAreSeq, SeqIn
<1>4. /\ NormaliseItem(n, raw) = TextItem(n, e)
      /\ NormaliseItem(n, Reasoning(n)) = Reasoning(n)
      /\ \A k \in 1 .. e.calls : NormaliseItem(n, c[k]) = c[k]
  BY <1>1 DEF NormaliseItem, Message, RespContent, TextType, TextItem, Reasoning, FunctionCall, CallItems
<1>5. /\ raw \in T /\ Reasoning(n) \in T /\ \A k \in 1 .. e.calls : c[k] \in T
      /\ Maps(G, T, U) /\ G[raw] = NormaliseItem(n, raw) /\ G[Reasoning(n)] = NormaliseItem(n, Reasoning(n))
      /\ \A k \in 1 .. e.calls : G[c[k]] = NormaliseItem(n, c[k])
  <2>1. \A k \in 1 .. e.calls : c[k] \in Range(c)
    BY <1>3 DEF Range
  <2> HIDE DEF c
  <2> QED BY <2>1 DEF Maps
<1> DEFINE th == Reasoning(n)
           q == (a \o b) \o c
<1>6. RespItems(t, n) = [i \in DOMAIN q |-> NormaliseItem(n, q[i])]
  BY <1>2 DEF RespItems
<1> HIDE DEF raw, G, T, U, c, th
<1>7. a \in Seq(T) /\ b \in Seq(T) /\ c \in Seq(T)
  <2>1. a \in Seq(T)
    BY <1>5
  <2>2. b \in Seq(T)
    BY <1>5
  <2>3. c \in Seq(T)
    BY <1>3, <1>5, SeqIn
  <2> QED BY <2>1, <2>2, <2>3
<1>8. Mapped(G, a) = Thoughts(n, e)
  <2>1. CASE e.thought
    <3>1. Mapped(G, <<th>>) = <<G[th]>>
      BY DEF Mapped
    <3> QED BY <1>4, <1>5, <2>1, <3>1 DEF Thoughts, th
  <2>2. CASE ~e.thought
    <3>1. Mapped(G, <<>>) = <<>>
      BY DEF Mapped
    <3> QED BY <2>2, <3>1 DEF Thoughts
  <2> QED BY <2>1, <2>2
<1>9. Mapped(G, b) = Words(n, e)
  <2>1. CASE IsText(e.content)
    <3>1. Mapped(G, <<raw>>) = <<G[raw]>>
      BY DEF Mapped
    <3> QED BY <1>4, <1>5, <2>1, <3>1 DEF Words
  <2>2. CASE ~IsText(e.content)
    <3>1. Mapped(G, <<>>) = <<>>
      BY DEF Mapped
    <3> QED BY <2>2, <3>1 DEF Words
  <2> QED BY <2>1, <2>2
<1>10. Mapped(G, c) = c
  <2>1. \A k \in DOMAIN c : G[c[k]] = c[k]
    BY <1>3, <1>4, <1>5
  <2>2. c = [k \in DOMAIN c |-> c[k]]
    BY DEF c, CallItems
  <2> QED BY <2>1, <2>2 DEF Mapped
<1> HIDE DEF a, b
<1>11. q \in Seq(T) /\ Mapped(G, q) = (Mapped(G, a) \o Mapped(G, b)) \o Mapped(G, c)
  <2> DEFINE p == a \o b
  <2>1. p \in Seq(T) /\ Mapped(G, p) = Mapped(G, a) \o Mapped(G, b)
    BY <1>5, <1>7, MappedJoined
  <2> HIDE DEF p
  <2>2. Mapped(G, p \o c) = Mapped(G, p) \o Mapped(G, c)
    <3>1. p \in Seq(T) /\ c \in Seq(T) /\ Maps(G, T, U)
      BY <1>5, <1>7, <2>1
    <3> QED BY <3>1, MappedJoined
  <2>3. p \o c \in Seq(T)
    BY <1>7, <2>1
  <2> QED BY <2>1, <2>2, <2>3 DEF p
<1> HIDE DEF q
<1>12. \A i \in DOMAIN q : G[q[i]] = NormaliseItem(n, q[i])
  <2>1. \A i \in DOMAIN q : q[i] \in T
    BY <1>11
  <2> QED BY <2>1 DEF G
<1>13. RespItems(t, n) = Mapped(G, q)
  BY <1>6, <1>12 DEF Mapped
<1> QED BY <1>8, <1>9, <1>10, <1>11, <1>13 DEF c

\* And of what is not an answer.
LEMMA RespOther ==
  ASSUME NEW t, NEW n \in DOMAIN t, t[n].role # "assistant", n \notin Prologue(t)
  PROVE  RespItems(t, n) = IF t[n].role = "tool" THEN <<FunctionCallOutput(t[n].call)>>
                           ELSE <<Message(t[n].role, RespContent(n, t[n].content, t[n].role))>>
<1> DEFINE e == t[n]
           x == IF e.role = "tool" THEN FunctionCallOutput(e.call) ELSE Message(e.role, e.content)
<1>1. RawItems(t, n) = <<x>>
  BY DEF RawItems
<1>2. NormaliseItem(n, x) = IF e.role = "tool" THEN FunctionCallOutput(e.call)
                            ELSE Message(e.role, RespContent(n, e.content, e.role))
  BY DEF NormaliseItem, FunctionCallOutput, Message
<1>3. RespItems(t, n) = [i \in DOMAIN <<x>> |-> NormaliseItem(n, <<x>>[i])]
  BY <1>1 DEF RespItems
<1> HIDE DEF x
<1>4. RespItems(t, n) = <<NormaliseItem(n, x)>>
  BY <1>3
<1> QED BY <1>2, <1>4

\* What Chat Completions makes of what does not begin the conversation (to_wire).
LEMMA ChatOther ==
  ASSUME NEW t, Right(t), NEW n \in DOMAIN t, ~Leading(t, n), ~ChatMessageRefused(t[n])
  PROVE  LET e == t[n] IN
         /\ e.role \in {"system", "developer", "user", "assistant", "tool"}
         /\ Instructs(e) => ChatItems(t, n) = <<Message("user", <<Part("input_text", Text(n, e.content))>>)>>
         /\ e.role = "user" => ChatItems(t, n) = <<Message("user", ChatContent(n, e.content))>>
         /\ e.role = "assistant" => ChatItems(t, n) = Words(n, e) \o CallItems(n, e)
         /\ e.role = "tool" => ChatItems(t, n) = <<FunctionCallOutput(e.call)>> /\ e.call # Nothing
<1> DEFINE e == t[n]
<1>1. e.role \in {"system", "developer", "user", "assistant", "tool"} /\ (e.role = "tool" => e.call # Nothing)
  BY DEF ChatMessageRefused
<1>2. Instructs(e) => ChatItems(t, n) = <<Message("user", <<Part("input_text", Text(n, e.content))>>)>>
  BY <1>1 DEF ChatItems, Instructs
<1>3. e.role = "user" => ChatItems(t, n) = <<Message("user", ChatContent(n, e.content))>>
  BY DEF ChatItems, Instructs
<1>4. e.role = "tool" => ChatItems(t, n) = <<FunctionCallOutput(e.call)>>
  BY DEF ChatItems, Instructs
<1>5. ASSUME e.role = "assistant" PROVE ChatItems(t, n) = Words(n, e) \o CallItems(n, e)
  <2>1. e.calls \in Nat /\ IsContent(e.content) /\ e.content.shape # "array"
    BY <1>5, PartsAreSeqs DEF Right, EntryRight
  <2>2. ChatItems(t, n) = ChatAnswer(n, e)
    BY <1>5 DEF ChatItems, Instructs
  <2>3. IsText(e.content) => Text(n, e.content).parts # {}
    <3>1. ASSUME IsText(e.content) PROVE 1 \in DOMAIN e.content.parts /\ e.content.parts[1] = "text"
      BY <2>1, <3>1 DEF IsText, IsContent
    <3> QED BY <3>1 DEF Text
  <2>4. CallItems(n, e) = [k \in 1 .. e.calls |-> FunctionCall(CallIds(n, e)[k])]
    BY <2>1, AnswersAreSeq
  <2>5. ChatAnswer(n, e) = (IF IsText(e.content) THEN <<TextItem(n, e)>> ELSE <<>>) \o CallItems(n, e)
    BY <2>3, <2>4 DEF ChatAnswer, TextItem
  <2> QED BY <2>2, <2>5 DEF Words
<1> QED BY <1>1, <1>2, <1>3, <1>4, <1>5

\* What a surface says of an entry is what the other says, but for the reasoning
\* (to_wire of both surfaces).
LEMMA SameItems ==
  ASSUME NEW t, Right(t), NEW n \in DOMAIN t, ~ChatMessageRefused(t[n]),
         Instructs(t[n]) => n \in Prologue(t)
  PROVE  Spoken(ItemsOf("responses", t, n)) = ItemsOf("chat", t, n)
<1> DEFINE e == t[n]
<1>1. DOMAIN t = 1 .. Len(t) /\ Len(t) \in Nat
  BY PartsAreSeqs
<1>2. EntryRight(t, n)
  BY <1>1 DEF Right
<1>3. ItemsOf("responses", t, n) = RespItems(t, n) /\ ItemsOf("chat", t, n) = ChatItems(t, n)
  BY DEF ItemsOf
<1>4. Leading(t, n) <=> (n \in Prologue(t))
  BY <1>1, LeadingFacts
<1>5. CASE Leading(t, n)
  <2>1. ItemsOf("responses", t, n) = <<>> /\ ItemsOf("chat", t, n) = <<>>
    BY <1>1, <1>5, LeadingFacts
  <2> QED BY <2>1, SpokenOne
<1>6. CASE ~Leading(t, n) /\ e.role = "user"
  <2>1. RespItems(t, n) = <<Message("user", RespContent(n, e.content, "user"))>>
    BY <1>4, <1>6, RespOther
  <2>2. ChatItems(t, n) = <<Message("user", ChatContent(n, e.content))>>
    BY <1>6, ChatOther
  <2>3. RespContent(n, e.content, "user") = ChatContent(n, e.content)
    <3>1. ~ChatContentRefused(e.content)
      BY <1>6 DEF ChatMessageRefused
    <3>2. /\ e.content.shape # "null"
          /\ \A i \in DOMAIN e.content.parts : e.content.parts[i] \in {"text", "image_url"}
      BY <3>1 DEF ChatContentRefused, ChatPartType
    <3>3. CASE e.content.shape = "string"
      BY <3>3 DEF RespContent, ChatContent, TextType
    <3>4. CASE e.content.shape = "array"
      <4>1. \A i \in DOMAIN e.content.parts :
              NormalPart(e.content.parts[i], "user") = ChatPartType[e.content.parts[i]]
        BY <3>2 DEF NormalPart, TextType, ChatPartType
      <4> QED BY <3>4, <4>1 DEF RespContent, ChatContent
    <3> QED BY <1>2, <3>2, <3>3, <3>4 DEF EntryRight, IsContent
  <2> DEFINE x == Message("user", ChatContent(n, e.content))
  <2>4. x.type = "message"
    BY DEF Message
  <2> HIDE DEF x
  <2>5. Spoken(<<x>>) = <<x>>
    BY <2>4, SpokenOne
  <2> QED BY <1>3, <2>1, <2>2, <2>3, <2>5 DEF x
<1>7. CASE ~Leading(t, n) /\ e.role = "tool"
  <2>1. RespItems(t, n) = <<FunctionCallOutput(e.call)>>
    BY <1>4, <1>7, RespOther
  <2>2. ChatItems(t, n) = <<FunctionCallOutput(e.call)>>
    BY <1>7, ChatOther
  <2> DEFINE x == FunctionCallOutput(e.call)
  <2>3. x.type # "reasoning"
    BY DEF FunctionCallOutput
  <2> HIDE DEF x
  <2>4. Spoken(<<x>>) = <<x>>
    BY <2>3, SpokenOne
  <2> QED BY <1>3, <2>1, <2>2, <2>4 DEF x
<1>8. CASE ~Leading(t, n) /\ e.role = "assistant"
  <2> DEFINE a == Thoughts(n, e)
             b == Words(n, e)
             c == CallItems(n, e)
             T == Range(c) \cup {TextItem(n, e), Reasoning(n)}
  <2>1. RespItems(t, n) = (a \o b) \o c
    BY <1>8, RespAnswer
  <2>2. ChatItems(t, n) = b \o c
    BY <1>8, ChatOther
  <2>3. e.calls \in Nat /\ c \in Seq(T)
    <3>1. e.calls \in Nat
      BY <1>2 DEF EntryRight
    <3>2. IsSeq(c)
      BY <3>1, AnswersAreSeq
    <3>3. \A i \in DOMAIN c : c[i] \in T
      BY DEF Range
    <3> HIDE DEF c, T
    <3> QED BY <3>1, <3>2, <3>3, SeqIn
  <2>4. Len(c) = e.calls /\ \A i \in 1 .. Len(c) : c[i].type # "reasoning"
    <3>1. Len(c) = e.calls
      BY <2>3, AnswersAreSeq
    <3>2. \A i \in 1 .. e.calls : c[i].type # "reasoning"
      BY DEF CallItems, FunctionCall
    <3> QED BY <3>1, <3>2
  <2>5. TextItem(n, e).type # "reasoning" /\ Reasoning(n).type = "reasoning"
    BY DEF TextItem, Message, Reasoning
  <2>6. TextItem(n, e) \in T /\ Reasoning(n) \in T
    OBVIOUS
  <2> HIDE DEF c, T
  <2>7. a \in Seq(T) /\ Spoken(a) = <<>>
    BY <2>5, <2>6, SpokenOne DEF Thoughts
  <2>8. b \in Seq(T) /\ Spoken(b) = b
    BY <2>5, <2>6, SpokenOne DEF Words
  <2>9. Spoken(c) = c
    BY <2>3, <2>4, SpokenAll
  <2> HIDE DEF a, b
  <2>10. a \o b \in Seq(T) /\ Spoken(a \o b) = b
    <3>1. Spoken(a \o b) = <<>> \o b
      BY <2>7, <2>8, SpokenJoined
    <3>2. <<>> \o b = b /\ a \o b \in Seq(T)
      BY <2>7, <2>8
    <3> QED BY <3>1, <3>2
  <2> DEFINE p == a \o b
  <2> HIDE DEF p
  <2>11. Spoken(p \o c) = b \o c
    <3>1. p \in Seq(T) /\ c \in Seq(T) /\ Spoken(p) = b
      BY <2>3, <2>10 DEF p
    <3>2. Spoken(p \o c) = Spoken(p) \o Spoken(c)
      BY <3>1, SpokenJoined
    <3> QED BY <2>9, <3>1, <3>2
  <2> QED BY <1>3, <2>1, <2>2, <2>11 DEF p
<1>9. e.role \in {"system", "developer", "user", "assistant", "tool"}
  BY DEF ChatMessageRefused
<1> QED BY <1>4, <1>5, <1>6, <1>7, <1>8, <1>9 DEF Instructs

\* The surfaces that take a turn make the same of it, each of all that it says.
AskedFor(s, t, r, id, effort) ==
  Known(s, t) /\ IsRequest(s, r, id, FlattenSeq(InstructedBy(t)), FlattenSeq(SaidBy(s, t)), effort)

Asked ==
  /\ accepted \subseteq Surface
  /\ waiting => \E id : \E effort : \A s \in accepted : \E r : last[s] = <<r>> /\ AskedFor(s, talk, r, id, effort)

\* As long as the turn is under way.
LEMMA AskedStep == TalkRight /\ Asked /\ [Next]_vars => Asked'
<1> SUFFICES ASSUME TalkRight, Asked, [Next]_vars
             PROVE  Asked'
  OBVIOUS
<1>1. ASSUME UNCHANGED settings, NEW s, NEW r, NEW id, NEW effort, NEW u, u = talk', AskedFor(s, u, r, id, effort)
      PROVE  AskedFor(s, talk, r, id, effort)'
  <2> DEFINE instructions == FlattenSeq(InstructedBy(u))
             input == FlattenSeq(SaidBy(s, u))
  <2>1. Known(s, u) /\ IsRequest(s, r, id, instructions, input, effort)
    BY <1>1 DEF AskedFor
  <2> HIDE DEF instructions, input
  <2>2. settings' = settings
    BY <1>1
  <2>3. SessionId' = SessionId
    BY <2>2, Zenon DEF SessionId
  <2>4. IsRequest(s, r, id, instructions, input, effort)'
    BY <2>1, <2>2, <2>3 DEF IsRequest, RouteOf, ToolsOf
  <2> QED BY <1>1, <2>1, <2>4 DEF AskedFor, instructions, input
<1>2. ASSUME NEW i \in DOMAIN Picker, NEW effort, Ask(Picker[i].id, effort) PROVE Asked'
  <2> DEFINE id == Picker[i].id
             of(s) == Stream(ToWire(s, id, effort))
  <2>1. /\ UNCHANGED <<settings, talk>> /\ accepted' = {s \in Surface : ~Refused(s)}
        /\ last' = [s \in Surface |-> IF Refused(s) THEN last[s] ELSE <<of(s)>>]
    BY <1>2 DEF Ask
  <2>2. ASSUME NEW s \in accepted' PROVE \E r : last'[s] = <<r>> /\ AskedFor(s, talk, r, id, effort)
    <3>1. s \in Surface /\ ~Refused(s)
      BY <2>1
    <3>2. last'[s] = <<of(s)>>
      BY <2>1, <3>1
    <3>3. AskedFor(s, talk, of(s), id, effort)
      BY <3>1, StreamIs DEF AskedFor
    <3> QED BY <3>2, <3>3
  <2>3. PICK h : h = id
    OBVIOUS
  <2>4. ASSUME NEW s \in accepted' PROVE \E r : last'[s] = <<r>> /\ AskedFor(s, talk, r, h, effort)'
    <3>1. PICK r : last'[s] = <<r>> /\ AskedFor(s, talk, r, h, effort)
      BY <2>2, <2>3
    <3>2. PICK u : u = talk' /\ u = talk
      BY <2>1
    <3>3. AskedFor(s, talk, r, h, effort)'
      BY <1>1, <2>1, <3>1, <3>2
    <3> QED BY <3>1, <3>3
  <2> QED BY <2>1, <2>4 DEF Asked
<1>3. CASE accepted' = accepted /\ ~waiting'
  BY <1>3 DEF Asked
<1>4. ASSUME UNCHANGED vars PROVE Asked'
  <2>1. UNCHANGED <<settings, talk, last, accepted, waiting>>
    BY <1>4 DEF vars
  <2>2. SUFFICES ASSUME waiting
                 PROVE  \E id : \E effort : \A s \in accepted : \E r : last'[s] = <<r>> /\ AskedFor(s, talk, r, id, effort)'
    BY <2>1 DEF Asked
  <2>3. PICK id, effort : \A s \in accepted : \E r : last[s] = <<r>> /\ AskedFor(s, talk, r, id, effort)
    BY <2>2 DEF Asked
  <2>4. ASSUME NEW s \in accepted PROVE \E r : last'[s] = <<r>> /\ AskedFor(s, talk, r, id, effort)'
    <3>1. PICK r : last[s] = <<r>> /\ AskedFor(s, talk, r, id, effort)
      BY <2>3
    <3>2. PICK u : u = talk' /\ u = talk
      BY <2>1
    <3>3. AskedFor(s, talk, r, id, effort)'
      BY <1>1, <2>1, <3>1, <3>2
    <3> QED BY <2>1, <3>1, <3>3
  <2> QED BY <2>4
<1>5. (\E entry \in Entries : Say(entry)) \/ ReportResult \/ (\E reply \in Replies : Answer(reply)) \/ Fail
        => accepted' = accepted /\ ~waiting'
  <2>1. ASSUME NEW e, Write(e) PROVE accepted' = accepted /\ ~waiting'
    BY <2>1 DEF Write, GoesOn
  <2>2. (\E entry \in Entries : Say(entry)) \/ ReportResult => \E e : Write(e)
    BY DEF Say, ReportResult
  <2>3. (\E reply \in Replies : Answer(reply)) \/ Fail => accepted' = accepted /\ ~waiting'
    BY DEF Answer, Fail
  <2> QED BY <2>1, <2>2, <2>3
<1> QED BY <1>2, <1>3, <1>4, <1>5 DEF Next

\* Both are kept together.
LEMMA AskedInvariant == Spec => [](TalkRight /\ Asked)
<1>1. Init => TalkRight /\ Asked
  BY ConversationInit DEF ConversationInv, Init, Asked
<1>2. (TalkRight /\ Asked) /\ [Next]_vars => (TalkRight /\ Asked)'
  BY TalkStep, AskedStep
<1> QED BY <1>1, <1>2, PTL DEF Spec

\* What one surface says of a conversation is what the other says of it.
LEMMA SameInput ==
  ASSUME NEW t, Right(t), Known("chat", t), \A n \in DOMAIN t : Instructs(t[n]) => n \in Prologue(t)
  PROVE  Spoken(FlattenSeq(SaidBy("responses", t))) = FlattenSeq(SaidBy("chat", t))
<1> DEFINE p == SaidBy("responses", t)
           q == SaidBy("chat", t)
           l == Len(t)
<1>1. /\ DOMAIN t = 1 .. l /\ Len(p) = l /\ Len(q) = l
      /\ (\E S : p \in Seq(Seq(S))) /\ \E S : q \in Seq(Seq(S))
  <2>1. Known("responses", t)
    BY DEF Known
  <2> QED BY <2>1, PartsAreSeqs
<1>2. \A n \in 1 .. l : q[n] = Spoken(p[n])
  <2>1. TAKE n \in 1 .. l
  <2>2. ~ChatMessageRefused(t[n]) /\ n \in DOMAIN t
    BY <1>1 DEF Known
  <2>3. Spoken(ItemsOf("responses", t, n)) = ItemsOf("chat", t, n)
    BY <2>2, SameItems
  <2>4. p[n] = ItemsOf("responses", t, n) /\ q[n] = ItemsOf("chat", t, n)
    BY <2>2 DEF SaidBy
  <2> QED BY <2>3, <2>4
<1> HIDE DEF p, q, l
<1>3. \E S : p \in Seq(Seq(S)) /\ q \in Seq(Seq(S))
  <2>1. PICK S : p \in Seq(Seq(S))
    BY <1>1
  <2>2. PICK R : q \in Seq(Seq(R))
    BY <1>1
  <2> DEFINE B == S \cup R
  <2>3. \A i \in 1 .. Len(p) : p[i] \in Seq(B)
    <3>1. \A x \in Seq(S) : x \in Seq(B)
      OBVIOUS
    <3>2. \A i \in 1 .. Len(p) : p[i] \in Seq(S)
      BY <2>1
    <3> QED BY <3>1, <3>2
  <2>4. \A i \in 1 .. Len(q) : q[i] \in Seq(B)
    <3>1. \A x \in Seq(R) : x \in Seq(B)
      OBVIOUS
    <3>2. \A i \in 1 .. Len(q) : q[i] \in Seq(R)
      BY <2>2
    <3> QED BY <3>1, <3>2
  <2> DEFINE V == Seq(B)
  <2> HIDE DEF V, B
  <2>5. p \in Seq(V) /\ q \in Seq(V)
    <3>1. IsSeq(p) /\ DOMAIN p = 1 .. Len(p) /\ IsSeq(q) /\ DOMAIN q = 1 .. Len(q)
      BY <2>1, <2>2, SeqIs
    <3>2. (\A i \in DOMAIN p : p[i] \in V) /\ \A i \in DOMAIN q : q[i] \in V
      BY <2>3, <2>4, <3>1 DEF V
    <3> QED BY <3>1, <3>2, SeqIn
  <2> QED BY <2>5 DEF V
<1>4. PICK S : p \in Seq(Seq(S)) /\ q \in Seq(Seq(S))
  BY <1>3
<1>5. Spoken(FlattenSeq(p)) = FlattenSeq(q)
  BY <1>1, <1>2, <1>4, SpokenParts
<1> QED BY <1>5 DEF p, q

\* The same conversation is the same request whichever surface it is held through,
\* item for item, but for the reasoning, which Chat Completions cannot hand back, for
\* instructions given after the start, which it relabels, and for the defaults that
\* it fills into tools (to_wire of both surfaces): for every conversation.
THEOREM RequestsSafe == Spec => []RequestsAgree
<1>1. TalkRight /\ Asked => RequestsAgree
  <2> SUFFICES ASSUME TalkRight, Asked, waiting, accepted = Surface, NoLateInstructions
               PROVE  LET said == last["responses"][1].body
                          asked == last["chat"][1].body
                      IN [said EXCEPT !.input = Spoken(@), !.tools = Filled(@),
                                      !.promptCacheKey = asked.promptCacheKey] = asked
    BY DEF RequestsAgree
  <2>1. PICK id, effort : \A s \in accepted : \E r : last[s] = <<r>> /\ AskedFor(s, talk, r, id, effort)
    BY DEF Asked
  <2>2. PICK p : last["responses"] = <<p>> /\ AskedFor("responses", talk, p, id, effort)
    BY <2>1 DEF Surface
  <2>3. PICK q : last["chat"] = <<q>> /\ AskedFor("chat", talk, q, id, effort)
    BY <2>1 DEF Surface
  <2> DEFINE instructions == FlattenSeq(InstructedBy(talk))
             said == FlattenSeq(SaidBy("responses", talk))
             asked == FlattenSeq(SaidBy("chat", talk))
             one == RouteOf("responses", WireModel(id), instructions, said)
             two == RouteOf("chat", WireModel(id), instructions, asked)
  <2>4. Spoken(said) = asked
    <3>1. Right(talk) /\ Known("chat", talk)
      BY <2>3 DEF TalkRight, AskedFor
    <3>2. \A n \in DOMAIN talk : Instructs(talk[n]) => n \in Prologue(talk)
      BY DEF NoLateInstructions
    <3> QED BY <3>1, <3>2, SameInput
  <2> DEFINE slug == WireModel(id)
             tools == settings.tools.list
             filled == Filled(tools)
  <2>5. /\ p.body = [model |-> slug, instructions |-> instructions, input |-> said,
                     tools |-> tools, effort |-> effort, promptCacheKey |-> one]
        /\ q.body = [model |-> slug, instructions |-> instructions, input |-> asked,
                     tools |-> filled, effort |-> effort, promptCacheKey |-> two]
    <3>1. ToolsOf("responses").list = tools
      BY DEF ToolsOf
    <3>2. ToolsOf("chat").list = filled
      BY DEF ToolsOf, ChatTools
    <3> QED BY <2>2, <2>3, <3>1, <3>2 DEF AskedFor, IsRequest
  <2> HIDE DEF instructions, said, asked, one, two, slug, filled
  <2>6. [p.body EXCEPT !.input = Spoken(@), !.tools = Filled(@), !.promptCacheKey = q.body.promptCacheKey] = q.body
    <3>1. q.body.promptCacheKey = two
      BY <2>5
    <3>2. PICK x, y : x = p.body /\ y = Spoken(said)
      OBVIOUS
    <3>3. /\ x = [model |-> slug, instructions |-> instructions, input |-> said,
                  tools |-> tools, effort |-> effort, promptCacheKey |-> one]
          /\ x.input = said /\ x.tools = tools
      BY <2>5, <3>2
    <3>4. PICK z : z = [x EXCEPT !.input = y]
      OBVIOUS
    <3>5. z = [model |-> slug, instructions |-> instructions, input |-> y,
               tools |-> tools, effort |-> effort, promptCacheKey |-> one]
      BY <3>3, <3>4
    <3>6. PICK w : w = [z EXCEPT !.tools = filled]
      OBVIOUS
    <3>7. w = [model |-> slug, instructions |-> instructions, input |-> y,
               tools |-> filled, effort |-> effort, promptCacheKey |-> one]
      BY <3>5, <3>6
    <3>8. [w EXCEPT !.promptCacheKey = two]
            = [model |-> slug, instructions |-> instructions, input |-> y,
               tools |-> filled, effort |-> effort, promptCacheKey |-> two]
      BY <3>7
    <3>9. [x EXCEPT !.input = y, !.tools = filled, !.promptCacheKey = two] = [w EXCEPT !.promptCacheKey = two]
      BY <3>4, <3>6
    <3>10. y = asked
      BY <2>4, <3>2 DEF said, asked
    <3>11. [x EXCEPT !.input = Spoken(@), !.tools = Filled(@), !.promptCacheKey = q.body.promptCacheKey]
             = [x EXCEPT !.input = y, !.tools = filled, !.promptCacheKey = two]
      BY <3>1, <3>2, <3>3 DEF filled
    <3> QED BY <2>5, <3>2, <3>8, <3>9, <3>10, <3>11
  <2>7. last["responses"][1] = p /\ last["chat"][1] = q
    BY <2>2, <2>3
  <2> QED BY <2>6, <2>7
<1> QED BY <1>1, AskedInvariant, PTL

-----------------------------------------------------------------------------
(* What a request says.                                                    *)

\* An answer is said with its text, its calls and, where it can be, its reasoning.
LEMMA AnswerSays ==
  ASSUME NEW s \in Surface, NEW t, Right(t), Known(s, t), NEW n \in DOMAIN t, t[n].role = "assistant"
  PROVE  /\ IsText(t[n].content) => TextItem(n, t[n]) \in Range(ItemsOf(s, t, n))
         /\ \A k \in 1 .. t[n].calls : FunctionCall(<<n, k>>) \in Range(ItemsOf(s, t, n))
         /\ s = "responses" /\ t[n].thought => Reasoning(n) \in Range(ItemsOf(s, t, n))
<1> DEFINE e == t[n]
           a == Thoughts(n, e)
           b == Words(n, e)
           c == CallItems(n, e)
           T == Range(c) \cup {TextItem(n, e), Reasoning(n)}
<1>1. DOMAIN t = 1 .. Len(t) /\ e.calls \in Nat
  BY PartsAreSeqs DEF Right, EntryRight
<1>2. IsSeq(c) /\ DOMAIN c = 1 .. e.calls
  BY <1>1, AnswersAreSeq, SeqIn
<1>3. TextItem(n, e) \in T /\ Reasoning(n) \in T /\ \A i \in DOMAIN c : c[i] \in T
  BY DEF Range
<1>4. \A k \in 1 .. e.calls : FunctionCall(<<n, k>>) \in Range(c)
  <2>1. \A k \in 1 .. e.calls : c[k] = FunctionCall(<<n, k>>)
    BY DEF CallItems
  <2> HIDE DEF c
  <2> QED BY <1>2, <2>1 DEF Range
<1> HIDE DEF c, T
<1>5. a \in Seq(T) /\ b \in Seq(T) /\ c \in Seq(T)
  <2>1. a \in Seq(T)
    BY <1>3 DEF Thoughts
  <2>2. b \in Seq(T)
    BY <1>3 DEF Words
  <2>3. c \in Seq(T)
    BY <1>2, <1>3, SeqIn
  <2> QED BY <2>1, <2>2, <2>3
<1>6. /\ IsText(e.content) => TextItem(n, e) \in Range(b)
      /\ e.thought => Reasoning(n) \in Range(a)
  <2>1. \A x : x \in Range(<<x>>)
    <3>1. TAKE x
    <3>2. 1 \in DOMAIN <<x>> /\ <<x>>[1] = x
      OBVIOUS
    <3> QED BY <3>2 DEF Range
  <2> QED BY <2>1 DEF Words, Thoughts
<1> HIDE DEF a, b
<1>7. CASE s = "chat"
  <2>1. ~ChatMessageRefused(e)
    BY <1>7 DEF Known
  <2>2. ~Leading(t, n)
    <3>1. n \in 1 .. n /\ ~Instructs(e)
      BY <1>1 DEF Instructs
    <3> QED BY <3>1 DEF Leading
  <2>3. ItemsOf(s, t, n) = b \o c
    BY <1>7, <2>1, <2>2, ChatOther DEF ItemsOf, b, c
  <2>4. Range(b) \cup Range(c) \subseteq Range(b \o c)
    BY <1>5, RangeJoined
  <2> QED BY <1>4, <1>6, <1>7, <2>3, <2>4
<1>8. CASE s # "chat"
  <2>1. ItemsOf(s, t, n) = (a \o b) \o c
    BY <1>8, RespAnswer DEF ItemsOf, a, b, c
  <2> DEFINE p == a \o b
  <2>2. p \in Seq(T) /\ Range(a) \cup Range(b) \subseteq Range(p)
    BY <1>5, RangeJoined
  <2> HIDE DEF p
  <2>3. Range(p) \cup Range(c) \subseteq Range(p \o c)
    BY <1>5, <2>2, RangeJoined
  <2> QED BY <1>4, <1>6, <2>1, <2>2, <2>3 DEF p
<1> QED BY <1>7, <1>8

\* An item says part i of entry n.
SaysPart(item, n, i) ==
  item.type = "message" /\ \E part \in Range(item.content) : part.text.n = n /\ i \in part.text.parts

\* A content that is one text says the texts it was joined from.
LEMMA PartSaid ==
  ASSUME NEW n, NEW i, NEW type, NEW role, NEW content, i \in DOMAIN content.parts, content.parts[i] = "text"
  PROVE  SaysPart(Message(role, <<Part(type, Text(n, content))>>), n, i)
<1> DEFINE x == Part(type, Text(n, content))
           m == Message(role, <<x>>)
<1>1. x.text.n = n /\ i \in x.text.parts
  BY DEF Part, Text
<1> HIDE DEF x
<1>2. m.type = "message" /\ m.content = <<x>>
  BY DEF Message
<1> HIDE DEF m
<1>3. x \in Range(m.content)
  <2>1. 1 \in DOMAIN <<x>> /\ <<x>>[1] = x
    OBVIOUS
  <2> QED BY <1>2, <2>1 DEF Range
<1>4. SaysPart(m, n, i)
  BY <1>1, <1>2, <1>3 DEF SaysPart
<1> QED BY <1>4 DEF m, x

\* One that is a list says each of its parts.
LEMMA ListSaid ==
  ASSUME NEW n, NEW i, NEW role, NEW list, i \in DOMAIN list, NEW type,
         list[i] = Part(type, [n |-> n, parts |-> {i}])
  PROVE  SaysPart(Message(role, list), n, i)
<1> DEFINE m == Message(role, list)
<1>1. list[i].text.n = n /\ i \in list[i].text.parts
  BY DEF Part
<1>2. m.type = "message" /\ m.content = list
  BY DEF Message
<1>3. list[i] \in Range(list)
  BY DEF Range
<1> HIDE DEF m
<1>4. SaysPart(m, n, i)
  BY <1>1, <1>2, <1>3 DEF SaysPart
<1> QED BY <1>4 DEF m

\* What is promised of an entry that does not begin the conversation is said.
LEMMA PromiseKept ==
  ASSUME TalkRight, NEW s \in Surface, Known(s, talk), NEW n \in DOMAIN talk, ~Leading(talk, n),
         NEW i \in DOMAIN talk[n].content.parts, Translated(s, n, i)
  PROVE  \E item \in Range(ItemsOf(s, talk, n)) : SaysPart(item, n, i)
<1> DEFINE e == talk[n]
           part == e.content.parts[i]
<1>1. /\ DOMAIN talk = 1 .. Len(talk) /\ Right(talk) /\ EntryRight(talk, n)
      /\ n \notin Prologue(talk) /\ i \in DOMAIN e.content.parts
  BY PartsAreSeqs, LeadingFacts DEF TalkRight, Right
<1>2. e.content.shape # "null" /\ e.role # "tool" /\ (e.content.shape = "string" => part = "text")
  <2>1. IsContent(e.content) /\ (e.role = "tool" => e.content = NoContent)
    BY <1>1 DEF EntryRight
  <2>2. e.content.parts # <<>>
    BY <1>1
  <2>3. e.content.parts = <<"text">> => part = "text"
    <3>1. DOMAIN <<"text">> = {1} /\ <<"text">>[1] = "text"
      OBVIOUS
    <3> QED BY <1>1, <3>1
  <2> QED BY <2>1, <2>2, <2>3 DEF IsContent, NoContent
<1>3. \A x : x \in Range(<<x>>)
  <2>1. TAKE x
  <2>2. 1 \in DOMAIN <<x>> /\ <<x>>[1] = x
    OBVIOUS
  <2> QED BY <2>2 DEF Range
<1>4. CASE e.role = "assistant"
  <2>1. IsText(e.content) /\ part = "text"
    BY <1>1, <1>2, <1>4 DEF IsText, EntryRight, IsContent
  <2>2. TextItem(n, e) \in Range(ItemsOf(s, talk, n))
    BY <1>1, <1>4, <2>1, AnswerSays
  <2>3. SaysPart(TextItem(n, e), n, i)
    BY <1>1, <2>1, PartSaid DEF TextItem
  <2> QED BY <2>2, <2>3
<1>5. CASE s = "chat" /\ e.role # "assistant"
  <2>1. ~ChatMessageRefused(e) /\ ItemsOf(s, talk, n) = ChatItems(talk, n)
    BY <1>5 DEF Known, ItemsOf
  <2>2. CASE Instructs(e)
    <3>1. part = "text"
      BY <1>5, <2>2 DEF Translated, Instructs
    <3> DEFINE x == Message("user", <<Part("input_text", Text(n, e.content))>>)
    <3>2. ItemsOf(s, talk, n) = <<x>>
      BY <1>1, <2>1, <2>2, ChatOther
    <3>3. SaysPart(x, n, i)
      BY <1>1, <3>1, PartSaid
    <3> HIDE DEF x
    <3> QED BY <1>3, <3>2, <3>3
  <2>3. CASE e.role = "user"
    <3> DEFINE x == Message("user", ChatContent(n, e.content))
    <3>1. ItemsOf(s, talk, n) = <<x>>
      BY <1>1, <2>1, <2>3, ChatOther
    <3>2. SaysPart(x, n, i)
      <4>1. CASE e.content.shape = "string"
        <5>1. ChatContent(n, e.content) = <<Part("input_text", Text(n, e.content))>>
          BY <4>1 DEF ChatContent
        <5>2. SaysPart(Message("user", <<Part("input_text", Text(n, e.content))>>), n, i)
          BY <1>1, <1>2, <4>1, PartSaid
        <5> QED BY <5>1, <5>2
      <4>2. CASE e.content.shape # "string"
        <5> DEFINE list == ChatContent(n, e.content)
        <5>1. i \in DOMAIN list /\ list[i] = Part(ChatPartType[part], [n |-> n, parts |-> {i}])
          BY <1>1, <4>2 DEF ChatContent
        <5> HIDE DEF list
        <5>2. SaysPart(Message("user", list), n, i)
          BY <5>1, ListSaid
        <5> QED BY <5>2 DEF list
      <4> QED BY <4>1, <4>2
    <3> HIDE DEF x
    <3> QED BY <1>3, <3>1, <3>2
  <2>4. e.role \in {"system", "developer", "user", "assistant", "tool"}
    BY <2>1 DEF ChatMessageRefused
  <2> QED BY <1>2, <1>5, <2>2, <2>3, <2>4 DEF Instructs
<1>6. CASE s # "chat" /\ e.role # "assistant"
  <2> DEFINE list == RespContent(n, e.content, e.role)
             x == Message(e.role, list)
  <2>1. ItemsOf(s, talk, n) = <<x>>
    BY <1>1, <1>2, <1>6, RespOther DEF ItemsOf
  <2>2. SaysPart(x, n, i)
    <3>1. CASE e.content.shape = "array"
      <4>1. i \in DOMAIN list /\ list[i] = Part(NormalPart(part, e.role), [n |-> n, parts |-> {i}])
        BY <1>1, <3>1 DEF RespContent
      <4> HIDE DEF list
      <4>2. SaysPart(Message(e.role, list), n, i)
        BY <4>1, ListSaid
      <4> QED BY <4>2 DEF list
    <3>2. CASE e.content.shape # "array"
      <4>1. list = <<Part(TextType(e.role), Text(n, e.content))>>
        BY <3>2 DEF RespContent
      <4>2. part = "text"
        BY <1>1, <1>2, <3>2 DEF EntryRight, IsContent
      <4>3. SaysPart(Message(e.role, <<Part(TextType(e.role), Text(n, e.content))>>), n, i)
        BY <1>1, <4>2, PartSaid
      <4> QED BY <4>1, <4>3
    <3> QED BY <3>1, <3>2
  <2> HIDE DEF x
  <2> QED BY <1>3, <2>1, <2>2
<1> QED BY <1>4, <1>5, <1>6

\* The result of a call comes after the call.
LEMMA ResultAfterCall ==
  ASSUME NEW s \in Surface, NEW t, Right(t), Known(s, t), NEW n \in DOMAIN t, t[n].call # Nothing
  PROVE  Answered(FlattenSeq(SaidBy(s, t)), t[n].call)
<1> DEFINE e == t[n]
           p == SaidBy(s, t)
           input == FlattenSeq(p)
<1>1. /\ DOMAIN t = 1 .. Len(t) /\ Len(t) \in Nat /\ Len(p) = Len(t) /\ \E S : p \in Seq(Seq(S))
      /\ EntryRight(t, n)
  BY PartsAreSeqs DEF Right
<1>0. PICK m \in 1 .. n - 1 : \E k \in 1 .. t[m].calls : e.call = <<m, k>>
  BY <1>1 DEF EntryRight
<1>2. PICK k \in 1 .. t[m].calls : e.call = <<m, k>>
  BY <1>0
<1>3. e.role = "tool"
  BY <1>1 DEF EntryRight
<1>4. /\ m \in DOMAIN t /\ n \in 1 .. Len(p) /\ m \in 1 .. Len(p) /\ n - 1 \in m .. Len(p)
      /\ p[n] = ItemsOf(s, t, n) /\ p[m] = ItemsOf(s, t, m)
  <2>1. m \in 1 .. Len(t) /\ n \in 1 .. Len(t) /\ n - 1 \in m .. Len(t)
    BY <1>1
  <2> QED BY <1>1, <2>1 DEF SaidBy
<1>5. t[m].role = "assistant"
  <2>1. EntryRight(t, m)
    BY <1>1, <1>4 DEF Right
  <2>2. t[m].calls # 0
    OBVIOUS
  <2> QED BY <2>1, <2>2 DEF EntryRight
<1>6. p[n] = <<FunctionCallOutput(e.call)>>
  <2>0. ~Leading(t, n) /\ n \notin Prologue(t)
    <3>1. ~Instructs(e) /\ n \in 1 .. n
      BY <1>1, <1>3 DEF Instructs
    <3> QED BY <3>1 DEF Leading, Prologue
  <2>1. CASE s = "chat"
    <3>1. ~ChatMessageRefused(e)
      BY <2>1 DEF Known
    <3> QED BY <1>3, <1>4, <2>0, <2>1, <3>1, ChatOther DEF ItemsOf
  <2>2. CASE s # "chat"
    BY <1>3, <1>4, <2>0, <2>2, RespOther DEF ItemsOf
  <2> QED BY <2>1, <2>2
<1>7. FunctionCall(e.call) \in Range(p[m])
  BY <1>2, <1>4, <1>5, AnswerSays
<1> DEFINE before == Len(UpTo(p, n - 1))
<1> HIDE DEF p
<1>8. PICK S : p \in Seq(Seq(S))
  BY <1>1
<1>9. before \in Nat /\ before + 1 \in DOMAIN input /\ input[before + 1] = FunctionCallOutput(e.call)
  <2>1. 1 \in 1 .. Len(p[n]) /\ p[n][1] = FunctionCallOutput(e.call)
    BY <1>6
  <2> DEFINE to == Len(UpTo(p, n))
  <2>2. /\ before \in Nat /\ before + 1 \in 1 .. to
        /\ to \in 0 .. Len(input) /\ Len(input) \in Nat /\ DOMAIN input = 1 .. Len(input)
        /\ input[before + 1] = p[n][1]
    BY <1>4, <1>8, <2>1, Place
  <2> HIDE DEF before, to, input
  <2> QED BY <2>1, <2>2
<1>10. PICK h \in 1 .. before : input[h] = FunctionCall(e.call)
  <2>1. PICK a \in DOMAIN p[m] : p[m][a] = FunctionCall(e.call)
    BY <1>7 DEF Range
  <2>2. a \in 1 .. Len(p[m])
    BY <1>4, <1>8
  <2> DEFINE from == Len(UpTo(p, m - 1))
             to == Len(UpTo(p, m))
  <2>3. /\ from \in Nat /\ from + a \in 1 .. to
        /\ to \in 0 .. Len(input) /\ Len(input) \in Nat
        /\ input[from + a] = p[m][a]
    BY <1>4, <1>8, <2>2, Place
  <2>4. to <= before
    <3>1. m \in 0 .. Len(p) /\ n - 1 \in m .. Len(p)
      BY <1>4
    <3>2. IsPrefix(UpTo(p, m), UpTo(p, n - 1))
      BY <1>8, <3>1, UpToGrows
    <3> QED BY <3>2 DEF IsPrefix
  <2> HIDE DEF before, from, to, input
  <2>5. from + a \in 1 .. before
    BY <1>9, <2>2, <2>3, <2>4
  <2> QED BY <2>1, <2>3, <2>5
<1> HIDE DEF input, before
<1>11. (before + 1) - 1 = before
  BY <1>9
<1>12. Answered(input, e.call)
  BY <1>9, <1>10, <1>11 DEF Answered
<1> QED BY <1>12 DEF input, p

\* A request that a surface takes says everything the conversation holds: each text
\* and each part of the user's, the calls and after them their results, on the
\* Responses surface also every other part and the reasoning (to_wire of both
\* surfaces): for every conversation.
THEOREM SaidSafe == Spec => []SaidIsSent
<1>1. TalkRight /\ Asked => SaidIsSent
  <2> SUFFICES ASSUME TalkRight, Asked, waiting, NEW s \in accepted, NEW n \in DOMAIN talk
               PROVE  EntryIsSent(s, last[s][1].body, n)
    BY DEF SaidIsSent
  <2> DEFINE e == talk[n]
             p == SaidBy(s, talk)
             q == InstructedBy(talk)
  <2>1. PICK id, effort, r : last[s] = <<r>> /\ AskedFor(s, talk, r, id, effort)
    BY DEF Asked
  <2>2. s \in Surface /\ Right(talk) /\ Known(s, talk)
    BY <2>1 DEF Asked, TalkRight, AskedFor
  <2> DEFINE body == last[s][1].body
  <2>3. body.input = FlattenSeq(p) /\ body.instructions = FlattenSeq(q)
    BY <2>1 DEF AskedFor, IsRequest
  <2>4. /\ DOMAIN talk = 1 .. Len(talk) /\ Len(p) = Len(talk) /\ Len(q) = Len(talk)
        /\ (\E S : p \in Seq(Seq(S))) /\ \E S : q \in Seq(Seq(S))
        /\ EntryRight(talk, n)
    BY <2>2, PartsAreSeqs DEF Right
  <2>5. p[n] = ItemsOf(s, talk, n)
    BY DEF SaidBy
  <2> HIDE DEF p, q, body
  <2>6. Range(p[n]) \subseteq Range(body.input) /\ Range(q[n]) \subseteq Range(body.instructions)
    <3>1. PICK S : p \in Seq(Seq(S))
      BY <2>4
    <3>2. PICK R : q \in Seq(Seq(R))
      BY <2>4
    <3>3. n \in 1 .. Len(p) /\ n \in 1 .. Len(q)
      BY <2>4
    <3>4. Range(p[n]) \subseteq Range(FlattenSeq(p))
      BY <3>1, <3>3, RangeFlatten
    <3>5. Range(q[n]) \subseteq Range(FlattenSeq(q))
      BY <3>2, <3>3, RangeFlatten
    <3> QED BY <2>3, <3>4, <3>5
  <2>7. ASSUME NEW i \in DOMAIN e.content.parts, Translated(s, n, i) PROVE Carried(body, n, i)
    <3>1. CASE Leading(talk, n)
      <4>1. n \in Prologue(talk) /\ Instructs(e)
        <5>1. n \in 1 .. n
          BY <2>4
        <5> QED BY <2>2, <2>4, <3>1, <5>1, PartsAreSeqs, LeadingFacts DEF Leading
      <4>2. e.content.parts[i] = "text"
        BY <2>7, <4>1 DEF Translated, Instructs
      <4>3. IsText(e.content)
        <5>1. e.content.parts # <<>> /\ IsContent(e.content)
          BY <2>4 DEF EntryRight
        <5> QED BY <5>1 DEF IsText, IsContent
      <4> DEFINE x == Text(n, e.content)
      <4>4. q[n] = <<x>>
        BY <3>1, <4>3 DEF q, InstructedBy
      <4>5. x.n = n /\ i \in x.parts
        BY <4>2 DEF Text
      <4> HIDE DEF x
      <4>6. x \in Range(q[n])
        <5>1. 1 \in DOMAIN <<x>> /\ <<x>>[1] = x
          OBVIOUS
        <5> QED BY <4>4, <5>1 DEF Range
      <4>7. x \in Texts(body)
        BY <2>6, <4>6 DEF Texts
      <4> QED BY <4>5, <4>7 DEF Carried
    <3>2. CASE ~Leading(talk, n)
      <4>1. PICK item \in Range(p[n]) : SaysPart(item, n, i)
        BY <2>2, <2>5, <2>7, <3>2, PromiseKept
      <4>2. PICK part \in Range(item.content) : part.text.n = n /\ i \in part.text.parts
        BY <4>1 DEF SaysPart
      <4>3. item \in Range(body.input) /\ item.type = "message"
        BY <2>6, <4>1 DEF SaysPart
      <4>4. part.text \in Texts(body)
        BY <4>2, <4>3 DEF Texts
      <4> QED BY <4>2, <4>4 DEF Carried
    <3> QED BY <3>1, <3>2
  <2>8. e.role = "assistant" => /\ \A k \in 1 .. e.calls : FunctionCall(<<n, k>>) \in Range(p[n])
                                /\ s = "responses" /\ e.thought => Reasoning(n) \in Range(p[n])
    BY <2>2, <2>5, AnswerSays
  <2>9. e.role # "assistant" => e.calls = 0 /\ ~e.thought
    BY <2>4 DEF EntryRight
  <2>10. e.call # Nothing => Answered(body.input, e.call)
    BY <2>2, <2>3, ResultAfterCall DEF p
  <2>11. \A k \in 1 .. e.calls : FunctionCall(<<n, k>>) \in Range(body.input)
    <3>1. 1 .. 0 = {}
      OBVIOUS
    <3> QED BY <2>6, <2>8, <2>9, <3>1
  <2>12. e.thought /\ s = "responses" => Reasoning(n) \in Range(body.input)
    BY <2>6, <2>8, <2>9
  <2>13. EntryIsSent(s, body, n)
    BY <2>7, <2>10, <2>11, <2>12 DEF EntryIsSent
  <2> QED BY <2>13 DEF body
<1> QED BY <1>1, AskedInvariant, PTL
=============================================================================

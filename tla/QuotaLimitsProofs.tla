-------------------------- MODULE QuotaLimitsProofs --------------------------
(***************************************************************************)
(* Theorems about QuotaLimits, for any named groups, any numbers and any   *)
(* turns that overlap.  All of them rest on one lemma, Projection: what    *)
(* from_headers makes of a turn's headers.                                 *)
(***************************************************************************)
EXTENDS QuotaLimits, TLAPS

GoodResponse(r) ==
  /\ r.quota \in AllBooks
  /\ r.sent \subseteq Named \cup {DefaultFamily}
  /\ r.charged \in Groups
  /\ r.says \in ActiveLimits(r.charged)
  /\ NoKnownGap(r)

\* A group's windows survive being sent as headers and read again, the missing
\* one included (read_family, read_window).
LEMMA ReadsBack ==
  ASSUME NEW g \in Groups, NEW windows \in Books(g)
  PROVE  /\ ReadFamily(Headers(windows)) = UsageGroup(windows)
         /\ DOMAIN UsageGroup(windows) # {}
<1> DEFINE h == Headers(windows)
<1>1. DOMAIN windows = Kinds(g) /\ Kinds(g) \subseteq Both /\ "primary" \in Kinds(g)
  BY DEF Books, Kinds, Both
<1>2. \A k \in Kinds(g) : h[k] = windows[k] /\ HasData(h[k])
  <2> TAKE k \in Kinds(g)
  <2>1. h[k] = windows[k]
    BY <1>1 DEF Headers
  <2>2. windows[k] \in Window
    BY DEF Books
  <2>3. windows[k].minutes \in Nat \ {0}
    BY <2>2, QuotaAssumption DEF Window
  <2>4. QED
    BY <2>1, <2>3 DEF HasData
<1>3. \A k \in Both \ Kinds(g) : ~HasData(h[k])
  BY <1>1 DEF Headers, HasData
<1>4. {k \in Both : HasData(h[k])} = Kinds(g)
  BY <1>1, <1>2, <1>3
<1>5. ReadFamily(h) = [k \in Kinds(g) |-> ReadWindow(h[k])]
  BY <1>4 DEF ReadFamily
<1>6. UsageGroup(windows) = [k \in Kinds(g) |-> UsageWindow(windows[k])]
  BY <1>1 DEF UsageGroup
<1>7. \A k \in Kinds(g) : ReadWindow(h[k]) = UsageWindow(windows[k])
  BY <1>2 DEF ReadWindow, UsageWindow
<1>8. QED
  BY <1>1, <1>5, <1>6, <1>7

\* Every family is read, and carries its group's windows.
LEMMA FamiliesRead ==
  ASSUME NEW r, GoodResponse(r)
  PROVE  ReadAll(Families(r)) = [id \in r.sent |-> UsageGroup(r.quota[Carrier(r, id)])]
<1> DEFINE ids == r.sent
           f == Families(r)
<1>1. f = [id \in ids |-> Headers(r.quota[Carrier(r, id)])]
  BY DEF Families, Carrier
<1>2. \A id \in ids : /\ ReadFamily(f[id]) = UsageGroup(r.quota[Carrier(r, id)])
                      /\ DOMAIN ReadFamily(f[id]) # {}
  <2> TAKE id \in ids
  <2>1. Carrier(r, id) \in Groups
    BY DEF GoodResponse, Carrier, Groups
  <2>2. r.quota[Carrier(r, id)] \in Books(Carrier(r, id))
    BY <2>1 DEF GoodResponse, AllBooks
  <2>3. QED
    BY <1>1, <2>1, <2>2, ReadsBack
<1>3. DOMAIN f = ids
  BY <1>1
<1> HIDE DEF f
<1>4. {i \in DOMAIN f : DOMAIN ReadFamily(f[i]) # {}} = ids
  BY <1>2, <1>3
<1>5. ReadAll(f) = [id \in ids |-> ReadFamily(f[id])]
  BY <1>4 DEF ReadAll
<1>6. QED
  BY <1>2, <1>5 DEF f

\* What from_headers makes of a turn's headers: each group it tells has its own
\* windows, and if the headers say the limit and carry its numbers, the charged
\* group is active and every group there once.
LEMMA Projection ==
  ASSUME NEW r, GoodResponse(r), NEW p, p = FromHeaders(r)
  PROVE  /\ DOMAIN p.groups \cap Groups = Told(r)
         /\ \A g \in Told(r) : p.groups[g] = UsageGroup(r.quota[g])
         /\ r.says # "absent" /\ r.charged \in Told(r) => p.active = r.charged /\ DOMAIN p.groups = Told(r)
<1> DEFINE read == ReadAll(Families(r))
           named == r.sent \cap Named
<1>1. /\ DOMAIN read = r.sent
      /\ \A g \in named : read[g] = UsageGroup(r.quota[g])
      /\ DefaultFamily \in r.sent => read[DefaultFamily] = UsageGroup(r.quota[r.charged])
  <2>1. read = [id \in r.sent |-> UsageGroup(r.quota[Carrier(r, id)])]
    BY FamiliesRead
  <2>2. \A g \in Named : Carrier(r, g) = g
    BY QuotaAssumption DEF Carrier
  <2>3. Carrier(r, DefaultFamily) = r.charged
    BY DEF Carrier
  <2> HIDE DEF read
  <2>4. QED
    BY <2>1, <2>2, <2>3
<1>2. p = Resolve(r.says, read)
  BY DEF FromHeaders
<1> HIDE DEF read
<1>3. /\ Global \notin Named /\ DefaultFamily \notin Groups
      /\ "absent" \notin Named /\ "premium" \notin Named
      /\ r.sent \ {DefaultFamily} = named
  BY QuotaAssumption DEF Groups, DefaultFamily, Global, GoodResponse
<1>4. DOMAIN Without(read) = named /\ \A g \in named : Without(read)[g] = read[g]
  BY <1>1, <1>3 DEF Without
<1>5. CASE r.says \in named
  <2>1. r.charged = r.says
    BY <1>3, <1>5 DEF GoodResponse, ActiveLimits, DefaultFamily
  <2>2. NamesAFamily(r.says, read)
    BY <1>1, <1>3, <1>5 DEF NamesAFamily, Groups
  <2>3. p = [active |-> r.says, groups |-> Without(read)]
    BY <1>2, <2>2 DEF Resolve
  <2>4. Told(r) = named
    BY <1>5, <2>1 DEF Told
  <2>5. QED
    BY <1>1, <1>4, <2>1, <2>3, <2>4 DEF Groups
<1>6. ASSUME r.says \notin named, DefaultFamily \in r.sent, r.says # "absent"
      PROVE  /\ DOMAIN p.groups \cap Groups = Told(r)
             /\ \A g \in Told(r) : p.groups[g] = UsageGroup(r.quota[g])
             /\ p.active = r.charged /\ DOMAIN p.groups = Told(r)
  <2>1. r.charged = Global
    BY <1>6 DEF GoodResponse, ActiveLimits, NoKnownGap, Groups
  <2>2. ~NamesAFamily(r.says, read)
    BY <1>1, <1>3, <1>6 DEF NamesAFamily
  <2> DEFINE alias == [id \in {Global} |-> read[DefaultFamily]]
             resolved == Update(Without(read), alias)
  <2>3. p = [active |-> Global, groups |-> resolved]
    BY <1>1, <1>2, <1>6, <2>2 DEF Resolve
  <2>4. /\ DOMAIN resolved = named \cup {Global}
        /\ \A g \in named : resolved[g] = read[g]
        /\ resolved[Global] = read[DefaultFamily]
    BY <1>3, <1>4 DEF Update
  <2>5. Told(r) = named \cup {Global}
    BY <1>6, <2>1 DEF Told
  <2> HIDE DEF resolved
  <2>6. QED
    BY <1>1, <1>6, <2>1, <2>3, <2>4, <2>5 DEF Groups
<1>7. ASSUME r.says \notin named, DefaultFamily \notin r.sent \/ r.says = "absent"
      PROVE  /\ DOMAIN p.groups \cap Groups = Told(r)
             /\ \A g \in Told(r) : p.groups[g] = UsageGroup(r.quota[g])
             /\ r.says # "absent" => r.charged \notin Told(r)
  <2>1. ~NamesAFamily(r.says, read)
    BY <1>1, <1>3, <1>7 DEF NamesAFamily
  <2>2. p = [active |-> "absent", groups |-> read]
    BY <1>1, <1>2, <1>7, <2>1 DEF Resolve
  <2>3. Told(r) = named
    BY <1>7 DEF Told
  <2>4. r.sent \cap Groups = named
    BY <1>3 DEF Groups, GoodResponse
  <2>5. r.says # "absent" => r.charged = r.says \/ r.charged = Global
    BY DEF GoodResponse, ActiveLimits
  <2>6. QED
    BY <1>1, <1>3, <1>7, <2>2, <2>3, <2>4, <2>5
<1>8. QED
  BY <1>5, <1>6, <1>7

-----------------------------------------------------------------------------
\* What the properties rest on: the books are in order, and so are the
\* responses that wait, which are older than the books.
QuotaInv ==
  /\ quota \in AllBooks
  /\ \A s \in DOMAIN response : GoodResponse(response[s])
  /\ OwnNumbers

\* What the backend answers is made of its books.
LEMMA AnswersGood ==
  ASSUME quota \in AllBooks, NEW r \in Responses(quota)
  PROVE  GoodResponse(r)
BY QuotaAssumption DEF Responses, GoodResponse

\* The books and the responses stay in order (Use, Answer, Observe).
LEMMA Inductive == Spec => []QuotaInv
<1>1. Init => QuotaInv
  BY DEF Init, QuotaInv, OwnNumbers
<1>2. QuotaInv /\ [Next]_vars => QuotaInv'
  <2> SUFFICES ASSUME QuotaInv, [Next]_vars
               PROVE  QuotaInv'
    OBVIOUS
  <2>1. ASSUME NEW g \in Groups, Use(g)
        PROVE  QuotaInv'
    <3>1. PICK windows \in Books(g) : quota' = [quota EXCEPT ![g] = windows]
      BY <2>1 DEF Use
    <3>2. quota' \in AllBooks
      BY <3>1 DEF QuotaInv, AllBooks
    <3>3. QED
      BY <2>1, <3>2 DEF Use, QuotaInv, OwnNumbers
  <2>2. ASSUME NEW s \in Slots, Answer(s)
        PROVE  QuotaInv'
    <3>1. PICK r \in Responses(quota) : response' = Update(response, [slot \in {s} |-> r])
      BY <2>2 DEF Answer
    <3>2. GoodResponse(r)
      BY AnswersGood DEF QuotaInv
    <3>3. \A slot \in DOMAIN response' : response'[slot] = IF slot = s THEN r ELSE response[slot]
      BY <3>1 DEF Update
    <3>4. DOMAIN response' = DOMAIN response \cup {s}
      BY <3>1 DEF Update
    <3>5. \A slot \in DOMAIN response' : GoodResponse(response'[slot])
      BY <3>2, <3>3, <3>4 DEF QuotaInv
    <3>6. QED
      BY <2>2, <3>5 DEF Answer, QuotaInv, OwnNumbers
  <2>3. ASSUME NEW s \in Slots, Observe(s)
        PROVE  QuotaInv'
    <3> DEFINE r == response[s]
               seen == FromHeaders(r).groups
               new == [g \in Told(r) |-> r.quota[g]]
    <3>1. GoodResponse(r)
      BY <2>3 DEF Observe, QuotaInv
    <3>2. DOMAIN seen \cap Groups = Told(r) /\ \A g \in Told(r) : seen[g] = UsageGroup(r.quota[g])
      BY <3>1, Projection
    <3>3. observed' = Update(observed, seen) /\ told' = Update(told, new)
      BY <2>3 DEF Observe, Remember
    <3> HIDE DEF seen
    <3>4. DOMAIN told' = DOMAIN observed' \cap Groups
      BY <3>2, <3>3 DEF QuotaInv, OwnNumbers, Update
    <3>5. ASSUME NEW g \in DOMAIN told'
          PROVE  observed'[g] = UsageGroup(told'[g])
      <4>1. g \in Groups /\ (g \in DOMAIN seen <=> g \in Told(r))
        BY <3>2, <3>4
      <4>2. CASE g \in Told(r)
        BY <3>2, <3>3, <4>1, <4>2 DEF Update
      <4>3. CASE g \notin Told(r)
        <5>1. g \in DOMAIN told /\ told'[g] = told[g]
          BY <3>3, <4>3 DEF Update
        <5>2. g \in DOMAIN observed /\ observed'[g] = observed[g]
          BY <3>3, <4>1, <4>3, <5>1 DEF QuotaInv, OwnNumbers, Update
        <5>3. QED
          BY <5>1, <5>2 DEF QuotaInv, OwnNumbers
      <4>4. QED
        BY <4>2, <4>3
    <3>6. OwnNumbers'
      BY <3>4, <3>5 DEF OwnNumbers
    <3>7. \A slot \in DOMAIN response' : GoodResponse(response'[slot])
      BY <2>3 DEF Observe, QuotaInv
    <3>8. QED
      BY <2>3, <3>6, <3>7 DEF Observe, QuotaInv
  <2>4. CASE UNCHANGED vars
    BY <2>4 DEF vars, QuotaInv, OwnNumbers
  <2>5. QED
    BY <2>1, <2>2, <2>3, <2>4 DEF Next
<1>3. QED
  BY <1>1, <1>2, PTL DEF Spec

\* Under a group's id stand that group's own numbers, as told last, for ever and
\* however turns overlap (update_limits).
THEOREM OwnSafe == Spec => []OwnNumbers
<1>1. QuotaInv => OwnNumbers
  BY DEF QuotaInv
<1>2. QED
  BY <1>1, Inductive, PTL

\* Both sources give the same picture of a group, at any time and whatever group
\* the turn is charged to (from_headers, from_usage).
THEOREM SourcesSafe == Spec => []SourcesAgree
<1>1. QuotaInv => SourcesAgree
  <2> SUFFICES ASSUME QuotaInv, NEW r \in Responses(quota),
                      NEW g \in Groups \cap DOMAIN FromHeaders(r).groups
               PROVE  FromHeaders(r).groups[g] = FromUsage(quota)[g]
    BY DEF SourcesAgree
  <2>1. GoodResponse(r) /\ r.quota = quota
    BY AnswersGood DEF QuotaInv, Responses
  <2>2. g \in Told(r) /\ FromHeaders(r).groups[g] = UsageGroup(r.quota[g])
    BY <2>1, Projection
  <2>3. QED
    BY <2>1, <2>2 DEF FromUsage
<1>2. QED
  BY <1>1, Inductive, PTL

\* A turn that says its limit and carries its numbers leaves the charged group
\* active, and every group there once (from_headers).
THEOREM AliasSafe == Spec => AliasResolved
<1> DEFINE Resolved ==
      \A s \in DOMAIN response \ DOMAIN response' :
        LET r == response[s] IN
        r.says # "absent" /\ r.charged \in Told(r) =>
          limits'.active = r.charged /\ DOMAIN limits'.groups = Told(r)
<1>1. QuotaInv /\ [Next]_vars => [Resolved]_vars
  <2> SUFFICES ASSUME QuotaInv, Next
               PROVE  Resolved
    OBVIOUS
  <2> SUFFICES ASSUME NEW s \in DOMAIN response \ DOMAIN response',
                      response[s].says # "absent", response[s].charged \in Told(response[s])
               PROVE  /\ limits'.active = response[s].charged
                      /\ DOMAIN limits'.groups = Told(response[s])
    OBVIOUS
  <2>1. ASSUME NEW g \in Groups, Use(g)
        PROVE  FALSE
    BY <2>1 DEF Use
  <2>2. ASSUME NEW slot \in Slots, Answer(slot)
        PROVE  FALSE
    BY <2>2 DEF Answer, Update
  <2>3. PICK slot \in Slots : Observe(slot)
    BY <2>1, <2>2 DEF Next
  <2>4. slot = s /\ limits' = FromHeaders(response[s])
    BY <2>3 DEF Observe
  <2>5. GoodResponse(response[s])
    BY DEF QuotaInv
  <2>6. QED
    BY <2>4, <2>5, Projection
<1>2. QED
  BY <1>1, Inductive, PTL DEF Spec, AliasResolved
=============================================================================

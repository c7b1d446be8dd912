----------------------------- MODULE QuotaLimits -----------------------------
(***************************************************************************)
(* How the wrapper learns which quota is how far used.  The backend keeps  *)
(* one quota per group: one for each metered feature, and a nameless one   *)
(* for the account, here "global".  It reports them in the headers of      *)
(* every turn, where the account's quota appears only as the default       *)
(* family, which is a copy of whatever group the turn is charged to, and   *)
(* in full from its usage API.  limits.rs brings both into one shape, and  *)
(* Metrics remembers what it saw of each group.                            *)
(***************************************************************************)
EXTENDS Integers

CONSTANTS
  Named,    \* the groups that have a name of their own, by their normalised ids
  Doubled,  \* the groups that have a second window
  Sent,     \* the sets of header families that may come with a turn
  Slots,    \* places for turns whose headers are here but not yet observed
  Used,     \* used percentages of first windows
  UsedToo,  \* used percentages of second windows
  Lengths,  \* lengths of windows, in minutes
  Resets    \* times at which windows reset

Global == "global"
DefaultFamily == "codex"
Groups == Named \cup {Global}

ASSUME QuotaAssumption ==
  /\ Global \notin Named
  /\ Named \cap {DefaultFamily, "premium", "absent"} = {}
  /\ Sent \subseteq SUBSET (Named \cup {DefaultFamily})
  /\ Used \subseteq Nat
  /\ UsedToo \subseteq Nat
  /\ Lengths \subseteq Nat \ {0}
  /\ Resets \subseteq Nat \ {0}

VARIABLES
  quota,     \* the backend's own books: per group its windows
  response,  \* per turn that awaits its first event: what its headers were made of
  observed,  \* Metrics.quota_groups: the last windows seen of each group
  limits,    \* Metrics.limits: the quota of the turn observed last
  told       \* history: per group, its books when a turn that was observed last told them

vars == <<quota, response, observed, limits, told>>

Both == {"primary", "secondary"}
Kinds(g) == IF g \in Doubled THEN Both ELSE {"primary"}
Window == [used : Used \cup UsedToo, minutes : Lengths, resets : Resets]
Books(g) ==
  {windows \in [Kinds(g) -> Window] :
     \A kind \in Kinds(g) : windows[kind].used \in IF kind = "primary" THEN Used ELSE UsedToo}
AllBooks == {q \in [Groups -> UNION {Books(g) : g \in Groups}] : \A g \in Groups : q[g] \in Books(g)}

Update(f, g) == [id \in DOMAIN f \cup DOMAIN g |-> IF id \in DOMAIN g THEN g[id] ELSE f[id]]

-----------------------------------------------------------------------------
(* What the backend sends.                                                 *)

\* The headers of one family. A window that does not exist is sent as zeroes
\* with an empty reset-at, for which 0 stands here.
Headers(windows) ==
  [kind \in Both |->
     IF kind \in DOMAIN windows THEN windows[kind] ELSE [used |-> 0, minutes |-> 0, resets |-> 0]]

\* A named group's family carries its windows, the default one those of the
\* group that was charged.
Carrier(r, id) == IF id = DefaultFamily THEN r.charged ELSE id

Families(r) == [id \in r.sent |-> Headers(r.quota[Carrier(r, id)])]

\* x-codex-active-limit of a turn charged to g. The account's limit has a word of
\* its own; the header may be missing.
ActiveLimits(g) == {"absent"} \cup IF g = Global THEN {"premium", DefaultFamily} ELSE {g}

\* The headers never name an active group without sending its family: limits.rs
\* knows that this gap would put its numbers under the account's id.
NoKnownGap(r) == r.says \in Named /\ DefaultFamily \in r.sent => r.says \in r.sent

Responses(q) ==
  {r \in [quota : {q}, sent : Sent, charged : Groups,
          says : Named \cup {DefaultFamily, "premium", "absent"}] :
     r.says \in ActiveLimits(r.charged) /\ NoKnownGap(r)}

-----------------------------------------------------------------------------
(* limits.rs                                                               *)

ReadWindow(h) == [used |-> h.used, seconds |-> h.minutes * 60, resets |-> h.resets]

HasData(h) == h.used # 0 \/ h.minutes # 0 \/ h.resets # 0

ReadFamily(family) ==
  [kind \in {k \in Both : HasData(family[k])} |-> ReadWindow(family[kind])]

\* The families that have a window.
ReadAll(families) ==
  [id \in {i \in DOMAIN families : DOMAIN ReadFamily(families[i]) # {}} |-> ReadFamily(families[id])]

\* Mutant: whether the default family is a copy is seen by its numbers.
SameNumbers(says, read) ==
  DefaultFamily \in DOMAIN read /\ \E id \in DOMAIN read \ {DefaultFamily} : read[id] = read[DefaultFamily]

NamesAFamily(says, read) == says # DefaultFamily /\ says \in DOMAIN read

Without(read) == [id \in DOMAIN read \ {DefaultFamily} |-> read[id]]

\* Mutant: an unnamed active limit is taken for the account's.
GuessGlobal(says, read) ==
  IF NamesAFamily(says, read) THEN [active |-> says, groups |-> Without(read)]
  ELSE IF DefaultFamily \in DOMAIN read
    THEN [active |-> Global, groups |-> Update(Without(read), [id \in {Global} |-> read[DefaultFamily]])]
  ELSE [active |-> "absent", groups |-> read]

\* Which group the default family stands for: the named one, whose copy is
\* dropped; else the account's; unknown if no limit is said to be active.
Resolve(says, read) ==
  IF NamesAFamily(says, read) THEN [active |-> says, groups |-> Without(read)]
  ELSE IF DefaultFamily \in DOMAIN read /\ says # "absent"
    THEN [active |-> Global, groups |-> Update(Without(read), [id \in {Global} |-> read[DefaultFamily]])]
  ELSE [active |-> "absent", groups |-> read]

FromHeaders(r) == Resolve(r.says, ReadAll(Families(r)))

\* The usage API counts seconds and leaves out a window that does not exist.
UsageWindow(w) == [used |-> w.used, seconds |-> w.minutes * 60, resets |-> w.resets]

UsageGroup(windows) == [kind \in DOMAIN windows |-> UsageWindow(windows[kind])]

\* It names a group by metered_feature, which is taken as it stands; headers name
\* one in a spelling that normalize_id undoes.  That both come to the same id is
\* the backend's doing, and assumed here.
FromUsage(q) == [g \in Groups |-> UsageGroup(q[g])]

-----------------------------------------------------------------------------
Init ==
  /\ quota \in AllBooks
  /\ response = [s \in {} |-> quota]
  /\ observed = [id \in {} |-> quota]
  /\ limits = [active |-> "absent", groups |-> [id \in {} |-> quota]]
  /\ told = [g \in {} |-> quota]

\* Somebody uses the subscription, or a window resets.
Use(g) ==
  /\ \E windows \in Books(g) : quota' = [quota EXCEPT ![g] = windows]
  /\ UNCHANGED <<response, observed, limits, told>>

\* The backend answers a turn: the tap keeps its headers.
Answer(s) ==
  /\ s \notin DOMAIN response
  /\ \E r \in Responses(quota) : response' = Update(response, [slot \in {s} |-> r])
  /\ UNCHANGED <<quota, observed, limits, told>>

\* The groups whose numbers a response tells under a name one can rely on.
Told(r) ==
  (r.sent \cap Named) \cup IF DefaultFamily \in r.sent /\ r.says # "absent" THEN {r.charged} ELSE {}

\* Mutant: like limits, the groups are those of one turn.
ForgetOthers(old, new) == new

Remember(old, new) == Update(old, new)

\* The quota event reaches the recorder: update_limits.
Observe(s) ==
  /\ s \in DOMAIN response
  /\ LET r == response[s] IN
       /\ observed' = Remember(observed, FromHeaders(r).groups)
       /\ limits' = FromHeaders(r)
       /\ told' = Update(told, [g \in Told(r) |-> r.quota[g]])
  /\ response' = [slot \in DOMAIN response \ {s} |-> response[slot]]
  /\ UNCHANGED quota

Next == (\E g \in Groups : Use(g)) \/ (\E s \in Slots : Answer(s) \/ Observe(s))

Spec == Init /\ [][Next]_vars

-----------------------------------------------------------------------------
(* Properties.                                                             *)

\* What is shown under a group's id are that group's own numbers, those of the
\* turn that told them last, however turns that are charged to different groups
\* interleave, whether or not their headers say which is active and whichever
\* families they carry; and a group stays when later turns do not mention it
\* (update_limits, quota_groups).
OwnNumbers ==
  /\ DOMAIN told = DOMAIN observed \cap Groups
  /\ \A g \in DOMAIN told : observed[g] = UsageGroup(told[g])

\* If the headers say which limit is active and carry its numbers, then after the
\* turn's quota event the charged group is the active one, and each group is there
\* once: the named ones that were sent, the account's if it was charged, and no
\* family "codex" (from_headers).
AliasResolved ==
  [][\A s \in DOMAIN response \ DOMAIN response' :
       LET r == response[s] IN
       r.says # "absent" /\ r.charged \in Told(r) =>
         limits'.active = r.charged /\ DOMAIN limits'.groups = Told(r)]_vars

\* A group that both sources report looks the same from both: the headers of
\* any turn, whatever it is charged to, and the usage API (from_headers,
\* from_usage; the map from id to group in the README).
SourcesAgree ==
  \A r \in Responses(quota) :
    LET seen == FromHeaders(r).groups IN
    \A g \in Groups \cap DOMAIN seen : seen[g] = FromUsage(quota)[g]
=============================================================================

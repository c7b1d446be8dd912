---------------------------- MODULE ModelCatalogue ----------------------------
(***************************************************************************)
(* The subscription's models as models.rs shows them: completely, for      *)
(* /wire/v1/models, and as the picker of /v1/models, in which hidden       *)
(* models are left out and some models appear a second time, as            *)
(* "slug:long", for a client that intends to keep to the larger context.   *)
(*                                                                         *)
(* A model of the backend is a record; an undeclared number is 0.  Slugs   *)
(* and ids are the segments between the separators ":" of the string, and  *)
(* a slug that is not there has none.                                      *)
(***************************************************************************)
EXTENDS Integers, SequencesExt

CONSTANTS
  Capped,           \* the slugs of MAX_CONTEXT_CAPS
  Cap,              \* and the cap of each
  LongVariants,     \* LONG_VARIANTS
  NoneUnsupported,  \* NONE_UNSUPPORTED_MODELS
  Catalogues        \* what the backend may answer: sequences of models

ASSUME CatalogueAssumption ==
  /\ Cap \in [Capped -> Nat \ {0}]
  /\ \A c \in Catalogues : c \in Seq(Range(c))
  /\ \A c \in Catalogues : \A i \in DOMAIN c :
       /\ c[i].window \in Nat /\ c[i].maxWindow \in Nat
       /\ c[i].slug \in Seq(STRING)
       /\ \A j \in DOMAIN c : c[i].slug = c[j].slug /\ c[i].slug # <<>> => i = j

Id(slug, variant) == IF variant = "none" THEN slug ELSE Append(slug, variant)

\* Mutant: the whole id is taken for the name.
WholeId(id) == id

\* What comes before the first separator.
WireModel(id) == <<id[1]>>

Hidden(m) == m.visibility # "list"

ContextDefault(m) == m.window

\* The declared ceiling or, without one, the default; a cap may only lower it.
ContextMax(m) ==
  LET declared == IF m.maxWindow # 0 THEN m.maxWindow ELSE ContextDefault(m)
  IN IF m.slug \in Capped /\ Cap[m.slug] < declared THEN Cap[m.slug] ELSE declared

\* "none" is accepted although nobody advertises it, "ultra" rejected although
\* it is advertised; a model that advertises nothing keeps doing so.
ReasoningLevels(m) ==
  IF m.levels = {} THEN {}
  ELSE (m.levels \ {"ultra"}) \cup (IF m.slug \in NoneUnsupported THEN {} ELSE {"none"})

Entry(m) ==
  [id |-> m.slug, hidden |-> Hidden(m), default |-> ContextDefault(m),
   max |-> ContextMax(m), levels |-> ReasoningLevels(m)]

Catalogue(models) == [i \in DOMAIN models |-> Entry(models[i])]

\* A second entry, for the listed slugs, if its budget is the larger one.
LongVariant(m) ==
  m.slug \in LongVariants /\ ContextDefault(m) # 0 /\ ContextMax(m) > ContextDefault(m)

OpenaiEntry(m, variant, length) ==
  [id |-> Id(m.slug, variant), length |-> length, levels |-> ReasoningLevels(m)]

Offers(m) ==
  <<OpenaiEntry(m, "none", ContextDefault(m))>>
  \o (IF LongVariant(m) THEN <<OpenaiEntry(m, "long", ContextMax(m))>> ELSE <<>>)

Shown(m) == ~Hidden(m) /\ m.slug # <<>>

OpenaiList(models) ==
  FlattenSeq([i \in DOMAIN models |-> IF Shown(models[i]) THEN Offers(models[i]) ELSE <<>>])

-----------------------------------------------------------------------------
(* The two lists together.                                                 *)

\* What split_once needs: no listed slug holds a separator itself.
Separable(models) == \A i \in DOMAIN models : Shown(models[i]) => Len(models[i].slug) = 1

\* The standard length is not above the ceiling, nor above a cap.
Coherent(m) ==
  /\ m.maxWindow # 0 => m.window <= m.maxWindow
  /\ m.slug \in Capped => m.window <= Cap[m.slug]

\* Every entry of the picker is an id of its own and stands for one model of the
\* complete list, which does not hide it: the request for the id reaches that
\* model, at the levels shown, and within the context it can take if the backend's
\* numbers are coherent; and the variant, if there is one, has more to offer than
\* the standard entry.  All this if no slug holds the separator, which nothing
\* checks (openai_list, catalogue, wire_model).
OffersTrue(models) ==
  LET picker == OpenaiList(models)
      full == Catalogue(models)
  IN Separable(models) =>
     /\ \A i, j \in DOMAIN picker : picker[i].id = picker[j].id => i = j
     /\ \A i \in DOMAIN picker : \E k \in DOMAIN full :
          /\ full[k].id = WireModel(picker[i].id)
          /\ ~full[k].hidden
          /\ picker[i].levels = full[k].levels
          /\ Coherent(models[k]) => picker[i].length <= full[k].max
          /\ picker[i].id # full[k].id => picker[i].length > full[k].default
=============================================================================

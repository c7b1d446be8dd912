---------------------------- MODULE SequenceFacts ----------------------------
(***************************************************************************)
(* What FoldLeft and FlattenSeq of the community modules do when one more  *)
(* element is appended.  Both are defined by recursion, and the library's  *)
(* induction theorems take an operator as a parameter; the induction is    *)
(* made here over a set of numbers instead, by the least number that is    *)
(* not in it.  The operator that folds is a constant of this module, so    *)
(* that a module of proofs takes the facts with INSTANCE, for its own.     *)
(***************************************************************************)
EXTENDS Integers, Sequences, SequencesExt, WellFoundedInduction, TLAPS

CONSTANT Op(_, _)  \* what folds one more element into the result

Fold(base, s) == FoldLeft(Op, base, s)

-----------------------------------------------------------------------------
(* Induction.                                                              *)

\* A set that holds 0 and, with each number, the next one holds every number.
LEMMA SetInduction ==
  ASSUME NEW S, 0 \in S, \A n \in Nat : n \in S => n + 1 \in S
  PROVE  \A n \in Nat : n \in S
<1> DEFINE T == {n \in Nat : n \notin S}
<1>1. CASE T = {}
  BY <1>1
<1>2. CASE T # {}
  <2>1. IsWellFoundedOn(OpToRel(<, Nat), Nat)
    BY NatLessThanWellFounded
  <2>2. PICK m \in T : \A n \in T : ~(<<n, m>> \in OpToRel(<, Nat))
    BY <1>2, <2>1, WFMin, Zenon
  <2>3. m \in Nat /\ m # 0 /\ m - 1 \in Nat
    OBVIOUS
  <2>4. <<m - 1, m>> \in OpToRel(<, Nat)
    <3>1. m - 1 < m
      BY <2>3
    <3> QED BY <2>3, <3>1 DEF OpToRel
  <2>5. m - 1 \in S
    BY <2>2, <2>3, <2>4
  <2>6. m \in S
    BY <2>3, <2>5
  <2> QED BY <2>6
<1> QED BY <1>1, <1>2

-----------------------------------------------------------------------------
(* Sequences.                                                              *)

\* Sequences with the same entries are the same.
LEMMA SameEntries ==
  ASSUME NEW S, NEW a \in Seq(S), NEW b \in Seq(S), Len(a) = Len(b),
         \A i \in 1 .. Len(a) : a[i] = b[i]
  PROVE  a = b
  OBVIOUS

\* The entries of two sequences, one after the other.
LEMMA Joined ==
  ASSUME NEW T, NEW a \in Seq(T), NEW b \in Seq(T)
  PROVE  /\ a \o b \in Seq(T) /\ Len(a \o b) = Len(a) + Len(b)
         /\ \A i \in 1 .. Len(a) : (a \o b)[i] = a[i]
         /\ \A i \in 1 .. Len(b) : (a \o b)[Len(a) + i] = b[i]
<1>1. a \o b \in Seq(T) /\ Len(a \o b) = Len(a) + Len(b)
  OBVIOUS
<1>2. \A i \in 1 .. Len(a) : (a \o b)[i] = a[i]
  OBVIOUS
<1>3. \A i \in 1 .. Len(b) : (a \o b)[Len(a) + i] = b[i]
  OBVIOUS
<1> QED BY <1>1, <1>2, <1>3

\* Two values, one after the other.
LEMMA Pair ==
  ASSUME NEW one, NEW two
  PROVE  LET q == <<one>> \o <<two>> IN Len(q) = 2 /\ q[1] = one /\ q[2] = two
<1> DEFINE T == {one, two}
           a == <<one>>
           b == <<two>>
<1>1. a \in Seq(T) /\ b \in Seq(T) /\ Len(a) = 1 /\ Len(b) = 1 /\ a[1] = one /\ b[1] = two
  OBVIOUS
<1> HIDE DEF T, a, b
<1>2. /\ Len(a \o b) = Len(a) + Len(b)
      /\ \A i \in 1 .. Len(a) : (a \o b)[i] = a[i]
      /\ \A i \in 1 .. Len(b) : (a \o b)[Len(a) + i] = b[i]
  BY <1>1, Joined
<1>3. 1 \in 1 .. Len(a) /\ 1 \in 1 .. Len(b) /\ Len(a) + 1 = 2 /\ Len(a) + Len(b) = 2
  BY <1>1
<1> QED BY <1>1, <1>2, <1>3 DEF a, b

\* All entries but the last.
Beginning(q) == [i \in 1 .. Len(q) - 1 |-> q[i]]

\* A sequence is its last entry after the others, and another last entry
\* changes nothing before it.
LEMMA FrontAndLast ==
  ASSUME NEW S, NEW q \in Seq(S), q # <<>>, NEW x \in S, NEW r, r = [q EXCEPT ![Len(q)] = x]
  PROVE  Beginning(q) \in Seq(S) /\ q = Append(Beginning(q), q[Len(q)]) /\ r = Append(Beginning(q), x)
<1> DEFINE k == Len(q)
           p == [i \in 1 .. k - 1 |-> q[i]]
           a == Append(p, q[k])
           b == Append(p, x)
           c == [q EXCEPT ![k] = x]
<1>1. k \in Nat \ {0} /\ q[k] \in S
  OBVIOUS
<1>2. p \in Seq(S) /\ Len(p) = k - 1 /\ \A i \in 1 .. k - 1 : p[i] = q[i]
  BY <1>1
<1>3. c \in Seq(S) /\ Len(c) = k /\ \A i \in 1 .. k : c[i] = IF i = k THEN x ELSE q[i]
  BY <1>1
<1> HIDE DEF p, c, k
<1>4. a \in Seq(S) /\ Len(a) = k /\ \A i \in 1 .. k : a[i] = q[i]
  BY <1>1, <1>2
<1>5. b \in Seq(S) /\ Len(b) = k /\ \A i \in 1 .. k : b[i] = c[i]
  BY <1>1, <1>2, <1>3
<1> HIDE DEF a, b
<1>6. a = q
  BY <1>4, SameEntries DEF k
<1>7. b = c
  BY <1>3, <1>5, SameEntries
<1> QED BY <1>2, <1>6, <1>7 DEF a, b, c, k, p, Beginning

\* Appending to the second of two sequences appends to both together.
LEMMA ConcatAppend ==
  ASSUME NEW S, NEW p \in Seq(S), NEW q \in Seq(S), NEW x \in S
  PROVE  p \o Append(q, x) = Append(p \o q, x)
<1> DEFINE a == p \o Append(q, x)
           b == Append(p \o q, x)
<1>1. Append(q, x) \in Seq(S) /\ Len(Append(q, x)) = Len(q) + 1 /\ Len(p) \in Nat /\ Len(q) \in Nat
  OBVIOUS
<1>2. a \in Seq(S) /\ Len(a) = Len(p) + (Len(q) + 1)
  BY <1>1
<1>3. p \o q \in Seq(S) /\ Len(p \o q) = Len(p) + Len(q)
  OBVIOUS
<1>4. b \in Seq(S) /\ Len(b) = (Len(p) + Len(q)) + 1
  BY <1>3
<1>5. ASSUME NEW i \in 1 .. Len(p) + Len(q) + 1 PROVE a[i] = b[i]
  <2>1. CASE i <= Len(p)
    BY <1>1, <1>3, <2>1
  <2>2. CASE i > Len(p) /\ i <= Len(p) + Len(q)
    <3>1. i - Len(p) \in 1 .. Len(q) /\ i \in 1 .. Len(p) + Len(q)
      BY <1>1, <2>2
    <3>2. a[i] = Append(q, x)[i - Len(p)] /\ Append(q, x)[i - Len(p)] = q[i - Len(p)]
      BY <1>1, <2>2, <3>1
    <3>3. b[i] = (p \o q)[i] /\ (p \o q)[i] = q[i - Len(p)]
      BY <1>1, <1>3, <2>2, <3>1
    <3> QED BY <3>2, <3>3
  <2>3. CASE i = Len(p) + Len(q) + 1
    BY <1>1, <1>3, <2>3
  <2> QED BY <1>1, <2>1, <2>2, <2>3
<1> HIDE DEF a, b
<1>6. Len(a) = Len(b) /\ \A i \in 1 .. Len(a) : a[i] = b[i]
  BY <1>1, <1>2, <1>4, <1>5
<1>7. a = b
  BY <1>2, <1>4, <1>6, SameEntries
<1> QED BY <1>7 DEF a, b

-----------------------------------------------------------------------------
(* FoldLeft.                                                               *)

\* The function that FoldLeft chooses for a sequence of length n: the result for
\* every set of indices, folded in their order.
Steps(n, s, base, it) ==
  [S \in SUBSET (1 .. n) |-> IF S = {} THEN base ELSE Op(it[S \ {Max(S)}], s[Max(S)])]

\* The last index of the first n.
LEMMA MaxOfRange == ASSUME NEW n \in Nat \ {0} PROVE Max(1 .. n) = n
  BY DEF Max

\* There is such a function, for sequences of every length.
LEMMA StepsExist ==
  ASSUME NEW s, NEW base
  PROVE  \A n \in Nat : \E it : it = Steps(n, s, base, it)
<1> DEFINE T == {n \in Nat : \E it : it = Steps(n, s, base, it)}
<1>1. 0 \in T
  <2> DEFINE it == [S \in SUBSET (1 .. 0) |-> base]
  <2>1. it = Steps(0, s, base, it)
    BY DEF Steps
  <2> QED BY <2>1
<1>2. ASSUME NEW n \in Nat, n \in T PROVE n + 1 \in T
  <2>1. PICK it : it = Steps(n, s, base, it)
    BY <1>2
  <2> DEFINE jt == [S \in SUBSET (1 .. n + 1) |->
                      IF n + 1 \in S THEN Op(it[S \ {n + 1}], s[n + 1]) ELSE it[S]]
  <2>2. \A S \in SUBSET (1 .. n) : it[S] = IF S = {} THEN base ELSE Op(it[S \ {Max(S)}], s[Max(S)])
    <3> HIDE DEF jt
    <3> QED BY <2>1, Zenon DEF Steps
  <2>3. ASSUME NEW S \in SUBSET (1 .. n + 1), n + 1 \in S
        PROVE  jt[S] = IF S = {} THEN base ELSE Op(jt[S \ {Max(S)}], s[Max(S)])
    <3>1. Max(S) = n + 1
      <4>1. \A y \in S : n + 1 >= y
        OBVIOUS
      <4>2. \A x \in S : (\A y \in S : x >= y) => x = n + 1
        BY <2>3
      <4> HIDE DEF jt
      <4> QED BY <2>3, <4>1, <4>2 DEF Max
    <3>2. S \ {n + 1} \in SUBSET (1 .. n) /\ n + 1 \notin S \ {n + 1}
      BY <2>3
    <3>3. jt[S \ {n + 1}] = it[S \ {n + 1}]
      BY <3>2
    <3>4. jt[S] = Op(it[S \ {n + 1}], s[n + 1])
      BY <2>3
    <3> QED BY <2>3, <3>1, <3>3, <3>4
  <2>4. ASSUME NEW S \in SUBSET (1 .. n + 1), n + 1 \notin S
        PROVE  jt[S] = IF S = {} THEN base ELSE Op(jt[S \ {Max(S)}], s[Max(S)])
    <3>1. S \in SUBSET (1 .. n)
      BY <2>4
    <3>2. \A R \in SUBSET (1 .. n) : jt[R] = it[R]
      BY <3>1
    <3>3. S \ {Max(S)} \in SUBSET (1 .. n)
      BY <3>1
    <3> HIDE DEF jt
    <3> QED BY <2>2, <3>1, <3>2, <3>3
  <2>5. jt = Steps(n + 1, s, base, jt)
    <3>1. jt = [S \in SUBSET (1 .. n + 1) |-> jt[S]]
      OBVIOUS
    <3>2. \A S \in SUBSET (1 .. n + 1) : 
            jt[S] = IF S = {} THEN base ELSE Op(jt[S \ {Max(S)}], s[Max(S)])
      BY <2>3, <2>4
    <3> HIDE DEF jt
    <3> QED BY <3>1, <3>2 DEF Steps
  <2> QED BY <2>5
<1> HIDE DEF T
<1>3. \A n \in Nat : n \in T
  BY <1>1, <1>2, SetInduction
<1> QED BY <1>3 DEF T

\* Two sequences begin alike.
Alike(n, r, s) == \A i \in 1 .. n : r[i] = s[i]

\* Two sequences that begin alike are folded alike as far as that goes.
LEMMA StepsAgree ==
  ASSUME NEW s, NEW r, NEW base, NEW n \in Nat, NEW m \in Nat, n <= m, Alike(n, r, s),
         NEW it, it = Steps(n, s, base, it), NEW jt, jt = Steps(m, r, base, jt)
  PROVE  it[1 .. n] = jt[1 .. n]
<1> DEFINE T == {k \in Nat : k <= n => it[1 .. k] = jt[1 .. k]}
<1>a. \A S \in SUBSET (1 .. n) : it[S] = IF S = {} THEN base ELSE Op(it[S \ {Max(S)}], s[Max(S)])
  BY Zenon DEF Steps
<1>b. \A S \in SUBSET (1 .. m) : jt[S] = IF S = {} THEN base ELSE Op(jt[S \ {Max(S)}], r[Max(S)])
  BY Zenon DEF Steps
<1>1. 0 \in T
  <2>1. 1 .. 0 = {}
    OBVIOUS
  <2> QED BY <1>a, <1>b, <2>1
<1>2. ASSUME NEW k \in Nat, k \in T PROVE k + 1 \in T
  <2>1. CASE k + 1 <= n
    <3>0. Max(1 .. k + 1) = k + 1
      <4>1. k + 1 \in Nat \ {0}
        OBVIOUS
      <4> QED BY <4>1, MaxOfRange
    <3>1. (1 .. k + 1) \ {Max(1 .. k + 1)} = 1 .. k /\ Max(1 .. k + 1) = k + 1 /\ 1 .. k + 1 # {}
      <4>1. (1 .. k + 1) \ {k + 1} = 1 .. k /\ k + 1 \in 1 .. k + 1
        OBVIOUS
      <4> QED BY <3>0, <4>1
    <3>2. 1 .. k + 1 \in SUBSET (1 .. n) /\ 1 .. k + 1 \in SUBSET (1 .. m)
      BY <2>1
    <3>3. it[1 .. k + 1] = Op(it[1 .. k], s[k + 1])
      BY <1>a, <3>1, <3>2
    <3>4. jt[1 .. k + 1] = Op(jt[1 .. k], r[k + 1])
      BY <1>b, <3>1, <3>2
    <3>5. it[1 .. k] = jt[1 .. k] /\ r[k + 1] = s[k + 1]
      BY <1>2, <2>1 DEF Alike
    <3> QED BY <3>3, <3>4, <3>5
  <2>2. CASE ~(k + 1 <= n)
    BY <2>2
  <2> QED BY <2>1, <2>2
<1> HIDE DEF T
<1>3. \A k \in Nat : k \in T
  BY <1>1, <1>2, SetInduction
<1> QED BY <1>3 DEF T

\* So the fold of a sequence is what such a function says of all its indices.
LEMMA FoldIs ==
  ASSUME NEW base, NEW S, NEW s \in Seq(S)
  PROVE  \E it : it = Steps(Len(s), s, base, it) /\ Fold(base, s) = it[1 .. Len(s)]
<1> DEFINE it == CHOOSE it : it = Steps(Len(s), s, base, it)
<1>1. \E jt : jt = Steps(Len(s), s, base, jt)
  BY StepsExist
<1>2. it = Steps(Len(s), s, base, it)
  BY <1>1, Zenon
<1>3. DOMAIN s = 1 .. Len(s)
  OBVIOUS
<1>4. Fold(base, s) = it[1 .. Len(s)]
  BY <1>3, Zenon DEF Fold, FoldLeft, MapThenFoldSet, Steps
<1> QED BY <1>2, <1>4

\* Of nothing it is the base.
LEMMA FoldEmpty == ASSUME NEW base PROVE Fold(base, <<>>) = base
<1>1. PICK it : it = Steps(Len(<<>>), <<>>, base, it) /\ Fold(base, <<>>) = it[1 .. Len(<<>>)]
  <2>1. <<>> \in Seq({})
    OBVIOUS
  <2> QED BY <2>1, FoldIs
<1>2. 1 .. Len(<<>>) = {} /\ {} \in SUBSET (1 .. Len(<<>>))
  OBVIOUS
<1>3. it[{}] = base
  BY <1>1, <1>2, Zenon DEF Steps
<1> QED BY <1>1, <1>2, <1>3

\* One more element is folded into the result for the others.
LEMMA FoldAppend ==
  ASSUME NEW base, NEW S, NEW s \in Seq(S), NEW e \in S
  PROVE  Fold(base, Append(s, e)) = Op(Fold(base, s), e)
<1> DEFINE r == Append(s, e)
           n == Len(s)
<1>1. r \in Seq(S) /\ Len(r) = n + 1 /\ n \in Nat /\ r[n + 1] = e /\ \A i \in 1 .. n : r[i] = s[i]
  OBVIOUS
<1> HIDE DEF r, n
<1>2. PICK it : it = Steps(n, s, base, it) /\ Fold(base, s) = it[1 .. n]
  BY FoldIs DEF n
<1>3. PICK jt : jt = Steps(n + 1, r, base, jt) /\ Fold(base, r) = jt[1 .. n + 1]
  BY <1>1, FoldIs
<1>4. it[1 .. n] = jt[1 .. n]
  <2> DEFINE m == n + 1
  <2>1. n \in Nat /\ m \in Nat /\ n <= m /\ Alike(n, r, s)
    BY <1>1 DEF Alike
  <2>2. it = Steps(n, s, base, it) /\ jt = Steps(m, r, base, jt)
    BY <1>2, <1>3
  <2> HIDE DEF m
  <2> QED BY <2>1, <2>2, StepsAgree
<1>5. (1 .. n + 1) \ {Max(1 .. n + 1)} = 1 .. n /\ Max(1 .. n + 1) = n + 1 /\ 1 .. n + 1 # {}
  <2>1. n + 1 \in Nat \ {0} /\ (1 .. n + 1) \ {n + 1} = 1 .. n /\ n + 1 \in 1 .. n + 1
    BY <1>1
  <2>2. Max(1 .. n + 1) = n + 1
    BY <2>1, MaxOfRange
  <2> QED BY <2>1, <2>2
<1>6. jt[1 .. n + 1] = IF 1 .. n + 1 = {} THEN base ELSE Op(jt[(1 .. n + 1) \ {Max(1 .. n + 1)}], r[Max(1 .. n + 1)])
  <2>1. 1 .. n + 1 \in SUBSET (1 .. n + 1)
    OBVIOUS
  <2> QED BY <1>3, <2>1, Zenon DEF Steps
<1>7. jt[1 .. n + 1] = Op(jt[1 .. n], e)
  BY <1>1, <1>5, <1>6
<1> QED BY <1>2, <1>3, <1>4, <1>7 DEF r

-----------------------------------------------------------------------------
(* FlattenSeq.                                                             *)

\* The function that FlattenSeq chooses: the first i parts, joined.
Parts(n, ss, it) == [i \in 1 .. n |-> IF i = 1 THEN ss[i] ELSE it[i - 1] \o ss[i]]

\* There is such a function, for every number of parts.
LEMMA PartsExist == ASSUME NEW ss PROVE \A n \in Nat : \E it : it = Parts(n, ss, it)
<1> DEFINE T == {n \in Nat : \E it : it = Parts(n, ss, it)}
<1>1. 0 \in T
  <2>1. <<>> = Parts(0, ss, <<>>)
    BY DEF Parts
  <2> QED BY <2>1
<1>2. ASSUME NEW n \in Nat, n \in T PROVE n + 1 \in T
  <2>1. PICK it : it = Parts(n, ss, it)
    BY <1>2
  <2> DEFINE jt == [i \in 1 .. n + 1 |->
                      IF i = n + 1 THEN IF i = 1 THEN ss[i] ELSE it[n] \o ss[i] ELSE it[i]]
  <2>2. \A i \in 1 .. n : it[i] = IF i = 1 THEN ss[i] ELSE it[i - 1] \o ss[i]
    <3> HIDE DEF jt
    <3> QED BY <2>1, Zenon DEF Parts
  <2>3. \A i \in 1 .. n : jt[i] = it[i]
    OBVIOUS
  <2>4. jt[n + 1] = IF n + 1 = 1 THEN ss[n + 1] ELSE it[n] \o ss[n + 1]
    OBVIOUS
  <2>5. jt = [i \in 1 .. n + 1 |-> jt[i]]
    OBVIOUS
  <2> HIDE DEF jt
  <2>6. ASSUME NEW i \in 1 .. n + 1
        PROVE  jt[i] = IF i = 1 THEN ss[i] ELSE jt[i - 1] \o ss[i]
    <3>1. CASE i = 1
      BY <2>2, <2>3, <2>4, <3>1
    <3>2. CASE i # 1 /\ i = n + 1
      <4>1. n \in 1 .. n /\ i - 1 = n
        BY <3>2
      <4> QED BY <2>3, <2>4, <3>2, <4>1
    <3>3. CASE i # 1 /\ i # n + 1
      <4>1. i \in 1 .. n /\ i - 1 \in 1 .. n
        BY <3>3
      <4> QED BY <2>2, <2>3, <3>3, <4>1
    <3> QED BY <3>1, <3>2, <3>3
  <2>7. jt = Parts(n + 1, ss, jt)
    BY <2>5, <2>6, Zenon DEF Parts
  <2> QED BY <2>7
<1> HIDE DEF T
<1>3. \A n \in Nat : n \in T
  BY <1>1, <1>2, SetInduction
<1> QED BY <1>3 DEF T

\* Parts that begin alike are joined alike as far as that goes.
LEMMA PartsAgree ==
  ASSUME NEW ss, NEW rr, NEW n \in Nat, NEW m \in Nat, n # 0, n <= m, Alike(n, rr, ss),
         NEW it, it = Parts(n, ss, it), NEW jt, jt = Parts(m, rr, jt)
  PROVE  it[n] = jt[n]
<1> DEFINE T == {k \in Nat : k \in 1 .. n => it[k] = jt[k]}
<1>a. \A i \in 1 .. n : it[i] = IF i = 1 THEN ss[i] ELSE it[i - 1] \o ss[i]
  BY Zenon DEF Parts
<1>b. \A i \in 1 .. m : jt[i] = IF i = 1 THEN rr[i] ELSE jt[i - 1] \o rr[i]
  BY Zenon DEF Parts
<1>1. 0 \in T
  OBVIOUS
<1>2. ASSUME NEW k \in Nat, k \in T PROVE k + 1 \in T
  <2>1. CASE k + 1 \in 1 .. n
    <3>1. rr[k + 1] = ss[k + 1] /\ k + 1 \in 1 .. m
      BY <2>1 DEF Alike
    <3>2. CASE k = 0
      BY <1>a, <1>b, <2>1, <3>1, <3>2
    <3>3. CASE k # 0
      <4>1. it[k] = jt[k] /\ (k + 1) - 1 = k /\ k + 1 # 1
        BY <1>2, <2>1, <3>3
      <4>2. it[k + 1] = it[k] \o ss[k + 1] /\ jt[k + 1] = jt[k] \o rr[k + 1]
        BY <1>a, <1>b, <2>1, <3>1, <4>1
      <4>3. it[k + 1] = jt[k + 1]
        <5> HIDE DEF T
        <5> QED BY <3>1, <4>1, <4>2, Zenon
      <4> QED BY <4>3
    <3> QED BY <3>2, <3>3
  <2>2. CASE k + 1 \notin 1 .. n
    BY <2>2
  <2> QED BY <2>1, <2>2
<1> HIDE DEF T
<1>3. \A k \in Nat : k \in T
  BY <1>1, <1>2, SetInduction
<1> QED BY <1>3 DEF T

\* So what the parts say together is what such a function says of the last.
LEMMA FlattenIs ==
  ASSUME NEW S, NEW ss \in Seq(S), ss # <<>>
  PROVE  \E it : it = Parts(Len(ss), ss, it) /\ FlattenSeq(ss) = it[Len(ss)]
<1> DEFINE it == CHOOSE it : it = Parts(Len(ss), ss, it)
<1>1. \E jt : jt = Parts(Len(ss), ss, jt)
  <2>1. Len(ss) \in Nat
    OBVIOUS
  <2> HIDE DEF it
  <2> QED BY <2>1, PartsExist
<1>2. it = Parts(Len(ss), ss, it)
  BY <1>1, Zenon
<1>3. Len(ss) # 0
  OBVIOUS
<1>4. FlattenSeq(ss) = it[Len(ss)]
  BY <1>3, Zenon DEF FlattenSeq, Parts
<1> QED BY <1>2, <1>4

\* Of no parts nothing is joined.
LEMMA FlattenEmpty == FlattenSeq(<<>>) = <<>>
  BY DEF FlattenSeq

\* One more part goes to the end.
LEMMA FlattenAppend ==
  ASSUME NEW S, NEW ss \in Seq(S), NEW x \in S, <<>> \o x = x
  PROVE  FlattenSeq(Append(ss, x)) = FlattenSeq(ss) \o x
<1> DEFINE rr == Append(ss, x)
           n == Len(ss)
<1>1. rr \in Seq(S) /\ Len(rr) = n + 1 /\ n \in Nat /\ rr[n + 1] = x /\ rr # <<>>
      /\ \A i \in 1 .. n : rr[i] = ss[i]
  OBVIOUS
<1>2. ss = <<>> => n = 0
  OBVIOUS
<1>2a. ss # <<>> => n # 0
  OBVIOUS
<1> HIDE DEF rr
<1>3. PICK jt : jt = Parts(n + 1, rr, jt) /\ FlattenSeq(rr) = jt[n + 1]
  <2> HIDE DEF n
  <2> QED BY <1>1, FlattenIs
<1>4. \A i \in 1 .. n + 1 : jt[i] = IF i = 1 THEN rr[i] ELSE jt[i - 1] \o rr[i]
  BY <1>3, Zenon DEF Parts
<1>5. n + 1 \in 1 .. n + 1
  BY <1>1
<1>6. CASE ss = <<>>
  <2>1. FlattenSeq(rr) = x
    BY <1>1, <1>2, <1>3, <1>4, <1>5, <1>6
  <2>2. FlattenSeq(ss) = <<>>
    BY <1>6, FlattenEmpty
  <2> QED BY <2>1, <2>2, Zenon DEF rr
<1>7. CASE ss # <<>>
  <2>1. PICK it : it = Parts(n, ss, it) /\ FlattenSeq(ss) = it[n]
    BY <1>7, FlattenIs
  <2> HIDE DEF n
  <2>2. it[n] = jt[n]
    <3> DEFINE m == n + 1
    <3>1. n \in Nat /\ n # 0 /\ m \in Nat /\ n <= m /\ Alike(n, rr, ss)
      BY <1>1, <1>2a, <1>7 DEF Alike
    <3>2. it = Parts(n, ss, it) /\ jt = Parts(m, rr, jt)
      BY <1>3, <2>1
    <3> HIDE DEF m
    <3> QED BY <3>1, <3>2, PartsAgree
  <2>3. jt[n + 1] = jt[n] \o x
    <3>1. n + 1 # 1 /\ (n + 1) - 1 = n
      BY <1>1, <1>2a, <1>7
    <3> QED BY <1>1, <1>4, <1>5, <3>1
  <2> QED BY <1>3, <2>1, <2>2, <2>3 DEF rr
<1> QED BY <1>6, <1>7

\* The parts h are the n parts of f and one more.
OneMore(f, h, n) ==
  /\ f = [i \in 1 .. n |-> f[i]] /\ h = [i \in 1 .. n + 1 |-> h[i]]
  /\ \A i \in 1 .. n : h[i] = f[i]

\* The same for parts that are given by their index.
LEMMA FlattenOneMore ==
  ASSUME NEW n \in Nat, NEW f, NEW h, OneMore(f, h, n), <<>> \o h[n + 1] = h[n + 1]
  PROVE  FlattenSeq(h) = FlattenSeq(f) \o h[n + 1]
<1> DEFINE T == {h[i] : i \in 1 .. n + 1}
<1>1. n + 1 \in 1 .. n + 1 /\ \A i \in 1 .. n : i \in 1 .. n + 1
  OBVIOUS
<1>2. h[n + 1] \in T /\ \A i \in 1 .. n : f[i] \in T
  BY <1>1 DEF OneMore
<1>3. \A i \in 1 .. n + 1 : h[i] \in T
  OBVIOUS
<1> HIDE DEF T
<1>4. f \in Seq(T) /\ Len(f) = n /\ h \in Seq(T) /\ Len(h) = n + 1
  <2>1. f \in [1 .. n -> T] /\ h \in [1 .. n + 1 -> T] /\ n + 1 \in Nat
    BY <1>2, <1>3 DEF OneMore
  <2> QED BY <2>1
<1> DEFINE a == Append(f, h[n + 1])
<1>5. a \in Seq(T) /\ Len(a) = n + 1 /\ \A i \in 1 .. n + 1 : a[i] = h[i]
  BY <1>1, <1>2, <1>4 DEF OneMore
<1> HIDE DEF a
<1>6. a = h
  BY <1>4, <1>5, SameEntries
<1>7. FlattenSeq(Append(f, h[n + 1])) = FlattenSeq(f) \o h[n + 1]
  BY <1>2, <1>4, FlattenAppend
<1> QED BY <1>6, <1>7 DEF a

\* What has been joined so far is a sequence of the same values.
LEMMA PartsType ==
  ASSUME NEW S, NEW ss \in Seq(Seq(S)), NEW it, it = Parts(Len(ss), ss, it)
  PROVE  \A k \in 1 .. Len(ss) : it[k] \in Seq(S)
<1>1. \A i \in 1 .. Len(ss) : it[i] = IF i = 1 THEN ss[i] ELSE it[i - 1] \o ss[i]
  BY Zenon DEF Parts
<1> DEFINE T == {k \in Nat : k \in 1 .. Len(ss) => it[k] \in Seq(S)}
<1>2. 0 \in T
  OBVIOUS
<1>3. ASSUME NEW k \in Nat, k \in T PROVE k + 1 \in T
  <2>1. CASE k + 1 \in 1 .. Len(ss)
    <3>1. ss[k + 1] \in Seq(S)
      BY <2>1
    <3>2. CASE k = 0
      BY <1>1, <2>1, <3>1, <3>2
    <3>3. CASE k # 0
      <4>1. it[k] \in Seq(S) /\ (k + 1) - 1 = k /\ k + 1 # 1
        BY <1>3, <2>1, <3>3
      <4>2. it[k + 1] = it[k] \o ss[k + 1]
        BY <1>1, <2>1, <4>1
      <4>3. it[k + 1] \in Seq(S)
        <5>1. it[k] \o ss[k + 1] \in Seq(S)
          BY <3>1, <4>1
        <5> HIDE DEF T
        <5> QED BY <4>2, <5>1, Zenon
      <4> QED BY <4>3
    <3> QED BY <3>2, <3>3
  <2>2. CASE k + 1 \notin 1 .. Len(ss)
    BY <2>2
  <2> QED BY <2>1, <2>2
<1> HIDE DEF T
<1>4. \A k \in Nat : k \in T
  BY <1>2, <1>3, SetInduction
<1> QED BY <1>4 DEF T

\* Joining sequences of values makes a sequence of values.
LEMMA FlattenType ==
  ASSUME NEW S, NEW ss \in Seq(Seq(S)) PROVE FlattenSeq(ss) \in Seq(S)
<1>1. CASE ss = <<>>
  <2>1. FlattenSeq(ss) = <<>>
    BY <1>1, FlattenEmpty
  <2> QED BY <2>1
<1>2. CASE ss # <<>>
  <2>1. PICK it : it = Parts(Len(ss), ss, it) /\ FlattenSeq(ss) = it[Len(ss)]
    BY <1>2, FlattenIs
  <2>2. Len(ss) \in 1 .. Len(ss)
    BY <1>2
  <2> QED BY <2>1, <2>2, PartsType
<1> QED BY <1>1, <1>2

\* From the k-th part on nothing is said.
EmptyFrom(ss, k) == k \in 1 .. Len(ss) /\ \A i \in k .. Len(ss) : ss[i] = <<>>

\* When the parts from the k-th on are empty, filling the k-th appends to what
\* the parts say together.
LEMMA FlattenLate ==
  ASSUME NEW S, NEW ss \in Seq(Seq(S)), NEW k, EmptyFrom(ss, k), NEW x \in Seq(S)
  PROVE  FlattenSeq(ReplaceAt(ss, k, x)) = FlattenSeq(ss) \o x
<1> DEFINE n == Len(ss)
           rr == ReplaceAt(ss, k, x)
<1>1. /\ n \in Nat \ {0} /\ n \in k .. n /\ k \in Nat /\ ss # <<>> /\ rr # <<>>
      /\ rr \in Seq(Seq(S)) /\ Len(rr) = n /\ rr[k] = x
      /\ \A i \in 1 .. n : i # k => rr[i] = ss[i]
      /\ k \in 1 .. n /\ \A i \in k .. n : ss[i] = <<>>
  BY DEF EmptyFrom, ReplaceAt
<1> HIDE DEF rr
<1>2. PICK it : it = Parts(n, ss, it) /\ FlattenSeq(ss) = it[n]
  BY <1>1, FlattenIs
<1>3. PICK jt : jt = Parts(n, rr, jt) /\ FlattenSeq(rr) = jt[n]
  BY <1>1, FlattenIs
<1>4. \A i \in 1 .. n : it[i] = IF i = 1 THEN ss[i] ELSE it[i - 1] \o ss[i]
  BY <1>2, Zenon DEF Parts
<1>5. \A i \in 1 .. n : jt[i] = IF i = 1 THEN rr[i] ELSE jt[i - 1] \o rr[i]
  BY <1>3, Zenon DEF Parts
<1>6. \A i \in 1 .. n : it[i] \in Seq(S)
  BY <1>2, PartsType
<1>7. \A a \in Seq(S) : a \o <<>> = a /\ <<>> \o a = a
  OBVIOUS
<1> DEFINE T == {j \in Nat : j \in 1 .. n => jt[j] = IF j < k THEN it[j] ELSE it[j] \o x}
<1>8. 0 \in T
  OBVIOUS
<1>9. ASSUME NEW j \in Nat, j \in T PROVE j + 1 \in T
  <2> SUFFICES ASSUME j + 1 \in 1 .. n
               PROVE  jt[j + 1] = IF j + 1 < k THEN it[j + 1] ELSE it[j + 1] \o x
    OBVIOUS
  <2>1. j # 0 => /\ (j + 1) - 1 = j /\ j + 1 # 1 /\ j \in 1 .. n
                 /\ it[j + 1] = it[j] \o ss[j + 1] /\ jt[j + 1] = jt[j] \o rr[j + 1]
                 /\ jt[j] = IF j < k THEN it[j] ELSE it[j] \o x
    <3>1. ASSUME j # 0 PROVE (j + 1) - 1 = j /\ j + 1 # 1 /\ j \in 1 .. n
      BY <1>1, <3>1
    <3>2. ASSUME j \in 1 .. n PROVE jt[j] = IF j < k THEN it[j] ELSE it[j] \o x
      BY <1>9, <3>2, Zenon
    <3> HIDE DEF T
    <3>3. ASSUME j # 0 PROVE it[j + 1] = it[j] \o ss[j + 1] /\ jt[j + 1] = jt[j] \o rr[j + 1]
      BY <1>4, <1>5, <3>1, <3>3
    <3> QED BY <3>1, <3>2, <3>3
  <2>2. j = 0 => it[j + 1] = ss[j + 1] /\ jt[j + 1] = rr[j + 1]
    BY <1>4, <1>5
  <2> HIDE DEF T
  <2>3. CASE j + 1 < k
    <3>1. rr[j + 1] = ss[j + 1] /\ j < k
      BY <1>1, <2>3
    <3>2. j = 0 => jt[j + 1] = it[j + 1]
      BY <2>2, <3>1
    <3>3. j # 0 => jt[j + 1] = it[j + 1]
      BY <2>1, <3>1, Zenon
    <3> QED BY <2>3, <3>2, <3>3
  <2>4. CASE j + 1 = k
    <3>1. rr[j + 1] = x /\ ss[j + 1] = <<>> /\ j < k
      BY <1>1, <2>4
    <3>2. j = 0 => jt[j + 1] = it[j + 1] \o x
      <4>1. <<>> \o x = x
        OBVIOUS
      <4> QED BY <2>2, <3>1, <4>1, Zenon
    <3>3. j # 0 => jt[j + 1] = it[j + 1] \o x
      <4>1. ASSUME j # 0 PROVE it[j] \o <<>> = it[j]
        BY <1>6, <1>7, <2>1, <4>1
      <4>2. ASSUME j # 0 PROVE jt[j] = it[j]
        BY <2>1, <3>1, <4>2
      <4> QED BY <2>1, <3>1, <4>1, <4>2, Zenon
    <3>4. jt[j + 1] = it[j + 1] \o x
      BY <3>2, <3>3, Zenon
    <3>5. ~(j + 1 < k)
      BY <1>1, <2>4
    <3> QED BY <3>4, <3>5, Zenon
  <2>5. CASE j + 1 > k
    <3>1. j # 0 /\ rr[j + 1] = <<>> /\ ss[j + 1] = <<>> /\ ~(j < k) /\ ~(j + 1 < k)
      BY <1>1, <2>5
    <3>2. it[j] \in Seq(S)
      BY <1>6, <2>1, <3>1
    <3>3. it[j] \o x \in Seq(S)
      BY <3>2
    <3>4. it[j] \o <<>> = it[j] /\ (it[j] \o x) \o <<>> = it[j] \o x
      BY <1>7, <3>2, <3>3
    <3>5. jt[j + 1] = it[j + 1] \o x
      BY <2>1, <3>1, <3>4, Zenon
    <3> QED BY <3>1, <3>5
  <2> QED BY <1>1, <2>3, <2>4, <2>5
<1> HIDE DEF T
<1>10. \A j \in Nat : j \in T
  BY <1>8, <1>9, SetInduction
<1>11. jt[n] = it[n] \o x
  <2>1. n \in Nat /\ n \in 1 .. n /\ ~(n < k)
    BY <1>1
  <2>2. n \in T
    BY <1>10, <2>1
  <2> HIDE DEF n
  <2> QED BY <2>1, <2>2, Zenon DEF T
<1> QED BY <1>2, <1>3, <1>11 DEF rr

-----------------------------------------------------------------------------
(* The first parts of FlattenSeq.                                          *)

\* What the first k parts say together.
UpTo(ss, k) == FlattenSeq(SubSeq(ss, 1, k))

\* Part after part is joined, until all are.
LEMMA UpToStep ==
  ASSUME NEW S, NEW ss \in Seq(Seq(S)), NEW k \in 0 .. Len(ss)
  PROVE  /\ UpTo(ss, 0) = <<>>
         /\ UpTo(ss, k) \in Seq(S)
         /\ k < Len(ss) => UpTo(ss, k + 1) = UpTo(ss, k) \o ss[k + 1]
         /\ UpTo(ss, Len(ss)) = FlattenSeq(ss)
<1>1. SubSeq(ss, 1, 0) = <<>> /\ SubSeq(ss, 1, Len(ss)) = ss /\ SubSeq(ss, 1, k) \in Seq(Seq(S)) /\ k \in Nat
  OBVIOUS
<1>2. ASSUME k < Len(ss) PROVE UpTo(ss, k + 1) = UpTo(ss, k) \o ss[k + 1]
  <2>1. SubSeq(ss, 1, k + 1) = Append(SubSeq(ss, 1, k), ss[k + 1]) /\ ss[k + 1] \in Seq(S)
    BY <1>2
  <2>2. \A x \in Seq(S) : <<>> \o x = x
    OBVIOUS
  <2>3. <<>> \o ss[k + 1] = ss[k + 1]
    BY <2>1, <2>2
  <2> DEFINE q == SubSeq(ss, 1, k)
             x == ss[k + 1]
             T == Seq(S)
  <2>4. q \in Seq(T) /\ x \in T /\ <<>> \o x = x
    BY <1>1, <2>1, <2>3
  <2> HIDE DEF q, x, T
  <2>5. FlattenSeq(Append(q, x)) = FlattenSeq(q) \o x
    BY <2>4, FlattenAppend
  <2> QED BY <2>1, <2>5 DEF UpTo, q, x
<1>3. UpTo(ss, k) \in Seq(S)
  BY <1>1, FlattenType DEF UpTo
<1> QED BY <1>1, <1>2, <1>3, FlattenEmpty DEF UpTo

\* What more parts say begins with what fewer say, and is the same if the others
\* say nothing.
LEMMA UpToGrows ==
  ASSUME NEW S, NEW ss \in Seq(Seq(S)), NEW j \in 0 .. Len(ss), NEW k \in j .. Len(ss)
  PROVE  /\ IsPrefix(UpTo(ss, j), UpTo(ss, k))
         /\ (\A i \in j + 1 .. k : ss[i] = <<>>) => UpTo(ss, k) = UpTo(ss, j)
<1> DEFINE p == UpTo(ss, j)
           Good(i) == /\ IsPrefix(p, UpTo(ss, i))
                      /\ (\A h \in j + 1 .. i : ss[h] = <<>>) => UpTo(ss, i) = p
           T == {i \in Nat : j + i <= Len(ss) => Good(j + i)}
<1>1. p \in Seq(S) /\ j \in Nat /\ Len(ss) \in Nat
  BY UpToStep
<1>2. 0 \in T
  <2>1. IsPrefix(p, p)
    BY <1>1 DEF IsPrefix
  <2>2. j + 0 = j
    BY <1>1
  <2> QED BY <2>1, <2>2
<1>3. ASSUME NEW i \in Nat, i \in T PROVE i + 1 \in T
  <2> DEFINE n == j + i
             q == UpTo(ss, n)
             r == UpTo(ss, n + 1)
  <2>1. SUFFICES ASSUME n + 1 <= Len(ss) PROVE Good(n + 1)
    <3>1. j + (i + 1) = n + 1 /\ i + 1 \in Nat
      BY <1>1
    <3> QED BY <2>1, <3>1
  <2>2. n \in 0 .. Len(ss) /\ n < Len(ss) /\ n <= Len(ss)
    BY <1>1, <2>1
  <2>3. Good(n)
    BY <1>3, <2>2
  <2>4. q \in Seq(S) /\ r = q \o ss[n + 1] /\ ss[n + 1] \in Seq(S)
    <3>1. PICK m \in 0 .. Len(ss) : m = n
      BY <2>2
    <3>2. UpTo(ss, m) \in Seq(S) /\ (m < Len(ss) => UpTo(ss, m + 1) = UpTo(ss, m) \o ss[m + 1])
      BY UpToStep
    <3>3. ss[n + 1] \in Seq(S)
      BY <1>1, <2>2
    <3> QED BY <2>2, <3>1, <3>2, <3>3
  <2>5. IsPrefix(p, q) /\ ((\A h \in j + 1 .. n : ss[h] = <<>>) => q = p)
    BY <2>3
  <2> DEFINE x == ss[n + 1]
  <2>6. (\A h \in j + 1 .. n + 1 : ss[h] = <<>>) => x = <<>> /\ \A h \in j + 1 .. n : ss[h] = <<>>
    <3> HIDE DEF p, q, r
    <3>1. n \in Int /\ n + 1 \in j + 1 .. n + 1 /\ (j + 1 .. n) \subseteq (j + 1 .. n + 1)
      BY <1>1
    <3> HIDE DEF n
    <3> QED BY <3>1 DEF x
  <2> HIDE DEF p, q, r, x
  <2>7. r = q \o x /\ x \in Seq(S) /\ q \in Seq(S) /\ p \in Seq(S)
    BY <1>1, <2>4 DEF x, p
  <2>8. IsPrefix(p, r)
    <3>1. Len(r) = Len(q) + Len(x) /\ \A h \in 1 .. Len(q) : r[h] = q[h]
      BY <2>7
    <3>2. Len(p) <= Len(q) /\ \A h \in 1 .. Len(p) : p[h] = q[h]
      <4>1. Len(p) <= Len(q) /\ SubSeq(p, 1, Len(p)) = SubSeq(q, 1, Len(p))
        BY <2>5 DEF IsPrefix
      <4> QED BY <2>7, <4>1
    <3>3. Len(p) <= Len(r) /\ \A h \in 1 .. Len(p) : p[h] = r[h]
      BY <2>7, <3>1, <3>2
    <3>4. r \in Seq(S)
      BY <2>7
    <3>5. SubSeq(p, 1, Len(p)) = SubSeq(r, 1, Len(p))
      BY <2>7, <3>3, <3>4
    <3> QED BY <3>3, <3>5 DEF IsPrefix
  <2>9. x = <<>> => r = q
    BY <2>7
  <2> QED BY <2>5, <2>6, <2>8, <2>9 DEF r
<1> HIDE DEF T
<1>4. \A i \in Nat : i \in T
  BY <1>2, <1>3, SetInduction
<1>5. k - j \in Nat /\ j + (k - j) = k /\ k <= Len(ss)
  BY <1>1
<1>6. k - j \in T
  BY <1>4, <1>5
<1>7. Good(k)
  BY <1>5, <1>6 DEF T
<1> QED BY <1>7

\* Lists of parts that begin alike say the same as far as that goes.
LEMMA SameUpTo ==
  ASSUME NEW S, NEW q \in Seq(S), NEW r \in Seq(S), NEW k \in 0 .. Len(q), k <= Len(r), Alike(k, q, r)
  PROVE  UpTo(q, k) = UpTo(r, k)
<1>1. SubSeq(q, 1, k) = SubSeq(r, 1, k)
  BY DEF Alike
<1> QED BY <1>1 DEF UpTo

-----------------------------------------------------------------------------
(* Sequences without a word on what is in them.                            *)

IsSeq(q) == q \in Seq(Range(q))

\* A sequence of anything is one.
LEMMA SeqIs == ASSUME NEW T, NEW q \in Seq(T) PROVE IsSeq(q) /\ DOMAIN q = 1 .. Len(q) /\ Len(q) \in Nat
<1>1. \A i \in 1 .. Len(q) : q[i] \in Range(q)
  BY DEF Range
<1>2. q \in Seq(Range(q))
  BY <1>1
<1> QED BY <1>2 DEF IsSeq

\* And one is a sequence of whatever its entries are in.
LEMMA SeqIn ==
  ASSUME NEW q, IsSeq(q)
  PROVE  /\ DOMAIN q = 1 .. Len(q) /\ Len(q) \in Nat
         /\ \A S : (\A i \in DOMAIN q : q[i] \in S) => q \in Seq(S)
<1>1. q \in Seq(Range(q))
  BY DEF IsSeq
<1>2. DOMAIN q = 1 .. Len(q) /\ Len(q) \in Nat
  BY <1>1
<1>3. ASSUME NEW S, \A i \in DOMAIN q : q[i] \in S PROVE q \in Seq(S)
  BY <1>1, <1>2, <1>3
<1> QED BY <1>2, <1>3

\* Parts given by their index are sequences of values of one kind.
LEMMA SeqsOf ==
  ASSUME NEW n \in Nat, NEW ss, ss = [i \in 1 .. n |-> ss[i]], \A i \in 1 .. n : IsSeq(ss[i])
  PROVE  Len(ss) = n /\ DOMAIN ss = 1 .. n /\ IsSeq(ss) /\ \E S : ss \in Seq(Seq(S))
<1> DEFINE S == UNION {Range(ss[i]) : i \in 1 .. n}
<1>1. \A i \in 1 .. n : \A j \in DOMAIN ss[i] : ss[i][j] \in S
  BY DEF Range
<1> HIDE DEF S
<1>2. \A i \in 1 .. n : ss[i] \in Seq(S)
  BY <1>1, SeqIn
<1>3. ss \in Seq(Seq(S)) /\ Len(ss) = n /\ DOMAIN ss = 1 .. n
  <2>1. ss \in [1 .. n -> Seq(S)]
    BY <1>2
  <2> QED BY <2>1
<1>4. IsSeq(ss)
  BY <1>3, SeqIs
<1> QED BY <1>3, <1>4

-----------------------------------------------------------------------------
(* Two lists of parts.                                                     *)

\* A sequence has the entries of two others, one after the other.
OneThenOther(x, y, z) ==
  /\ Len(z) = Len(x) + Len(y)
  /\ \A i \in 1 .. Len(x) : z[i] = x[i]
  /\ \A i \in 1 .. Len(y) : z[Len(x) + i] = y[i]

\* Then it is the two joined.
LEMMA JoinedIs ==
  ASSUME NEW U, NEW x \in Seq(U), NEW y \in Seq(U), NEW z \in Seq(U), OneThenOther(x, y, z)
  PROVE  z = x \o y
<1> DEFINE w == x \o y
           l == Len(x)
<1>1. /\ w \in Seq(U) /\ Len(w) = Len(z) /\ l \in Nat /\ Len(y) \in Nat
      /\ \A i \in 1 .. l : w[i] = x[i]
      /\ \A i \in 1 .. Len(y) : w[l + i] = y[i]
  BY Joined DEF OneThenOther
<1> HIDE DEF w
<1>a. /\ Len(z) = Len(x) + Len(y)
      /\ \A i \in 1 .. Len(x) : z[i] = x[i]
      /\ \A i \in 1 .. Len(y) : z[Len(x) + i] = y[i]
  BY DEF OneThenOther
<1>2. ASSUME NEW i \in 1 .. Len(z) PROVE z[i] = w[i]
  <2>1. CASE i <= l
    BY <1>1, <1>a, <2>1
  <2>2. CASE i > l
    <3>1. i - l \in 1 .. Len(y) /\ l + (i - l) = i
      BY <1>1, <1>a, <2>2
    <3> QED BY <1>1, <1>a, <3>1
  <2> QED BY <1>1, <2>1, <2>2
<1>3. z = w
  BY <1>1, <1>2, SameEntries
<1> QED BY <1>3 DEF w

\* Three sequences may be joined in either order.
LEMMA JoinedThree ==
  ASSUME NEW U, NEW a \in Seq(U), NEW b \in Seq(U), NEW c \in Seq(U)
  PROVE  (a \o b) \o c = a \o (b \o c)
<1> DEFINE p == a \o b
           q == b \o c
           z == p \o c
<1>1. /\ p \in Seq(U) /\ Len(p) = Len(a) + Len(b)
      /\ \A i \in 1 .. Len(a) : p[i] = a[i]
      /\ \A i \in 1 .. Len(b) : p[Len(a) + i] = b[i]
  BY Joined
<1>2. /\ q \in Seq(U) /\ Len(q) = Len(b) + Len(c)
      /\ \A i \in 1 .. Len(b) : q[i] = b[i]
      /\ \A i \in 1 .. Len(c) : q[Len(b) + i] = c[i]
  BY Joined
<1> HIDE DEF p, q
<1>3. /\ z \in Seq(U) /\ Len(z) = Len(p) + Len(c)
      /\ \A i \in 1 .. Len(p) : z[i] = p[i]
      /\ \A i \in 1 .. Len(c) : z[Len(p) + i] = c[i]
  <2>1. p \in Seq(U) /\ c \in Seq(U)
    BY <1>1
  <2> QED BY <2>1, Joined
<1> HIDE DEF z
<1>4. Len(a) \in Nat /\ Len(b) \in Nat /\ Len(c) \in Nat
  OBVIOUS
<1>5. Len(z) = Len(a) + Len(q) /\ \A i \in 1 .. Len(a) : z[i] = a[i]
  BY <1>1, <1>2, <1>3, <1>4
<1>6. ASSUME NEW i \in 1 .. Len(q) PROVE z[Len(a) + i] = q[i]
  <2>1. CASE i <= Len(b)
    <3>1. i \in 1 .. Len(b) /\ Len(a) + i \in 1 .. Len(p)
      BY <1>1, <1>2, <1>4, <2>1
    <3> QED BY <1>1, <1>2, <1>3, <3>1
  <2>2. CASE i > Len(b)
    <3>1. i - Len(b) \in 1 .. Len(c) /\ Len(b) + (i - Len(b)) = i /\ Len(p) + (i - Len(b)) = Len(a) + i
      BY <1>1, <1>2, <1>4, <2>2
    <3> QED BY <1>2, <1>3, <3>1
  <2> QED BY <1>2, <1>4, <2>1, <2>2
<1>7. z = a \o q
  <2>1. OneThenOther(a, q, z) /\ q \in Seq(U) /\ z \in Seq(U)
    BY <1>2, <1>3, <1>5, <1>6 DEF OneThenOther
  <2> QED BY <2>1, JoinedIs
<1> QED BY <1>7 DEF z, p, q

\* Each entry mapped.
Mapped(G, q) == [i \in DOMAIN q |-> G[q[i]]]

Maps(G, T, U) == \A x \in T : G[x] \in U

\* Mapping and joining may be done in either order.
LEMMA MappedJoined ==
  ASSUME NEW T, NEW U, NEW G, Maps(G, T, U), NEW a \in Seq(T), NEW b \in Seq(T)
  PROVE  /\ Mapped(G, a) \in Seq(U) /\ Len(Mapped(G, a)) = Len(a)
         /\ Mapped(G, a \o b) = Mapped(G, a) \o Mapped(G, b)
<1>1. ASSUME NEW q \in Seq(T)
      PROVE  Mapped(G, q) \in Seq(U) /\ Len(Mapped(G, q)) = Len(q) /\ \A i \in 1 .. Len(q) : Mapped(G, q)[i] = G[q[i]]
  <2>1. DOMAIN q = 1 .. Len(q) /\ \A i \in 1 .. Len(q) : G[q[i]] \in U
    BY DEF Maps
  <2> QED BY <2>1 DEF Mapped
<1> DEFINE x == Mapped(G, a)
           y == Mapped(G, b)
           c == a \o b
           z == Mapped(G, c)
<1>2. /\ c \in Seq(T) /\ Len(c) = Len(a) + Len(b) /\ Len(a) \in Nat /\ Len(b) \in Nat
      /\ \A i \in 1 .. Len(a) : c[i] = a[i]
      /\ \A i \in 1 .. Len(b) : c[Len(a) + i] = b[i]
  BY Joined
<1> HIDE DEF c
<1>3. /\ x \in Seq(U) /\ Len(x) = Len(a) /\ \A i \in 1 .. Len(a) : x[i] = G[a[i]]
      /\ y \in Seq(U) /\ Len(y) = Len(b) /\ \A i \in 1 .. Len(b) : y[i] = G[b[i]]
      /\ z \in Seq(U) /\ Len(z) = Len(c) /\ \A i \in 1 .. Len(c) : z[i] = G[c[i]]
  BY <1>1, <1>2
<1> HIDE DEF x, y, z
<1>4. \A i \in 1 .. Len(x) : z[i] = x[i]
  BY <1>2, <1>3
<1>5. \A i \in 1 .. Len(y) : z[Len(x) + i] = y[i]
  <2>1. \A i \in 1 .. Len(b) : Len(a) + i \in 1 .. Len(c) /\ c[Len(a) + i] = b[i]
    BY <1>2
  <2>2. \A i \in 1 .. Len(b) : z[Len(a) + i] = G[c[Len(a) + i]] /\ y[i] = G[b[i]]
    BY <1>3, <2>1
  <2>3. Len(x) = Len(a) /\ Len(y) = Len(b)
    BY <1>3
  <2> QED BY <2>1, <2>2, <2>3
<1>6. z = x \o y
  <2>1. Len(z) = Len(x) + Len(y)
    BY <1>2, <1>3
  <2>2. x \in Seq(U) /\ y \in Seq(U) /\ z \in Seq(U) /\ OneThenOther(x, y, z)
    BY <1>3, <1>4, <1>5, <2>1 DEF OneThenOther
  <2> QED BY <2>2, JoinedIs
<1> QED BY <1>3, <1>6 DEF x, y, z, c

\* What two lists of parts say together is what the one says and then the other.
LEMMA FlattenJoined ==
  ASSUME NEW S, NEW a \in Seq(Seq(S)), NEW b \in Seq(Seq(S))
  PROVE  FlattenSeq(a \o b) = FlattenSeq(a) \o FlattenSeq(b)
<1> DEFINE p == FlattenSeq(a)
           T == {k \in Nat : k <= Len(b) => FlattenSeq(a \o SubSeq(b, 1, k)) = p \o UpTo(b, k)}
<1>1. p \in Seq(S) /\ Len(b) \in Nat
  BY FlattenType
<1>2. 0 \in T
  <2>1. SubSeq(b, 1, 0) = <<>> /\ a \o <<>> = a
    OBVIOUS
  <2>2. UpTo(b, 0) = <<>>
    <3>1. 0 \in 0 .. Len(b)
      BY <1>1
    <3> QED BY <3>1, UpToStep
  <2>3. p \o <<>> = p
    <3> HIDE DEF p
    <3> QED BY <1>1
  <2> QED BY <2>1, <2>2, <2>3
<1>3. ASSUME NEW k \in Nat, k \in T PROVE k + 1 \in T
  <2>1. SUFFICES ASSUME k + 1 <= Len(b) PROVE FlattenSeq(a \o SubSeq(b, 1, k + 1)) = p \o UpTo(b, k + 1)
    OBVIOUS
  <2> DEFINE q == SubSeq(b, 1, k)
             x == b[k + 1]
             V == Seq(S)
             u == UpTo(b, k)
  <2>2. k \in 0 .. Len(b) /\ k < Len(b) /\ k <= Len(b)
    BY <1>1, <2>1
  <2>3. u \in V /\ UpTo(b, k + 1) = u \o x
    BY <2>2, UpToStep
  <2>4. q \in Seq(V) /\ x \in V /\ SubSeq(b, 1, k + 1) = Append(q, x) /\ a \in Seq(V)
    BY <2>2
  <2>5. FlattenSeq(a \o q) = p \o u
    BY <1>3, <2>2
  <2>6. <<>> \o x = x
    BY <2>4
  <2> HIDE DEF p, q, x, u, V
  <2>7. a \o Append(q, x) = Append(a \o q, x) /\ a \o q \in Seq(V)
    BY <2>4, ConcatAppend
  <2>8. FlattenSeq(Append(a \o q, x)) = FlattenSeq(a \o q) \o x
    BY <2>4, <2>6, <2>7, FlattenAppend
  <2>9. (p \o u) \o x = p \o (u \o x)
    <3>1. p \in Seq(S) /\ u \in Seq(S) /\ x \in Seq(S)
      BY <1>1, <2>3, <2>4 DEF V
    <3> QED BY <3>1, JoinedThree
  <2> QED BY <2>3, <2>4, <2>5, <2>7, <2>8, <2>9
<1> HIDE DEF T
<1>4. Len(b) \in T
  BY <1>1, <1>2, <1>3, SetInduction
<1>5. FlattenSeq(a \o SubSeq(b, 1, Len(b))) = p \o UpTo(b, Len(b))
  BY <1>1, <1>4 DEF T
<1>6. SubSeq(b, 1, Len(b)) = b
  OBVIOUS
<1> QED BY <1>5, <1>6, Zenon DEF UpTo

\* Where an entry of a part comes to be: after all that earlier parts say.
LEMMA Place ==
  ASSUME NEW S, NEW ss \in Seq(Seq(S)), NEW n \in 1 .. Len(ss), NEW a \in 1 .. Len(ss[n])
  PROVE  LET before == Len(UpTo(ss, n - 1))
             all == FlattenSeq(ss)
         IN /\ before \in Nat /\ before + a \in 1 .. Len(UpTo(ss, n))
            /\ Len(UpTo(ss, n)) \in 0 .. Len(all) /\ Len(all) \in Nat /\ DOMAIN all = 1 .. Len(all)
            /\ all[before + a] = ss[n][a]
<1> DEFINE p == UpTo(ss, n - 1)
           q == UpTo(ss, n)
           x == ss[n]
           all == FlattenSeq(ss)
<1>1. /\ n \in 0 .. Len(ss) /\ n - 1 \in 0 .. Len(ss) /\ n - 1 < Len(ss) /\ (n - 1) + 1 = n
      /\ Len(ss) \in n .. Len(ss) /\ Len(ss) \in 0 .. Len(ss)
  OBVIOUS
<1>2. p \in Seq(S) /\ q = p \o x /\ x \in Seq(S)
  <2> DEFINE k == n - 1
  <2>1. k \in 0 .. Len(ss) /\ k < Len(ss) /\ k + 1 = n
    BY <1>1
  <2> HIDE DEF k
  <2>2. UpTo(ss, k) \in Seq(S) /\ UpTo(ss, k + 1) = UpTo(ss, k) \o ss[k + 1]
    BY <2>1, UpToStep
  <2>3. UpTo(ss, k) \in Seq(S) /\ UpTo(ss, n) = UpTo(ss, k) \o ss[n]
    BY <2>1, <2>2
  <2> QED BY <2>3 DEF k
<1>3. all \in Seq(S) /\ UpTo(ss, Len(ss)) = all
  BY <1>1, UpToStep, FlattenType
<1>4. IsPrefix(q, all)
  BY <1>1, <1>3, UpToGrows
<1> HIDE DEF p, q, x, all
<1>5. /\ q \in Seq(S) /\ Len(q) = Len(p) + Len(x) /\ q[Len(p) + a] = x[a]
      /\ Len(p) \in Nat /\ a \in 1 .. Len(x) /\ Len(x) \in Nat
  <2>1. a \in 1 .. Len(x)
    BY DEF x
  <2>2. Len(p) \in Nat /\ Len(x) \in Nat
    BY <1>2
  <2> QED BY <1>2, <2>1, <2>2, Joined
<1>6. Len(p) + a \in 1 .. Len(q)
  BY <1>5
<1>7. Len(q) <= Len(all) /\ SubSeq(q, 1, Len(q)) = SubSeq(all, 1, Len(q))
  BY <1>4 DEF IsPrefix
<1>8. all[Len(p) + a] = q[Len(p) + a]
  BY <1>3, <1>5, <1>6, <1>7
<1>9. Len(q) \in 0 .. Len(all) /\ Len(all) \in Nat /\ DOMAIN all = 1 .. Len(all)
  BY <1>3, <1>5, <1>7
<1>10. all[Len(p) + a] = x[a]
  BY <1>5, <1>8
<1> QED BY <1>5, <1>6, <1>9, <1>10, Zenon DEF p, q, x, all

\* One part says what it says.
LEMMA FlattenOne == ASSUME NEW S, NEW x \in Seq(S) PROVE FlattenSeq(<<x>>) = x
<1>1. <<>> \o x = x
  OBVIOUS
<1> DEFINE V == Seq(S)
<1>2. x \in V /\ <<>> \in Seq(V) /\ Append(<<>>, x) = <<x>>
  OBVIOUS
<1> HIDE DEF V
<1>3. FlattenSeq(Append(<<>>, x)) = FlattenSeq(<<>>) \o x
  BY <1>1, <1>2, FlattenAppend
<1> QED BY <1>1, <1>2, <1>3, FlattenEmpty

\* What either of two sequences says, both say together.
LEMMA RangeJoined ==
  ASSUME NEW T, NEW a \in Seq(T), NEW b \in Seq(T)
  PROVE  Range(a) \cup Range(b) \subseteq Range(a \o b)
<1> DEFINE c == a \o b
<1>1. /\ DOMAIN a = 1 .. Len(a) /\ DOMAIN b = 1 .. Len(b) /\ DOMAIN c = 1 .. Len(a) + Len(b)
      /\ Len(a) \in Nat /\ Len(b) \in Nat
  BY Joined
<1>2. /\ \A i \in 1 .. Len(a) : c[i] = a[i]
      /\ \A i \in 1 .. Len(b) : c[Len(a) + i] = b[i]
  BY Joined
<1> HIDE DEF c
<1>3. ASSUME NEW i \in DOMAIN a PROVE a[i] \in Range(c)
  <2>1. i \in DOMAIN c /\ c[i] = a[i]
    BY <1>1, <1>2
  <2> QED BY <2>1 DEF Range
<1>4. ASSUME NEW i \in DOMAIN b PROVE b[i] \in Range(c)
  <2>1. Len(a) + i \in DOMAIN c /\ c[Len(a) + i] = b[i]
    BY <1>1, <1>2
  <2> QED BY <2>1 DEF Range
<1> QED BY <1>3, <1>4 DEF Range, c

\* What a part says, all say together.
LEMMA RangeFlatten ==
  ASSUME NEW S, NEW ss \in Seq(Seq(S)), NEW n \in 1 .. Len(ss)
  PROVE  Range(ss[n]) \subseteq Range(FlattenSeq(ss))
<1>1. DOMAIN ss[n] = 1 .. Len(ss[n])
  OBVIOUS
<1>2. ASSUME NEW a \in 1 .. Len(ss[n]) PROVE ss[n][a] \in Range(FlattenSeq(ss))
  <2> DEFINE all == FlattenSeq(ss)
             before == Len(UpTo(ss, n - 1))
             to == Len(UpTo(ss, n))
  <2>1. /\ before \in Nat /\ before + a \in 1 .. to
        /\ to \in 0 .. Len(all) /\ Len(all) \in Nat /\ DOMAIN all = 1 .. Len(all)
        /\ all[before + a] = ss[n][a]
    BY Place
  <2> HIDE DEF all, before, to
  <2>2. before + a \in DOMAIN all
    BY <2>1
  <2> QED BY <2>1, <2>2 DEF Range, all
<1> QED BY <1>1, <1>2 DEF Range
=============================================================================

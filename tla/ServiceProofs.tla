---------------------------- MODULE ServiceProofs -----------------------------
(***************************************************************************)
(* Theorems about Service, for any instances, deployments, requests,       *)
(* limits and number of crashes.  One invariant is about instances: how an *)
(* instance's stage, the path and the port hang together.  Another is      *)
(* about the request: until it is done with, nothing has been billed.      *)
(***************************************************************************)
EXTENDS Service, TLAPS

PathType == [kind : {"none", "file", "socket"}, owner : Instances \cup {Nobody}, private : BOOLEAN]

ListenType ==
  /\ config \in Deployments
  /\ instance \in [Instances -> Stages]
  /\ path \in PathType
  /\ port \in Instances \cup {Nobody}

\* Who runs has a configuration that is allowed to.
RunsValidated == \A p \in Instances : instance[p] # "down" => Validated(p)

\* The port is held by a TCP instance that has bound it.
PortHeld ==
  \A p \in Instances : port = p =>
    config[p].listen = "tcp" /\ instance[p] \in {"announcing", "serving"}

\* The path belongs to an instance that has bound it, and its socket is private
\* once that instance has gone on.
PathHeld ==
  \A p \in Instances : path.owner = p =>
    /\ path.kind = "socket"
    /\ instance[p] \in {"tightening", "announcing", "serving"}
    /\ instance[p] # "tightening" => path.private

\* Nobody comes past a real file.
FileStops ==
  path.kind = "file" => path = RealFile /\ \A p \in Instances : instance[p] \notin {"removing", "tightening"}

ListenInv == ListenType /\ RunsValidated /\ PortHeld /\ PathHeld /\ FileStops

\* The invariant of the instances holds at the start.
LEMMA ListenInvInit == ListenInit => ListenInv
<1> SUFFICES ASSUME ListenInit
             PROVE  ListenInv
  OBVIOUS
<1>1. ListenType
  <2>1. path \in {NoPath, RealFile, Socket(Nobody, TRUE)}
    BY DEF ListenInit
  <2>2. NoPath \in PathType /\ RealFile \in PathType /\ Socket(Nobody, TRUE) \in PathType
    BY DEF PathType, NoPath, RealFile, Socket
  <2>3. path \in PathType
    BY <2>1, <2>2
  <2>4. QED
    BY <2>3 DEF ListenInit, ListenType, Stages, StartUp
<1>2. RunsValidated /\ PortHeld
  BY ListeningAssumption DEF ListenInit, RunsValidated, PortHeld
<1>3. PathHeld /\ FileStops
  BY ListeningAssumption DEF ListenInit, PathHeld, FileStops, NoPath, RealFile, Socket
<1>4. QED
  BY <1>1, <1>2, <1>3 DEF ListenInv

\* A step of an instance on its way to listening preserves it.
LEMMA ListenInvAdvance ==
  ASSUME ListenInv, NEW p \in Instances, Advance(p)
  PROVE  ListenInv'
<1> USE ListeningAssumption DEF ListenInv, ListenType, At
<1>c. config' = config /\ \A q \in Instances : Validated(q)' = Validated(q)
  BY DEF Advance, Start, Look, RemoveFile, BindUnix, Tighten, BindTcp, Announce, Validated
<1>1. CASE Start(p)
  <2>1. ListenType'
    BY <1>1 DEF Start, Stages, StartUp
  <2>2. RunsValidated' /\ PortHeld'
    BY <1>1, <1>c DEF Start, RunsValidated, PortHeld
  <2>3. PathHeld' /\ FileStops'
    BY <1>1 DEF Start, PathHeld, FileStops
  <2>4. QED
    BY <2>1, <2>2, <2>3
<1>2. CASE Look(p)
  <2>0. Verdict[path.kind] \in {"binding", "removing", "down"} /\ (path.kind = "file" => Verdict[path.kind] = "down")
    BY DEF Verdict, PathType
  <2>1. ListenType'
    BY <1>2, <2>0 DEF Look, Stages, StartUp
  <2>2. RunsValidated' /\ PortHeld'
    BY <1>2, <1>c, <2>0 DEF Look, RunsValidated, PortHeld
  <2>3. PathHeld' /\ FileStops'
    BY <1>2, <2>0 DEF Look, PathHeld, FileStops
  <2>4. QED
    BY <2>1, <2>2, <2>3
<1>3. CASE RemoveFile(p)
  <2>1. ListenType'
    BY <1>3 DEF RemoveFile, Stages, StartUp, PathType, NoPath
  <2>2. RunsValidated' /\ PortHeld'
    BY <1>3, <1>c DEF RemoveFile, RunsValidated, PortHeld
  <2>3. PathHeld' /\ FileStops'
    BY <1>3 DEF RemoveFile, PathHeld, FileStops, NoPath
  <2>4. QED
    BY <2>1, <2>2, <2>3
<1>4. CASE BindUnix(p)
  <2>1. ListenType'
    BY <1>4 DEF BindUnix, Stages, StartUp, PathType, Socket
  <2>2. RunsValidated' /\ PortHeld'
    BY <1>4, <1>c DEF BindUnix, RunsValidated, PortHeld
  <2>3. PathHeld' /\ FileStops'
    BY <1>4 DEF BindUnix, PathHeld, FileStops, NoPath, Socket, RealFile
  <2>4. QED
    BY <2>1, <2>2, <2>3
<1>5. CASE Tighten(p)
  <2>1. ListenType'
    BY <1>5 DEF Tighten, Stages, StartUp, PathType
  <2>2. RunsValidated' /\ PortHeld'
    BY <1>5, <1>c DEF Tighten, RunsValidated, PortHeld
  <2>3. PathHeld' /\ FileStops'
    BY <1>5 DEF Tighten, PathHeld, FileStops, NoPath, PathType
  <2>4. QED
    BY <2>1, <2>2, <2>3
<1>6. CASE BindTcp(p)
  <2>1. ListenType'
    BY <1>6 DEF BindTcp, Stages, StartUp
  <2>2. RunsValidated' /\ PortHeld'
    BY <1>6, <1>c DEF BindTcp, RunsValidated, PortHeld
  <2>3. PathHeld' /\ FileStops'
    BY <1>6 DEF BindTcp, PathHeld, FileStops
  <2>4. QED
    BY <2>1, <2>2, <2>3
<1>7. CASE Announce(p)
  <2>1. ListenType'
    BY <1>7 DEF Announce, Stages, StartUp
  <2>2. RunsValidated' /\ PortHeld'
    BY <1>7, <1>c DEF Announce, RunsValidated, PortHeld
  <2>3. PathHeld' /\ FileStops'
    BY <1>7 DEF Announce, PathHeld, FileStops
  <2>4. QED
    BY <2>1, <2>2, <2>3
<1>8. QED
  BY <1>1, <1>2, <1>3, <1>4, <1>5, <1>6, <1>7 DEF Advance

\* So does the end of an instance, wherever it is.
LEMMA ListenInvCrash ==
  ASSUME ListenInv, NEW p \in Instances, Crash(p)
  PROVE  ListenInv'
<1> USE ListeningAssumption DEF ListenInv, ListenType, Crash
<1>1. ListenType'
  BY DEF Stages, PathType
<1>2. RunsValidated' /\ PortHeld'
  BY DEF RunsValidated, PortHeld, Validated
<1>3. PathHeld' /\ FileStops'
  BY DEF PathHeld, FileStops, RealFile, PathType
<1>4. QED
  BY <1>1, <1>2, <1>3

\* Whoever is reached over TCP has keys, and a socket that is not private yet
\* belongs to an instance that is about to make it so.
LEMMA BoundGuarded ==
  ASSUME ListenInv, NEW p \in Instances, Bound(p)
  PROVE  (path.owner = p /\ path.private) \/ Secrets(config[p].keys) # {} \/ instance[p] = "tightening"
BY DEF ListenInv, Bound, PathHeld, PortHeld, RunsValidated, Validated

-----------------------------------------------------------------------------
Under == stage \in {"idle", "reading", "calling", "recovering"}

\* Nothing is billed while the request is under way, and once at most after.
BilledInv == billed \in {0, 1} /\ (Under => billed = 0)

\* What has been sent has passed the checks on its body.
ReadInv ==
  /\ stage \in {"idle", "reading"} => attempts = 0 /\ reply = NoReply
  /\ stage \in {"calling", "recovering"} => attempts > 0
  /\ attempts \in Nat
  /\ stage # "idle" => request \in Requests
  /\ request = NoRequest \/ request \in Requests
  /\ request.kind = "generate" /\ attempts > 0 => GenerateStatus(request) = 200

RequestInv == BilledInv /\ ReadInv

\* Both hold at the start.
LEMMA RequestInvInit == ImageInit => RequestInv
BY DEF ImageInit, RequestInv, BilledInv, ReadInv, Under

\* A request arrives.
LEMMA RequestInvArrive ==
  ASSUME RequestInv, NEW r \in Requests, NEW known, Arrive(r, known)
  PROVE  RequestInv'
<1> USE DEF RequestInv, Arrive, Done
<1>1. BilledInv'
  BY DEF BilledInv, Under
<1>2. ReadInv'
  BY DEF ReadInv
<1>3. QED
  BY <1>1, <1>2

\* Whatever the handler does preserves it: only an attempt can bill, and then it
\* is the last.
LEMMA RequestInvHandle ==
  ASSUME RequestInv, Handle
  PROVE  RequestInv'
<1> USE DEF RequestInv, Done, Refuse, Dispatch
<1>1. CASE Generate
  <2>1. BilledInv'
    BY <1>1 DEF Generate, BilledInv, Under
  <2>2. ReadInv'
    BY <1>1 DEF Generate, ReadInv
  <2>3. QED
    BY <2>1, <2>2
<1>2. CASE ReadField
  <2>1. request' = request /\ attempts' = attempts /\ billed' = billed /\ stage = "reading"
        /\ stage' \in {"reading", "done"} /\ (stage' = "reading" => reply' = reply)
    BY <1>2 DEF ReadField
  <2>2. BilledInv'
    BY <2>1 DEF BilledInv, Under
  <2>3. ReadInv'
    BY <2>1 DEF ReadInv
  <2>4. QED
    BY <2>2, <2>3
<1>3. CASE EndOfFields
  <2>1. BilledInv'
    BY <1>3 DEF EndOfFields, BilledInv, Under
  <2>2. ReadInv'
    BY <1>3 DEF EndOfFields, ReadInv
  <2>3. QED
    BY <2>1, <2>2
<1>4. CASE Recover
  <2>1. BilledInv'
    BY <1>4 DEF Recover, BilledInv, Under
  <2>2. ReadInv'
    BY <1>4 DEF Recover, ReadInv
  <2>3. QED
    BY <2>1, <2>2
<1>5. CASE RecoverFails
  <2>1. BilledInv'
    BY <1>5 DEF RecoverFails, BilledInv, Under
  <2>2. ReadInv'
    BY <1>5 DEF RecoverFails, ReadInv
  <2>3. QED
    BY <2>1, <2>2
<1>6. ASSUME NEW status \in Statuses, NEW id \in GivenIds, NEW signedIn \in BOOLEAN,
             NEW charge \in {0, 1}, AttemptFails(status, id, signedIn, charge)
      PROVE  RequestInv'
  <2>1. charge > 0 => ~Recoverable(status)
    BY <1>6 DEF AttemptFails, Recoverable, BeforeWork
  <2>2. stage = "calling" /\ stage' \in {"done", "recovering"} /\ billed' = billed + charge
        /\ request' = request /\ attempts' = attempts
    BY <1>6 DEF AttemptFails
  <2>3. stage' = "recovering" => charge = 0
    BY <1>6, <2>1 DEF AttemptFails
  <2>4. BilledInv'
    BY <2>2, <2>3 DEF BilledInv, Under
  <2>5. ReadInv'
    BY <2>2 DEF ReadInv
  <2>6. QED
    BY <2>4, <2>5
<1>7. ASSUME NEW images \in Answers, NEW id \in GivenIds, AttemptSucceeds(images, id)
      PROVE  RequestInv'
  <2>1. stage = "calling" /\ stage' = "done" /\ billed' = billed + 1
        /\ request' = request /\ attempts' = attempts
    BY <1>7 DEF AttemptSucceeds
  <2>2. BilledInv'
    BY <2>1 DEF BilledInv, Under
  <2>3. ReadInv'
    BY <2>1 DEF ReadInv
  <2>4. QED
    BY <2>2, <2>3
<1>8. QED
  BY <1>1, <1>2, <1>3, <1>4, <1>5, <1>6, <1>7 DEF Handle

\* A request that is dropped may have been done, but is not sent again.
LEMMA RequestInvDrop ==
  ASSUME RequestInv, Drop
  PROVE  RequestInv'
<1> USE DEF RequestInv, Drop
<1>1. BilledInv'
  BY DEF BilledInv, Under
<1>2. ReadInv'
  BY DEF ReadInv
<1>3. QED
  BY <1>1, <1>2

-----------------------------------------------------------------------------
(* Totals.                                                                 *)

Facts == INSTANCE SequenceFacts WITH Op <- Plus

\* A total is the fold that the instance has facts about.
LEMMA SumIs == ASSUME NEW q PROVE Sum(q) = Facts!Fold(0, q)
  BY Zenon DEF Sum, FoldLeft, MapThenFoldSet, Facts!Fold, Facts!FoldLeft, Facts!MapThenFoldSet, Max, Facts!Max

\* One more size is added to the total.
LEMMA SumAppend ==
  ASSUME NEW q \in Seq(Nat), NEW n \in Nat
  PROVE  Sum(Append(q, n)) = Sum(q) + n
<1>1. Facts!Fold(0, Append(q, n)) = Plus(Facts!Fold(0, q), n)
  BY Facts!FoldAppend
<1> QED BY <1>1, SumIs DEF Plus

\* Of nothing it is zero.
LEMMA SumEmpty == Sum(<<>>) = 0
<1>1. Facts!Fold(0, <<>>) = 0
  BY Facts!FoldEmpty
<1> QED BY <1>1, SumIs

\* The totals of the first k are numbers, and none is larger than the last.
Rising(q, k) ==
  \A i \in 0 .. k : Sum(SubSeq(q, 1, i)) \in Nat /\ Sum(SubSeq(q, 1, i)) <= Sum(SubSeq(q, 1, k))

\* Totals only grow along a sequence of sizes.
LEMMA SumRises ==
  ASSUME NEW q \in Seq(Nat), NEW k \in 0 .. Len(q)
  PROVE  Rising(q, k)
<1> DEFINE S == {j \in Nat : j <= Len(q) => Rising(q, j)}
<1>1. 0 \in S
  <2>1. SubSeq(q, 1, 0) = <<>>
    OBVIOUS
  <2>2. \A i \in 0 .. 0 : i = 0
    OBVIOUS
  <2>3. Sum(SubSeq(q, 1, 0)) = 0
    BY <2>1, SumEmpty
  <2>4. Rising(q, 0)
    BY <2>2, <2>3 DEF Rising
  <2> QED BY <2>4
<1>2. ASSUME NEW j \in Nat, j \in S PROVE j + 1 \in S
  <2>1. SUFFICES ASSUME j + 1 <= Len(q) PROVE Rising(q, j + 1)
    OBVIOUS
  <2>2. Rising(q, j)
    BY <1>2, <2>1
  <2> DEFINE p == SubSeq(q, 1, j)
  <2>3. /\ p \in Seq(Nat) /\ q[j + 1] \in Nat
        /\ SubSeq(q, 1, j + 1) = Append(p, q[j + 1])
    BY <2>1
  <2> HIDE DEF p
  <2>4. Sum(SubSeq(q, 1, j + 1)) = Sum(p) + q[j + 1]
    BY <2>3, SumAppend
  <2>5. Sum(p) \in Nat /\ \A i \in 0 .. j : Sum(SubSeq(q, 1, i)) \in Nat /\ Sum(SubSeq(q, 1, i)) <= Sum(p)
    <3>1. j \in 0 .. j
      OBVIOUS
    <3> QED BY <2>2, <3>1 DEF Rising, p
  <2>6. \A i \in 0 .. j + 1 : i \in 0 .. j \/ i = j + 1
    OBVIOUS
  <2>7. Sum(SubSeq(q, 1, j + 1)) \in Nat /\ Sum(p) <= Sum(SubSeq(q, 1, j + 1))
    BY <2>3, <2>4, <2>5
  <2> QED BY <2>5, <2>6, <2>7 DEF Rising
<1> HIDE DEF S
<1>3. \A j \in Nat : j \in S
  BY <1>1, <1>2, Facts!SetInduction
<1> QED BY <1>3 DEF S

\* The sizes of things are numbers.
LEMMA SizesType ==
  ASSUME NEW things, SizedSeq(things)
  PROVE  Sizes(things) \in Seq(Nat) /\ Len(Sizes(things)) = Len(things) /\ Len(things) \in Nat
         /\ DOMAIN things = 1 .. Len(things)
<1>1. things \in Seq(Range(things)) /\ DOMAIN things = 1 .. Len(things) /\ Len(things) \in Nat
  BY DEF SizedSeq
<1>2. Sizes(things) = [i \in 1 .. Len(things) |-> things[i].size]
  BY <1>1 DEF Sizes
<1>3. \A i \in 1 .. Len(things) : things[i].size \in Nat
  BY <1>1 DEF SizedSeq
<1>4. Sizes(things) \in Seq(Nat) /\ Len(Sizes(things)) = Len(things)
  BY <1>1, <1>2, <1>3
<1> QED BY <1>1, <1>4

\* A sequence of fields as a form may have.
FramedSeq(f) == SizedSeq(f) /\ \A n \in DOMAIN f : f[n].frame \in Nat

\* So are the lengths of fields with their frames.
LEMMA WireType ==
  ASSUME NEW f, FramedSeq(f)
  PROVE  WireSizes(f) \in Seq(Nat) /\ Len(WireSizes(f)) = Len(f)
<1>1. DOMAIN f = 1 .. Len(f) /\ Len(f) \in Nat
  BY SizesType DEF FramedSeq
<1>2. \A i \in 1 .. Len(f) : f[i].size + f[i].frame \in Nat
  BY <1>1 DEF FramedSeq, SizedSeq
<1> QED BY <1>1, <1>2 DEF WireSizes

-----------------------------------------------------------------------------
(* The answer.                                                             *)

\* What is not larger is not longer when it is encoded.
LEMMA EncodedGrows ==
  ASSUME NEW a \in Nat, NEW b \in Nat, a <= b
  PROVE  Encoded(a) <= Encoded(b)
<1>1. (a + 2) \div 3 <= (b + 2) \div 3 /\ (a + 2) \div 3 \in Nat /\ (b + 2) \div 3 \in Nat
  OBVIOUS
<1> DEFINE x == (a + 2) \div 3
           y == (b + 2) \div 3
<1>2. x <= y /\ x \in Nat /\ y \in Nat
  BY <1>1
<1> HIDE DEF x, y
<1>3. 4 * x <= 4 * y
  BY <1>2
<1> QED BY <1>3 DEF Encoded, x, y

\* The checks of response_json, image after image, say that the answer fits: the
\* limits on the encoded form and on the totals on the way refuse nothing else.
LEMMA AcceptedFits ==
  ASSUME NEW images, SizedSeq(images), Expected(params) \in 1 .. 4, Sum(EncodedSizes(images)) <= MaxResponse
  PROVE  Accepted(images, Expected(params)) <=> Fits(images)
<1> DEFINE q == Sizes(images)
           n == Len(images)
<1>1. q \in Seq(Nat) /\ Len(q) = n /\ n \in Nat /\ DOMAIN images = 1 .. n
  BY SizesType
<1>2. SubSeq(q, 1, n) = q
  BY <1>1
<1>3. \A i \in 1 .. n : images[i].size \in Nat
  BY <1>1 DEF SizedSeq
<1>4. MaxImage \in Nat /\ MaxTotal \in Nat
  BY ImageAssumption
<1>5. \A i \in 1 .. n : images[i].size <= MaxImage => Encoded(images[i].size) <= EncodedLimit
  BY <1>3, <1>4, EncodedGrows DEF EncodedLimit
<1>6. \A i \in 1 .. n : Sum(SubSeq(q, 1, i)) \in Nat /\ Sum(SubSeq(q, 1, i)) <= Sum(q)
  <2>1. n \in 0 .. Len(q)
    BY <1>1
  <2>2. Rising(q, n)
    BY <1>1, <2>1, SumRises
  <2>3. \A i \in 1 .. n : i \in 0 .. n
    BY <1>1
  <2> QED BY <1>2, <2>2, <2>3 DEF Rising
<1>7. images # <<>> => n \in 1 .. n
  BY <1>1 DEF SizedSeq
<1> HIDE DEF q
<1>8. images # <<>> => ((\A i \in 1 .. n : Sum(SubSeq(q, 1, i)) <= MaxTotal) <=> Sum(q) <= MaxTotal)
  <2>1. CASE images = <<>>
    BY <2>1
  <2>2. CASE images # <<>>
    <3>1. Sum(SubSeq(q, 1, n)) = Sum(q) /\ n \in 1 .. n
      BY <1>2, <1>7, <2>2
    <3>2. Sum(q) \in Nat
      BY <1>6, <3>1
    <3> QED BY <1>4, <1>6, <3>1, <3>2
  <2> QED BY <2>1, <2>2
<1>9. n = Expected(params) => n <= 4
  BY <1>1
<1> QED BY <1>1, <1>5, <1>8, <1>9 DEF Accepted, Fits, q

\* What was asked for is known once the request is sent, the id that is kept is that
\* of the last attempt while a recovery is under way, and the answer is faithful.
AnswerInv ==
  /\ stage \in {"calling", "recovering"} => Expected(params) \in 1 .. 4
  /\ stage = "recovering" => heard.status # 200 /\ heard.id = failed_id
  /\ AnswerFaithful

\* Checked parameters ask for one to four images.
LEMMA SoundExpects == ASSUME NEW p, Sound(p) PROVE Expected(p) \in 1 .. 4
  BY DEF Sound, Valid, Expected

\* It is kept by whatever the handler does.
LEMMA AnswerHandle ==
  ASSUME AnswerInv, RequestInv, Handle
  PROVE  AnswerInv'
<1> USE DEF AnswerInv, Done, Refuse, Dispatch
<1>1. CASE Generate
  <2>1. CASE GenerateStatus(request) = 200
    <3>1. Sound(request.params)
      BY <2>1 DEF GenerateStatus
    <3> QED BY <1>1, <2>1, <3>1, SoundExpects DEF Generate, AnswerFaithful, Expected
  <2>2. CASE GenerateStatus(request) # 200
    BY <1>1, <2>2 DEF Generate, AnswerFaithful, RequestInv, ReadInv
  <2> QED BY <2>1, <2>2
<1>2. CASE ReadField
  <2>1. stage = "reading" /\ attempts' = attempts /\ stage' \in {"reading", "done"}
    BY <1>2 DEF ReadField
  <2> QED BY <2>1 DEF AnswerFaithful, RequestInv, ReadInv
<1>3. CASE EndOfFields
  <2>1. CASE stage' = "calling"
    <3>1. Sound(params) /\ params' = params
      BY <1>3, <2>1 DEF EndOfFields
    <3> QED BY <2>1, <3>1, SoundExpects DEF AnswerFaithful, Expected
  <2>2. CASE stage' # "calling"
    BY <1>3, <2>2 DEF EndOfFields, AnswerFaithful, RequestInv, ReadInv
  <2> QED BY <2>1, <2>2
<1>4. CASE Recover
  BY <1>4 DEF Recover, AnswerFaithful, Expected
<1>5. CASE RecoverFails
  BY <1>5 DEF RecoverFails, AnswerFaithful
<1>6. ASSUME NEW status \in Statuses, NEW id \in GivenIds, NEW signedIn \in BOOLEAN,
             NEW charge \in {0, 1}, AttemptFails(status, id, signedIn, charge)
      PROVE  AnswerInv'
  <2>1. status # 200
    BY DEF Statuses, BeforeWork, Timeout, NoStatus
  <2>2. /\ heard'.status = status /\ heard'.id = id /\ failed_id' = id
        /\ stage = "calling" /\ params' = params
        /\ stage' = "recovering" \/ (stage' = "done" /\ reply' = Failure(status, id))
    BY <1>6 DEF AttemptFails, Unheard
  <2> QED BY <2>1, <2>2 DEF AnswerFaithful, Expected
<1>7. ASSUME NEW images \in Answers, NEW id \in GivenIds, AttemptSucceeds(images, id)
      PROVE  AnswerInv'
  <2>1. /\ stage = "calling" /\ params' = params /\ stage' = "done"
        /\ heard' = [status |-> 200, images |-> images, id |-> id]
        /\ Sum(EncodedSizes(images)) <= MaxResponse
        /\ reply' = IF Accepted(images, Expected(params)) THEN [status |-> 200, images |-> images, id |-> id]
                    ELSE Refusal(502)
    BY <1>7 DEF AttemptSucceeds
  <2>2. Expected(params) \in 1 .. 4 /\ SizedSeq(images)
    BY <2>1, ImageAssumption
  <2>3. Accepted(images, Expected(params)) <=> Fits(images)
    BY <2>1, <2>2, AcceptedFits
  <2>4. Fits(images)' <=> Fits(images)
    BY <2>1 DEF Fits, Expected
  <2>5. heard'.status = 200 /\ heard'.images = images /\ heard'.id = id
    BY <2>1
  <2>6. AnswerFaithful'
    BY <2>1, <2>3, <2>4, <2>5 DEF AnswerFaithful, Fits, Expected
  <2> QED BY <2>1, <2>6
<1> QED BY <1>1, <1>2, <1>3, <1>4, <1>5, <1>6, <1>7 DEF Handle

-----------------------------------------------------------------------------
(* The fields of an edit.                                                  *)

\* One more field, one more place if it is an image.
LEMMA PlacesStep ==
  ASSUME NEW f, NEW k \in Nat
  PROVE  PlacesUpTo(f, k + 1) = IF IsImage(f[k + 1]) THEN Append(PlacesUpTo(f, k), k + 1) ELSE PlacesUpTo(f, k)
<1> DEFINE one(n) == IF IsImage(f[n]) THEN <<n>> ELSE <<>>
           g == [n \in 1 .. k |-> one(n)]
           h == [n \in 1 .. k + 1 |-> one(n)]
<1>1. \A ss : FlattenSeq(ss) = Facts!FlattenSeq(ss)
  BY Zenon DEF FlattenSeq, Facts!FlattenSeq
<1>2. Facts!OneMore(g, h, k) /\ h[k + 1] = one(k + 1)
  BY DEF Facts!OneMore
<1>3. <<>> \o one(k + 1) = one(k + 1)
  OBVIOUS
<1>4. PlacesUpTo(f, k) = FlattenSeq(g) /\ PlacesUpTo(f, k + 1) = FlattenSeq(h)
  BY DEF PlacesUpTo
<1> DEFINE e == one(k + 1)
<1>5. g \in Seq(Seq(Nat)) /\ e \in Seq(Nat)
  <2>1. \A n \in 1 .. k + 1 : one(n) \in Seq(Nat)
    OBVIOUS
  <2> QED BY <2>1
<1>6. e = IF IsImage(f[k + 1]) THEN <<k + 1>> ELSE <<>>
  OBVIOUS
<1> HIDE DEF g, h, e
<1>7. Facts!FlattenSeq(h) = Facts!FlattenSeq(g) \o h[k + 1]
  BY <1>2, <1>3, Facts!FlattenOneMore DEF e
<1>8. FlattenSeq(g) \in Seq(Nat)
  BY <1>1, <1>5, Facts!FlattenType
<1>9. FlattenSeq(h) = FlattenSeq(g) \o e
  BY <1>1, <1>2, <1>7 DEF e
<1>10. CASE IsImage(f[k + 1])
  <2>1. e = <<k + 1>>
    BY <1>6, <1>10
  <2> QED BY <1>4, <1>8, <1>9, <1>10, <2>1
<1>11. CASE ~IsImage(f[k + 1])
  <2>1. e = <<>>
    BY <1>6, <1>11
  <2> QED BY <1>4, <1>8, <1>9, <1>11, <2>1
<1> QED BY <1>10, <1>11

\* There are no places among no fields, and later fields take none away.
LEMMA PlacesGrow ==
  ASSUME NEW f, NEW k \in Nat
  PROVE  /\ PlacesUpTo(f, 0) = <<>>
         /\ PlacesUpTo(f, k) \in Seq(Nat)
         /\ \A i \in 0 .. k : Len(PlacesUpTo(f, i)) \in Nat /\ Len(PlacesUpTo(f, i)) <= Len(PlacesUpTo(f, k))
<1> DEFINE S == {j \in Nat : PlacesUpTo(f, j) \in Seq(Nat) /\
                   \A i \in 0 .. j : Len(PlacesUpTo(f, i)) \in Nat /\ Len(PlacesUpTo(f, i)) <= Len(PlacesUpTo(f, j))}
<1>1. PlacesUpTo(f, 0) = <<>>
  <2>1. \A ss : FlattenSeq(ss) = Facts!FlattenSeq(ss)
    BY Zenon DEF FlattenSeq, Facts!FlattenSeq
  <2>2. [n \in 1 .. 0 |-> IF IsImage(f[n]) THEN <<n>> ELSE <<>>] = <<>>
    OBVIOUS
  <2>3. FlattenSeq(<<>>) = <<>>
    BY <2>1, Facts!FlattenEmpty
  <2> QED BY <2>2, <2>3 DEF PlacesUpTo
<1>2. 0 \in S
  <2>1. \A i \in 0 .. 0 : i = 0
    OBVIOUS
  <2>2. Len(<<>>) = 0 /\ <<>> \in Seq(Nat)
    OBVIOUS
  <2> DEFINE p == PlacesUpTo(f, 0)
  <2>3. p \in Seq(Nat) /\ Len(p) = 0
    BY <1>1, <2>2
  <2>4. \A i \in 0 .. 0 : PlacesUpTo(f, i) = p
    BY <2>1
  <2> HIDE DEF p
  <2>5. \A i \in 0 .. 0 : Len(PlacesUpTo(f, i)) \in Nat /\ Len(PlacesUpTo(f, i)) <= Len(p)
    BY <2>3, <2>4
  <2> QED BY <2>3, <2>5 DEF p
<1>3. ASSUME NEW j \in Nat, j \in S PROVE j + 1 \in S
  <2> DEFINE p == PlacesUpTo(f, j)
             r == PlacesUpTo(f, j + 1)
  <2>1. p \in Seq(Nat) /\ \A i \in 0 .. j : Len(PlacesUpTo(f, i)) \in Nat /\ Len(PlacesUpTo(f, i)) <= Len(p)
    BY <1>3
  <2>2. r = IF IsImage(f[j + 1]) THEN Append(p, j + 1) ELSE p
    BY PlacesStep
  <2>3. r \in Seq(Nat) /\ Len(p) <= Len(r) /\ Len(r) \in Nat /\ Len(p) \in Nat
    <3>1. p \in Seq(Nat)
      BY <2>1
    <3> HIDE DEF p, r
    <3> QED BY <2>2, <3>1
  <2>4. \A i \in 0 .. j + 1 : i \in 0 .. j \/ i = j + 1
    OBVIOUS
  <2>5. \A i \in 0 .. j + 1 : Len(PlacesUpTo(f, i)) \in Nat /\ Len(PlacesUpTo(f, i)) <= Len(r)
    <3>1. TAKE i \in 0 .. j + 1
    <3>2. CASE i = j + 1
      BY <2>3, <3>2
    <3>3. CASE i \in 0 .. j
      BY <2>1, <2>3, <3>3
    <3> QED BY <2>4, <3>2, <3>3
  <2> QED BY <2>3, <2>5
<1> HIDE DEF S
<1>4. \A j \in Nat : j \in S
  BY <1>2, <1>3, Facts!SetInduction
<1> QED BY <1>1, <1>4 DEF S

\* What edit knows when it has read the first k fields: the images and parameters
\* among them, and that nothing was wrong with any of them.
FieldsRead(f, k) ==
  /\ k \in 0 .. Len(f)
  /\ uploads = PlacesUpTo(f, k) /\ Len(uploads) <= MaxReferences
  /\ params = [name \in DOMAIN params |-> params[name]]
  /\ DOMAIN params = {f[n].name : n \in Texts(f) \cap (1 .. k)}
  /\ \A n \in Texts(f) \cap (1 .. k) : params[f[n].name] = f[n].value
  /\ \A m, n \in Texts(f) \cap (1 .. k) : f[m].name = f[n].name => m = n
  /\ \A n \in 1 .. k : f[n].readable /\ f[n].size <= SizeLimit(f[n])
  /\ SizeUpTo(f, k) <= MaxBody

\* The parameters among the fields of a form, as Proper sees them.
GivenParams(f) ==
  [name \in {f[n].name : n \in Texts(f)} |-> f[CHOOSE n \in Texts(f) : f[n].name = name].value]

\* What a form says of its parameters, when no name comes twice.
LEMMA GivenIs ==
  ASSUME NEW f, \A m, n \in Texts(f) : f[m].name = f[n].name => m = n
  PROVE  \A n \in Texts(f) : GivenParams(f)[f[n].name] = f[n].value
<1>1. TAKE n \in Texts(f)
<1> DEFINE c == CHOOSE m \in Texts(f) : f[m].name = f[n].name
<1>2. c \in Texts(f) /\ f[c].name = f[n].name
  OBVIOUS
<1> HIDE DEF c
<1>3. c = n
  BY <1>2
<1>4. GivenParams(f)[f[n].name] = f[c].value
  BY DEF GivenParams, c
<1> QED BY <1>3, <1>4

\* Nothing has been read of a form.
LEMMA FieldsUnread ==
  ASSUME NEW f, FramedSeq(f), uploads = <<>>, params = NoParams
  PROVE  FieldsRead(f, 0)
<1>1. Len(f) \in Nat /\ WireSizes(f) \in Seq(Nat)
  BY SizesType, WireType DEF FramedSeq
<1>2. PlacesUpTo(f, 0) = <<>>
  BY PlacesGrow
<1>3. SizeUpTo(f, 0) = 0
  <2>1. SubSeq(WireSizes(f), 1, 0) = <<>>
    BY <1>1
  <2> QED BY <2>1, SumEmpty DEF SizeUpTo
<1>4. MaxReferences \in Nat /\ MaxBody \in Nat
  BY ImageAssumption
<1>5. params = [name \in DOMAIN params |-> params[name]] /\ DOMAIN params = {}
  BY DEF NoParams
<1>6. 1 .. 0 = {} /\ 0 \in 0 .. Len(f) /\ Len(<<>>) = 0
  BY <1>1
<1> QED BY <1>2, <1>3, <1>4, <1>5, <1>6 DEF FieldsRead

\* What the totals of a form say of its first fields.
LEMMA FormTotals ==
  ASSUME NEW f, FramedSeq(f), NEW k \in 0 .. Len(f)
  PROVE  /\ SizeUpTo(f, k) \in Nat /\ SizeUpTo(f, Len(f)) \in Nat /\ SizeUpTo(f, k) <= SizeUpTo(f, Len(f))
         /\ Len(PlacesUpTo(f, k)) \in Nat /\ Len(Places(f)) \in Nat /\ Len(PlacesUpTo(f, k)) <= Len(Places(f))
<1> DEFINE n == Len(f)
<1>1. WireSizes(f) \in Seq(Nat) /\ Len(WireSizes(f)) = n /\ n \in Nat
  BY SizesType, WireType DEF FramedSeq
<1>2. n \in 0 .. Len(WireSizes(f)) /\ n \in 0 .. n
  BY <1>1
<1>3. Rising(WireSizes(f), n)
  BY <1>1, <1>2, SumRises
<1>4. \A i \in 0 .. n : Len(PlacesUpTo(f, i)) \in Nat /\ Len(PlacesUpTo(f, i)) <= Len(PlacesUpTo(f, n))
  BY <1>1, PlacesGrow
<1> QED BY <1>2, <1>3, <1>4 DEF Rising, SizeUpTo, Places

\* A field that edit refuses makes the form improper, whatever follows it.
LEMMA RefusedField ==
  ASSUME NEW f, FramedSeq(f), NEW k \in Nat, k < Len(f), FieldsRead(f, k),
         FieldStatus(f, k + 1) # 200, Proper(f)
  PROVE  FALSE
<1> DEFINE n == k + 1
           p == GivenParams(f)
<1>1. n \in 1 .. Len(f) /\ n \in 0 .. Len(f) /\ DOMAIN f = 1 .. Len(f) /\ Len(f) \in Nat
  BY SizesType DEF FramedSeq
<1>2. f[n].readable /\ f[n].size <= SizeLimit(f[n]) /\ f[n].size \in Nat
  BY <1>1 DEF Proper, SizeLimit, SizedSeq, FramedSeq
<1>3. MaxImage \in Nat /\ MaxText \in Nat /\ MaxBody \in Nat /\ MaxReferences \in Nat
  BY ImageAssumption
<1>4. SizeUpTo(f, n) <= MaxBody
  <2>1. SizeUpTo(f, n) \in Nat /\ SizeUpTo(f, Len(f)) \in Nat /\ SizeUpTo(f, n) <= SizeUpTo(f, Len(f))
    BY <1>1, FormTotals
  <2>2. SizeUpTo(f, Len(f)) <= MaxBody
    BY DEF Proper
  <2> QED BY <1>3, <2>1, <2>2
<1>5. \A m, o \in Texts(f) : f[m].name = f[o].name => m = o
  BY DEF Proper
<1>6. Sound(p)
  BY DEF Proper, GivenParams
<1>7. DOMAIN p = {f[m].name : m \in Texts(f)}
  BY DEF GivenParams
<1>8. CASE IsImage(f[n])
  <2>1. Full(Len(uploads)) 
    <3>1. ~(f[n].size > SizeLimit(f[n])) /\ ~(SizeUpTo(f, n) > MaxBody)
      BY <1>1, <1>2, <1>3, <1>4, FormTotals DEF SizeLimit
    <3>2. f[n].name # "n"
      BY <1>8 DEF IsImage
    <3> QED BY <1>2, <1>8, <3>1, <3>2 DEF FieldStatus
  <2>2. PlacesUpTo(f, n) = Append(PlacesUpTo(f, k), n) /\ PlacesUpTo(f, k) \in Seq(Nat)
    BY <1>8, PlacesStep, PlacesGrow
  <2>3. Len(PlacesUpTo(f, n)) = Len(PlacesUpTo(f, k)) + 1
    BY <2>2
  <2>4. Len(PlacesUpTo(f, n)) <= Len(Places(f)) /\ Len(Places(f)) <= MaxReferences /\ Len(Places(f)) \in Nat
    BY <1>1, FormTotals DEF Proper
  <2>5. Len(uploads) = Len(PlacesUpTo(f, k)) /\ Len(PlacesUpTo(f, k)) \in Nat
    BY <2>2 DEF FieldsRead
  <2>6. Len(uploads) >= MaxReferences
    BY <2>1 DEF Full
  <2> QED BY <1>3, <2>3, <2>4, <2>5, <2>6
<1>9. CASE ~IsImage(f[n])
  <2>1. n \in Texts(f)
    BY <1>1, <1>9 DEF Texts
  <2>2. f[n].name \in Names
    BY <1>6, <1>7, <2>1 DEF Sound, Typed
  <2>3. f[n].name \notin DOMAIN params
    <3>1. SUFFICES ASSUME NEW m \in Texts(f) \cap (1 .. k), f[m].name = f[n].name
                   PROVE  FALSE
      BY DEF FieldsRead
    <3>2. m = n
      BY <1>5, <2>1, <3>1
    <3> QED BY <3>1, <3>2
  <2>4. f[n].name = "n" => f[n].value \in Nat
    <3>1. p[f[n].name] = f[n].value
      BY <1>5, <2>1, GivenIs
    <3>2. f[n].name \in DOMAIN p
      BY <1>7, <2>1
    <3> HIDE DEF p
    <3> QED BY <1>6, <3>1, <3>2 DEF Sound, Typed
  <2>5. ~(f[n].size > SizeLimit(f[n])) /\ ~(SizeUpTo(f, n) > MaxBody)
    BY <1>1, <1>2, <1>3, <1>4, FormTotals DEF SizeLimit
  <2> QED BY <1>2, <1>9, <2>2, <2>3, <2>4, <2>5 DEF FieldStatus
<1> QED BY <1>8, <1>9

\* A field that edit takes is right, and is remembered.
LEMMA TakenField ==
  ASSUME NEW f, FramedSeq(f), NEW k \in Nat, k < Len(f), FieldsRead(f, k), FieldStatus(f, k + 1) = 200,
         uploads' = IF IsImage(f[k + 1]) THEN Append(uploads, k + 1) ELSE uploads,
         params' = IF IsImage(f[k + 1]) THEN params ELSE With(params, f[k + 1].name, f[k + 1].value)
  PROVE  FieldsRead(f, k + 1)'
<1> DEFINE n == k + 1
           before == Texts(f) \cap (1 .. k)
           now == Texts(f) \cap (1 .. n)
<1>1. n \in 1 .. Len(f) /\ n \in 0 .. Len(f) /\ DOMAIN f = 1 .. Len(f) /\ Len(f) \in Nat /\ f[n].size \in Nat
  BY SizesType DEF SizedSeq, FramedSeq
<1>2. MaxImage \in Nat /\ MaxText \in Nat /\ MaxBody \in Nat /\ MaxReferences \in Nat
  BY ImageAssumption
<1>3. /\ f[n].readable /\ ~(f[n].size > SizeLimit(f[n])) /\ ~(SizeUpTo(f, n) > MaxBody)
      /\ IsImage(f[n]) => ~Full(Len(uploads))
      /\ ~IsImage(f[n]) => f[n].name \notin DOMAIN params
  BY DEF FieldStatus
<1>4. f[n].size <= SizeLimit(f[n]) /\ SizeUpTo(f, n) <= MaxBody
  BY <1>1, <1>2, <1>3, FormTotals DEF SizeLimit
<1>5. \A m \in 1 .. n : m \in 1 .. k \/ m = n
  OBVIOUS
<1>6. \A m \in 1 .. n : f[m].readable /\ f[m].size <= SizeLimit(f[m])
  BY <1>3, <1>4, <1>5 DEF FieldsRead
<1>7. uploads = PlacesUpTo(f, k) /\ Len(uploads) <= MaxReferences /\ uploads \in Seq(Nat)
  BY PlacesGrow DEF FieldsRead
<1>8. PlacesUpTo(f, n) = IF IsImage(f[n]) THEN Append(PlacesUpTo(f, k), n) ELSE PlacesUpTo(f, k)
  BY PlacesStep
<1>9. uploads' = PlacesUpTo(f, n)
  BY <1>7, <1>8
<1>10. Len(uploads') <= MaxReferences
  <2>1. CASE IsImage(f[n])
    <3>1. Len(uploads') = Len(uploads) + 1 /\ Len(uploads) \in Nat
      BY <1>7, <2>1
    <3>2. Len(uploads) < MaxReferences
      BY <1>2, <1>3, <2>1, <3>1 DEF Full
    <3> QED BY <1>2, <3>1, <3>2
  <2>2. CASE ~IsImage(f[n])
    BY <1>7, <2>2
  <2> QED BY <2>1, <2>2
<1>11. /\ params = [name \in DOMAIN params |-> params[name]]
       /\ DOMAIN params = {f[m].name : m \in before}
       /\ \A m \in before : params[f[m].name] = f[m].value
       /\ \A m, o \in before : f[m].name = f[o].name => m = o
  BY DEF FieldsRead
<1> HIDE DEF before, now
<1>12. /\ params' = [name \in DOMAIN params' |-> params'[name]]
       /\ DOMAIN params' = {f[m].name : m \in now}
       /\ \A m \in now : params'[f[m].name] = f[m].value
       /\ \A m, o \in now : f[m].name = f[o].name => m = o
  <2>1. CASE IsImage(f[n])
    <3>1. now = before
      BY <1>5, <2>1 DEF now, before, Texts
    <3> QED BY <1>11, <2>1, <3>1
  <2>2. CASE ~IsImage(f[n])
    <3>1. now = before \cup {n}
      BY <1>1, <1>5, <2>2 DEF now, before, Texts
    <3>2. \A m \in before : f[m].name # f[n].name
      BY <1>3, <1>11, <2>2
    <3>3. params' = [name \in DOMAIN params \cup {f[n].name} |->
                       IF name = f[n].name THEN f[n].value ELSE params[name]]
      BY <2>2 DEF With
    <3>4. DOMAIN params' = DOMAIN params \cup {f[n].name} /\ params' = [name \in DOMAIN params' |-> params'[name]]
      BY <3>3
    <3>5. DOMAIN params' = {f[m].name : m \in now}
      <4>1. {f[m].name : m \in now} = {f[m].name : m \in before} \cup {f[n].name}
        BY <3>1
      <4> QED BY <1>11, <3>4, <4>1
    <3>6. \A m \in now : params'[f[m].name] = f[m].value
      <4>1. TAKE m \in now
      <4>2. CASE m = n
        BY <3>3, <4>2
      <4>3. CASE m \in before
        <5>1. f[m].name \in DOMAIN params /\ f[m].name # f[n].name
          BY <1>11, <3>2, <4>3
        <5> QED BY <1>11, <3>3, <4>3, <5>1
      <4> QED BY <3>1, <4>2, <4>3
    <3>7. \A m, o \in now : f[m].name = f[o].name => m = o
      BY <1>11, <3>1, <3>2
    <3> QED BY <3>4, <3>5, <3>6, <3>7
  <2> QED BY <2>1, <2>2
<1> QED BY <1>1, <1>4, <1>6, <1>9, <1>10, <1>12 DEF FieldsRead, now

\* When all fields have been read, the form is proper exactly if it goes on to the
\* backend, and it goes with everything it holds.
LEMMA WholeForm ==
  ASSUME NEW f, FramedSeq(f), FieldsRead(f, Len(f))
  PROVE  /\ Proper(f) <=> (uploads # <<>> /\ Sound(params))
         /\ uploads = Places(f)
         /\ {<<name, params[name]>> : name \in DOMAIN params} = {<<f[n].name, f[n].value>> : n \in Texts(f)}
<1> DEFINE n == Len(f)
<1>1. n \in Nat /\ n \in 0 .. n /\ DOMAIN f = 1 .. n
  BY SizesType DEF FramedSeq
<1>2. Texts(f) \cap (1 .. n) = Texts(f)
  BY <1>1 DEF Texts
<1>3. /\ uploads = Places(f) /\ Len(uploads) <= MaxReferences
      /\ params = [name \in DOMAIN params |-> params[name]]
      /\ DOMAIN params = {f[m].name : m \in Texts(f)}
      /\ \A m \in Texts(f) : params[f[m].name] = f[m].value
      /\ \A m, o \in Texts(f) : f[m].name = f[o].name => m = o
      /\ \A m \in DOMAIN f : f[m].readable /\ f[m].size <= SizeLimit(f[m])
      /\ SizeUpTo(f, n) <= MaxBody
  BY <1>1, <1>2 DEF FieldsRead, Places
<1>4. params = GivenParams(f)
  <2>1. DOMAIN GivenParams(f) = DOMAIN params /\ GivenParams(f) = [name \in DOMAIN params |-> GivenParams(f)[name]]
    BY <1>3 DEF GivenParams
  <2>2. \A m \in Texts(f) : GivenParams(f)[f[m].name] = f[m].value
    BY <1>3, GivenIs
  <2>3. \A name \in DOMAIN params : GivenParams(f)[name] = params[name]
    BY <1>3, <2>2
  <2> QED BY <1>3, <2>1, <2>3
<1>5. Len(Places(f)) \in 1 .. MaxReferences <=> uploads # <<>>
  <2>1. uploads \in Seq(Nat)
    BY <1>1, <1>3, PlacesGrow DEF Places
  <2>2. Len(uploads) \in Nat /\ (Len(uploads) = 0 <=> uploads = <<>>)
    BY <2>1
  <2>3. MaxReferences \in Nat
    BY ImageAssumption
  <2> QED BY <1>3, <2>2, <2>3
<1>6. Proper(f) <=> (uploads # <<>> /\ Sound(GivenParams(f)))
  BY <1>3, <1>5 DEF Proper, GivenParams, SizeLimit
<1>7. {<<name, params[name]>> : name \in DOMAIN params} = {<<f[m].name, f[m].value>> : m \in Texts(f)}
  <2> DEFINE T == Texts(f)
  <2> HIDE DEF T
  <2>1. DOMAIN params = {f[m].name : m \in T} /\ \A m \in T : params[f[m].name] = f[m].value
    BY <1>3 DEF T
  <2>2. ASSUME NEW name \in DOMAIN params PROVE <<name, params[name]>> \in {<<f[m].name, f[m].value>> : m \in T}
    <3>1. PICK m \in T : name = f[m].name
      BY <2>1
    <3> QED BY <2>1, <3>1
  <2>3. ASSUME NEW m \in T PROVE <<f[m].name, f[m].value>> \in {<<name, params[name]>> : name \in DOMAIN params}
    BY <2>1
  <2> QED BY <2>2, <2>3 DEF T
<1> QED BY <1>3, <1>4, <1>6, <1>7

\* While a form is read, what edit knows is right of the fields so far, and what
\* becomes of it is what the property says.
EditInv ==
  /\ stage = "idle" => read = 0 /\ uploads = <<>> /\ params = NoParams
  /\ stage = "reading" /\ request.kind = "edit" =>
       IF request.typed THEN FieldsRead(request.fields, read) ELSE TRUE
  /\ UploadsArrive

\* A request arrives.
LEMMA EditArrive ==
  ASSUME EditInv, RequestInv, NEW r \in Requests, NEW known, Arrive(r, known)
  PROVE  EditInv'
<1>1. /\ stage = "idle" /\ read' = read /\ uploads' = uploads /\ params' = params /\ attempts' = attempts
      /\ request' = r
      /\ stage' = "reading" \/ (stage' = "done" /\ reply'.status = 401)
  BY DEF Arrive, Done, Refusal, NoReply
<1>2. read' = 0 /\ uploads' = <<>> /\ params' = NoParams /\ attempts' = 0
  BY <1>1 DEF EditInv, RequestInv, ReadInv
<1>3. r.kind = "edit" => FieldsRead(r.fields, 0)'
  <2>1. SUFFICES ASSUME r.kind = "edit" PROVE FieldsRead(r.fields, 0)'
    OBVIOUS
  <2>2. FramedSeq(r.fields)
    BY <2>1, ImageAssumption DEF FramedSeq
  <2>3. FieldsRead(r.fields, 0)
    BY <1>1, <1>2, <2>2, FieldsUnread
  <2> QED BY <1>1, <2>3 DEF FieldsRead
<1>4. UploadsArrive'
  BY <1>1, <1>2 DEF UploadsArrive
<1> QED BY <1>1, <1>2, <1>3, <1>4 DEF EditInv, FieldsRead

\* It is kept by whatever the handler does.
LEMMA EditHandle ==
  ASSUME EditInv, RequestInv, Handle
  PROVE  EditInv'
<1>0. stage # "idle" /\ request' = request
  BY DEF Handle, Generate, ReadField, EndOfFields, Recover, RecoverFails, AttemptFails, AttemptSucceeds, Refuse, Dispatch, Done
<1>1. CASE Generate
  <2>1. request.kind # "edit" /\ stage' # "idle"
    BY <1>1 DEF Generate, Dispatch, Refuse, Done
  <2> QED BY <1>0, <2>1 DEF EditInv, UploadsArrive
<1>2. CASE ReadField
  <2> DEFINE f == request.fields
             n == read + 1
  <2>1. /\ stage = "reading" /\ request.kind = "edit" /\ request.typed /\ read < Len(f)
        /\ FieldsRead(f, read) /\ FramedSeq(f) /\ attempts = 0
    BY <1>2, ImageAssumption DEF ReadField, EditInv, RequestInv, ReadInv, FramedSeq
  <2>2. read \in Nat /\ Len(f) \in Nat
    BY <2>1, SizesType DEF FieldsRead, FramedSeq
  <2>3. CASE FieldStatus(f, n) # 200
    <3>1. stage' = "done" /\ attempts' = 0
      BY <1>2, <2>1, <2>3 DEF ReadField, Refuse, Done
    <3>2. ~Proper(f)
      BY <2>1, <2>2, <2>3, RefusedField
    <3> QED BY <1>0, <3>1, <3>2 DEF EditInv, UploadsArrive
  <2>4. CASE FieldStatus(f, n) = 200
    <3>1. /\ read' = n /\ stage' = "reading" /\ attempts' = 0
          /\ uploads' = IF IsImage(f[n]) THEN Append(uploads, n) ELSE uploads
          /\ params' = IF IsImage(f[n]) THEN params ELSE With(params, f[n].name, f[n].value)
      BY <1>2, <2>1, <2>4 DEF ReadField
    <3>2. FieldsRead(request.fields, read)'
      <4>1. PICK k, g : k = read /\ g = f
        OBVIOUS
      <4>2. g = request'.fields /\ k + 1 = read'
        BY <1>0, <3>1, <4>1
      <4> HIDE DEF f
      <4>3. /\ FramedSeq(g) /\ k \in Nat /\ k < Len(g) /\ FieldsRead(g, k) /\ FieldStatus(g, k + 1) = 200
            /\ uploads' = IF IsImage(g[k + 1]) THEN Append(uploads, k + 1) ELSE uploads
            /\ params' = IF IsImage(g[k + 1]) THEN params ELSE With(params, g[k + 1].name, g[k + 1].value)
        BY <2>1, <2>2, <2>4, <3>1, <4>1
      <4>4. FieldsRead(g, k + 1)'
        BY <4>3, TakenField
      <4> QED BY <4>2, <4>4 DEF FieldsRead
    <3> QED BY <1>0, <3>1, <3>2 DEF EditInv, UploadsArrive
  <2> QED BY <2>3, <2>4
<1>3. CASE EndOfFields
  <2> DEFINE f == request.fields
  <2>1. stage = "reading" /\ request.kind = "edit" /\ attempts = 0 /\ FramedSeq(f)
    BY <1>3, ImageAssumption DEF EndOfFields, RequestInv, ReadInv, FramedSeq
  <2>2. CASE ~request.typed
    BY <1>0, <1>3, <2>1, <2>2 DEF EndOfFields, Refuse, Done, EditInv, UploadsArrive
  <2>3. CASE request.typed
    <3>1. FieldsRead(f, Len(f))
      BY <1>3, <2>1, <2>3 DEF EndOfFields, EditInv
    <3>2. /\ Proper(f) <=> (uploads # <<>> /\ Sound(params))
          /\ uploads = Places(f)
          /\ {<<name, params[name]>> : name \in DOMAIN params} = {<<f[n].name, f[n].value>> : n \in Texts(f)}
      BY <2>1, <3>1, WholeForm
    <3>3. CASE uploads # <<>> /\ Sound(params)
      <4>1. stage' = "calling" /\ params' = params /\ uploads' = uploads
        BY <1>3, <2>3, <3>3 DEF EndOfFields, Dispatch
      <4> QED BY <1>0, <3>2, <3>3, <4>1 DEF EditInv, UploadsArrive
    <3>4. CASE ~(uploads # <<>> /\ Sound(params))
      <4>1. stage' = "done" /\ attempts' = 0
        BY <1>3, <2>1, <3>4 DEF EndOfFields, Refuse, Done
      <4> QED BY <1>0, <3>2, <3>4, <4>1 DEF EditInv, UploadsArrive
    <3> QED BY <3>3, <3>4
  <2> QED BY <2>2, <2>3
<1>4. CASE ~(Generate \/ ReadField \/ EndOfFields)
  <2>1. /\ params' = params /\ uploads' = uploads /\ attempts' \in Nat /\ attempts' > 0 /\ attempts > 0
        /\ stage' \notin {"idle", "reading"}
    <3>1. /\ stage \in {"calling", "recovering"} /\ params' = params /\ uploads' = uploads
          /\ attempts' \in {attempts, attempts + 1} /\ stage' \in {"calling", "recovering", "done"}
      <4>1. CASE Recover \/ RecoverFails
        BY <4>1 DEF Recover, RecoverFails, Done
      <4>2. CASE ~(Recover \/ RecoverFails)
        BY <1>4, <4>2 DEF Handle, AttemptFails, AttemptSucceeds, Done
      <4> QED BY <4>1, <4>2
    <3> QED BY <3>1 DEF RequestInv, ReadInv
  <2> QED BY <1>0, <2>1 DEF EditInv, UploadsArrive
<1> QED BY <1>1, <1>2, <1>3, <1>4

\* What is known of a request's answer and of its form.
FaithInv == AnswerInv /\ EditInv

\* Both hold at the start.
LEMMA FaithInit == ImageInit => FaithInv
BY DEF ImageInit, FaithInv, AnswerInv, EditInv, AnswerFaithful, UploadsArrive, NoRequest

\* They are kept when a request arrives.
LEMMA FaithArrive ==
  ASSUME FaithInv, RequestInv, NEW r \in Requests, NEW known, Arrive(r, known)
  PROVE  FaithInv'
<1>1. attempts' = 0 /\ stage' \in {"reading", "done"}
  BY DEF Arrive, Done, RequestInv, ReadInv
<1>2. AnswerInv'
  BY <1>1 DEF AnswerInv, AnswerFaithful
<1> QED BY <1>2, EditArrive DEF FaithInv

\* They are kept when it is dropped, or nothing happens to it.
LEMMA FaithDrop ==
  ASSUME FaithInv, RequestInv, Drop \/ UNCHANGED image
  PROVE  FaithInv'
<1>1. CASE Drop
  <2>1. stage' = "dropped" /\ UNCHANGED <<request, read, params, uploads, attempts>>
    BY <1>1 DEF Drop
  <2> QED BY <2>1 DEF FaithInv, AnswerInv, EditInv, AnswerFaithful, UploadsArrive
<1>2. CASE UNCHANGED image
  BY <1>2 DEF image, FaithInv, AnswerInv, EditInv, AnswerFaithful, UploadsArrive, Fits, Expected, FieldsRead
<1> QED BY <1>1, <1>2

-----------------------------------------------------------------------------
(* The whole service.                                                      *)

\* Who waits in a queue of an instance without keys has come through a private
\* socket, or early; and whoever has been taken up has waited.
EntryInv ==
  /\ entry.by = Nobody => stage = "idle"
  /\ entry.by # Nobody =>
       entry.by \in Instances /\ (entry.private \/ Secrets(config[entry.by].keys) # {} \/ entry.early)

IInv == ListenInv /\ RequestInv /\ FaithInv /\ EntryInv /\ LetIn

\* The invariant of the whole holds at the start.
LEMMA InvInit == Init => IInv
BY ListenInvInit, RequestInvInit, FaithInit DEF Init, IInv, EntryInv, NoEntry, LetIn, ImageInit

\* A request that is under way has been let in, and stays as it came in.
LEMMA LetInStays ==
  ASSUME LetIn, EntryInv, RequestInv, Handle \/ Drop, UNCHANGED <<entry, config>>
  PROVE  LetIn' /\ EntryInv'
<1>1. stage \in {"reading", "calling", "recovering"}
  BY DEF Handle, Drop, Generate, ReadField, EndOfFields, Recover, RecoverFails, AttemptFails, AttemptSucceeds
<1>2. stage # "idle" /\ ~(attempts = 0 /\ reply.status = 401)
  BY <1>1 DEF RequestInv, ReadInv, NoReply
<1>3. LetIn'
  BY <1>1, <1>2 DEF LetIn
<1>4. EntryInv'
  BY <1>1 DEF EntryInv
<1>5. QED
  BY <1>3, <1>4

\* The end of an instance empties its queue, and nothing else does.
LEMMA QueuedStays ==
  ASSUME LetIn, EntryInv, RequestInv, NEW p, Queued(p), config' = config, UNCHANGED image \/ Drop
  PROVE  LetIn' /\ EntryInv'
<1>1. CASE UNCHANGED entry
  <2>1. CASE Drop
    BY <1>1, <2>1, LetInStays
  <2>2. CASE UNCHANGED image
    BY <1>1, <2>2 DEF image, LetIn, EntryInv
  <2> QED BY <2>1, <2>2
<1>2. CASE entry' = NoEntry /\ stage = "idle"
  <2>1. stage' = "idle"
    BY <1>2 DEF Drop, image
  <2> QED BY <1>2, <2>1 DEF LetIn, EntryInv, NoEntry
<1> QED BY <1>1, <1>2 DEF Queued

\* The invariant is kept by every step.
LEMMA InvNext == IInv /\ [Next]_vars => IInv'
<1> SUFFICES ASSUME IInv, [Next]_vars
             PROVE  IInv'
  OBVIOUS
<1> USE DEF IInv
<1>1. ASSUME NEW p \in Instances, NEW presented \in Presented, Connect(p, presented)
      PROVE  IInv'
  <2>1. ListenInv'
    BY <1>1 DEF Connect, listening, ListenInv, ListenType, RunsValidated, PortHeld, PathHeld, FileStops, Validated
  <2>2. RequestInv' /\ FaithInv'
    <3>1. RequestInv'
      BY <1>1 DEF Connect, image, RequestInv, BilledInv, ReadInv, Under
    <3> QED BY <1>1, <3>1, FaithDrop DEF Connect
  <2>3. /\ entry'.private = (path.owner = p /\ path.private) /\ entry'.by = p
        /\ entry'.early = (instance[p] = "tightening")
        /\ config' = config /\ entry.by = Nobody /\ UNCHANGED image
    BY <1>1 DEF Connect, listening, NoEntry
  <2>4. EntryInv'
    BY <1>1, <2>3, BoundGuarded, ListeningAssumption DEF Connect, EntryInv
  <2>5. LetIn'
    BY <2>3 DEF EntryInv, LetIn, image
  <2>6. QED
    BY <2>1, <2>2, <2>4, <2>5
<1>2. ASSUME NEW p \in Instances, NEW r \in Requests, Take(p, r)
      PROVE  IInv'
  <2>1. ListenInv'
    BY <1>2 DEF Take, listening, ListenInv, ListenType, RunsValidated, PortHeld, PathHeld, FileStops, Validated
  <2>2. Arrive(r, Authenticate(p, entry.key)) /\ entry.by = p /\ UNCHANGED <<entry, config>>
    BY <1>2 DEF Take, listening
  <2>3. RequestInv' /\ FaithInv'
    BY <2>2, RequestInvArrive, FaithArrive
  <2>4. EntryInv'
    BY <2>2, ListeningAssumption DEF EntryInv
  <2>5. LetIn'
    <3>1. CASE Authenticate(p, entry.key)
      BY <2>2, <2>4, <3>1, ListeningAssumption DEF Authenticate, LetIn, EntryInv
    <3>2. CASE ~Authenticate(p, entry.key)
      <4>1. attempts' = 0 /\ reply'.status = 401
        BY <2>2, <3>2 DEF Arrive, Done, Refusal, NoReply, RequestInv, ReadInv
      <4>2. QED
        BY <4>1 DEF LetIn
    <3>3. QED
      BY <3>1, <3>2
  <2>6. QED
    BY <2>1, <2>3, <2>4, <2>5
<1>3. ASSUME Serve \/ HangUp
      PROVE  IInv'
  <2>1. ListenInv'
    BY <1>3 DEF Serve, HangUp, listening, ListenInv, ListenType, RunsValidated, PortHeld, PathHeld, FileStops, Validated
  <2>2. RequestInv' /\ FaithInv'
    <3>1. Handle => FaithInv'
      BY AnswerHandle, EditHandle DEF FaithInv
    <3> QED BY <1>3, <3>1, RequestInvHandle, RequestInvDrop, FaithDrop DEF Serve, HangUp
  <2>3. LetIn' /\ EntryInv'
    BY <1>3, LetInStays DEF Serve, HangUp, listening
  <2>4. QED
    BY <2>1, <2>2, <2>3
<1>4. ASSUME NEW p \in Instances, Listen(p)
      PROVE  IInv'
  <2>1. ListenInv'
    BY <1>4, ListenInvAdvance DEF Listen
  <2>2. RequestInv' /\ FaithInv'
    <3>1. RequestInv'
      BY <1>4 DEF Listen, image, RequestInv, BilledInv, ReadInv, Under
    <3> QED BY <1>4, <3>1, FaithDrop DEF Listen
  <2>3. config' = config
    BY <1>4 DEF Listen, Advance, Start, Look, RemoveFile, BindUnix, Tighten, BindTcp, Announce
  <2>4. LetIn' /\ EntryInv'
    BY <1>4, <2>3, QueuedStays DEF Listen
  <2>5. QED
    BY <2>1, <2>2, <2>4
<1>5. ASSUME NEW p \in Instances, Kill(p)
      PROVE  IInv'
  <2>1. ListenInv'
    BY <1>5, ListenInvCrash DEF Kill
  <2>2. Drop \/ UNCHANGED image
    BY <1>5 DEF Kill
  <2>3. RequestInv' /\ FaithInv'
    <3>1. RequestInv'
      BY <2>2, RequestInvDrop DEF image, RequestInv, BilledInv, ReadInv, Under
    <3> QED BY <2>2, <3>1, FaithDrop
  <2>4. Queued(p) /\ config' = config
    BY <1>5 DEF Kill, Crash
  <2>5. LetIn' /\ EntryInv'
    BY <2>2, <2>4, QueuedStays
  <2>6. QED
    BY <2>1, <2>3, <2>5
<1>6. CASE UNCHANGED vars
  <2>1. FaithInv'
    BY <1>6, FaithDrop DEF vars
  <2>2. EntryInv' /\ LetIn'
    BY <1>6 DEF vars, listening, image, EntryInv, LetIn
  <2> QED BY <1>6, <2>1, <2>2 DEF vars, listening, image, ListenInv, ListenType, RunsValidated, PortHeld, PathHeld,
                                 FileStops, Validated, RequestInv, BilledInv, ReadInv, Under
<1>7. QED
  BY <1>1, <1>2, <1>3, <1>4, <1>5, <1>6 DEF Next

\* What the invariant says of a JSON body that has passed the checks.
LEMMA PassedIsWhole ==
  ASSUME RequestInv
  PROVE  WholeBodyRead
<1> SUFFICES ASSUME request.kind = "generate", attempts > 0
             PROVE  /\ request.body.size <= MaxBody
                    /\ request.body.document <= request.body.size
                    /\ request.body.rest = "space" \/ request.body.document = request.body.size
  BY DEF WholeBodyRead
<1>1. request \in Requests
  BY DEF RequestInv, ReadInv, NoRequest
<1>2. request.body.size \in Nat /\ request.body.document \in Nat /\ MaxBody \in Nat
  BY <1>1, ImageAssumption
<1>3. GenerateStatus(request) = 200
  BY DEF RequestInv, ReadInv
<1>4. DecodeStatus(request.body) = 200
  BY <1>3 DEF GenerateStatus
<1>5. ~(Decoded(request.body) > MaxBody) /\ Parses(request.body, Decoded(request.body))
  BY <1>4 DEF DecodeStatus
<1>6. Decoded(request.body) = request.body.size
  BY <1>2, <1>5 DEF Decoded, ReadLimit
<1>7. QED
  BY <1>2, <1>5, <1>6 DEF Parses

\* However attempts, recoveries, hang-ups and kills follow on each other, a request
\* is done and paid for once at most.
THEOREM BilledSafe == Spec => []BilledOnce
<1>1. IInv => BilledOnce
  BY DEF IInv, RequestInv, BilledInv, BilledOnce
<1>2. QED
  BY <1>1, InvInit, InvNext, PTL DEF Spec

\* Whoever gets in came through a private socket, or with a key, or into the queue
\* of an instance that had not set the mode of its socket yet, for any deployment
\* and however instances start and end.
THEOREM EntrySafe == Spec => []LetIn
<1>1. IInv => LetIn
  BY DEF IInv
<1>2. QED
  BY <1>1, InvInit, InvNext, PTL DEF Spec

\* For any limit and any body, what is sent stood in a body that was read to its
\* end and found within the limit.
THEOREM BodySafe == Spec => []WholeBodyRead
<1>1. IInv => WholeBodyRead
  BY PassedIsWhole DEF IInv
<1>2. QED
  BY <1>1, InvInit, InvNext, PTL DEF Spec

\* For any form and any limits, an edit is sent with everything it holds if it is
\* proper, and refused before anything is sent if not.
THEOREM UploadsSafe == Spec => []UploadsArrive
<1>1. IInv => UploadsArrive
  BY DEF IInv, FaithInv, EditInv
<1>2. QED
  BY <1>1, InvInit, InvNext, PTL DEF Spec

\* For any answers, limits, recoveries and failures, the client gets the images
\* that were made if they fit, and else the failure of the last attempt.
THEOREM AnswerSafe == Spec => []AnswerFaithful
<1>1. IInv => AnswerFaithful
  BY DEF IInv, FaithInv, AnswerInv
<1>2. QED
  BY <1>1, InvInit, InvNext, PTL DEF Spec

\* A real file that is at the path outlives any number of instances.
THEOREM FileSafe == Spec => FileKept
<1>1. IInv /\ [Next]_vars => [path.kind = "file" => path' = path]_vars
  <2> SUFFICES ASSUME IInv, Next, path.kind = "file"
               PROVE  path' = path
    BY DEF vars
  <2>1. path = RealFile /\ \A p \in Instances : instance[p] \notin {"removing", "tightening"}
    BY DEF IInv, ListenInv, FileStops
  <2>2. CASE \E p \in Instances : Listen(p)
    <3>1. PICK p \in Instances : Advance(p)
      BY <2>2 DEF Listen
    <3>2. ~RemoveFile(p) /\ ~Tighten(p)
      BY <2>1 DEF RemoveFile, Tighten, At
    <3>3. path # NoPath
      BY <2>1 DEF RealFile, NoPath
    <3>4. QED
      BY <3>1, <3>2, <3>3 DEF Advance, Start, Look, BindUnix, BindTcp, Announce
  <2>3. CASE \E p \in Instances : Kill(p)
    <3>1. PICK p \in Instances : Crash(p)
      BY <2>3 DEF Kill
    <3>2. path.owner # p
      BY <2>1, ListeningAssumption DEF RealFile
    <3>3. QED
      BY <3>1, <3>2 DEF Crash
  <2>4. CASE Serve \/ HangUp
    BY <2>4 DEF Serve, HangUp, listening
  <2>5. ASSUME NEW p \in Instances, NEW presented \in Presented, Connect(p, presented)
        PROVE  path' = path
    BY <2>5 DEF Connect, listening
  <2>6. ASSUME NEW p \in Instances, NEW r \in Requests, Take(p, r)
        PROVE  path' = path
    BY <2>6 DEF Take, listening
  <2>7. QED
    BY <2>2, <2>3, <2>4, <2>5, <2>6 DEF Next
<1>2. QED
  BY <1>1, InvInit, InvNext, PTL DEF Spec, FileKept
=============================================================================

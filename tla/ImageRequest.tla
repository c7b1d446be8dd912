----------------------------- MODULE ImageRequest -----------------------------
(***************************************************************************)
(* One request to the image endpoints, from the handler that reads it      *)
(* (image_api.rs, with decode_json of request_body.rs for a JSON body) to  *)
(* the attempts to have it done (images_client.rs, auth_recovery.rs) and   *)
(* the answer.  What is at stake: an image costs quota, so nothing may be  *)
(* sent again that may have been done, and limits apply at every boundary  *)
(* to sizes that are counted differently.                                  *)
(*                                                                         *)
(* Sizes are in a unit that tells the limits apart; text counts as 0       *)
(* unless it is too long.  A field also has a frame, the bytes around what *)
(* it holds: its delimiter and head lines, and the closing delimiter with  *)
(* the last.  It is readable if it is a raster image, or UTF-8.            *)
(* Parameters are a function from the names that are there to values; an n *)
(* that is no unsigned integer is -1.                                      *)
(***************************************************************************)
EXTENDS Integers, SequencesExt

CONSTANTS
  MaxBody,        \* MAX_REQUEST_BODY_BYTES
  MaxImage,       \* MAX_IMAGE_BYTES
  MaxTotal,       \* MAX_TOTAL_IMAGE_BYTES
  MaxResponse,    \* MAX_IMAGE_RESPONSE_BYTES
  MaxText,        \* the limit of a text field
  MaxReferences,  \* MAX_REFERENCES
  Requests,       \* what clients send
  Answers         \* what the backend makes of it: sequences of images

\* A sequence of things that have a size.
SizedSeq(things) == things \in Seq(Range(things)) /\ \A i \in DOMAIN things : things[i].size \in Nat

ASSUME ImageAssumption ==
  /\ {MaxBody, MaxImage, MaxTotal, MaxResponse, MaxText, MaxReferences} \subseteq Nat
  /\ \A r \in Requests :
       /\ r.kind \in {"generate", "edit"}
       /\ r.kind = "generate" => r.body.size \in Nat /\ r.body.document \in Nat
       /\ r.kind = "edit" => SizedSeq(r.fields) /\ \A n \in DOMAIN r.fields : r.fields[n].frame \in Nat
  /\ \A images \in Answers : SizedSeq(images)

VARIABLES
  request,    \* the client's request, or NoRequest
  stage,      \* how far it has come
  read,       \* fields of its body read so far
  params,     \* the parameters read
  uploads,    \* places of the reference images read
  recovery,   \* CoordinatedRecovery.step
  attempts,   \* times it was sent
  billed,     \* times the backend did it
  heard,      \* what came of the last attempt
  failed_id,  \* failed_id
  reply       \* what the client got

image == <<request, stage, read, params, uploads, recovery, attempts, billed, heard, failed_id, reply>>

NoRequest == [kind |-> "none"]
NoReply == [status |-> 0, images |-> <<>>, id |-> 0]
Refusal(status) == [NoReply EXCEPT !.status = status]
Unheard == [status |-> 0, images |-> <<>>, id |-> 0]
NoParams == [name \in {} |-> "ok"]

\* A running total.
Plus(total, size) == total + size
Sum(sizes) == FoldLeft(Plus, 0, sizes)
Sizes(things) == [i \in DOMAIN things |-> things[i].size]

-----------------------------------------------------------------------------
(* Parameters.                                                             *)

Enums == {"background", "quality"}
Checked == {"model", "response_format", "size"}
Names == Enums \cup Checked \cup {"prompt", "n"}

\* serde: no other names, a prompt, an integer, values of the enums.
Typed(p) ==
  /\ DOMAIN p \subseteq Names
  /\ "prompt" \in DOMAIN p
  /\ "n" \in DOMAIN p => p["n"] \in Nat
  /\ \A name \in Enums \cap DOMAIN p : p[name] = "ok"

\* Parameters::validate
Valid(p) ==
  /\ p["prompt"] # "blank"
  /\ "n" \in DOMAIN p => p["n"] \in 1 .. 4
  /\ \A name \in Checked \cap DOMAIN p : p[name] = "ok"

Sound(p) == Typed(p) /\ Valid(p)

\* generation.n.unwrap_or(1)
Expected(p) == IF "n" \in DOMAIN p THEN p["n"] ELSE 1

-----------------------------------------------------------------------------
(* decode_json.  A body is a document and what follows it.                 *)

\* Mutant: the limit itself is all that is read.
LimitOnly == MaxBody

\* One more than allowed is read, to see that it is there.
ReadLimit == MaxBody + 1

Decoded(body) == IF body.encoding = "zstd" /\ body.size > ReadLimit THEN ReadLimit ELSE body.size

\* The document is complete in the first n, and only white space follows it there.
Parses(body, n) == body.document <= n /\ (body.rest = "space" \/ n = body.document)

DecodeStatus(body) ==
  CASE body.encoding \notin {"identity", "zstd"}      -> 415
    [] body.encoding = "zstd" /\ ~body.frame          -> 400
    [] Decoded(body) > MaxBody                        -> 413
    [] ~Parses(body, Decoded(body))                   -> 400
    [] OTHER                                          -> 200

-----------------------------------------------------------------------------
(* Reading.                                                                *)

ImageInit ==
  /\ request = NoRequest /\ stage = "idle" /\ read = 0
  /\ params = NoParams /\ uploads = <<>>
  /\ recovery = "reload" /\ attempts = 0 /\ billed = 0
  /\ heard = Unheard /\ failed_id = 0 /\ reply = NoReply

Done(r) == stage' = "done" /\ reply' = r

\* generate or edit is called, and looks at the key first.
Arrive(r, known) ==
  /\ stage = "idle"
  /\ request' = r
  /\ IF known THEN stage' = "reading" /\ UNCHANGED reply ELSE Done(Refusal(401))
  /\ UNCHANGED <<read, params, uploads, recovery, attempts, billed, heard, failed_id>>

Refuse(status) ==
  /\ Done(Refusal(status))
  /\ UNCHANGED <<request, read, params, uploads, recovery, attempts, billed, heard, failed_id>>

\* dispatch
Dispatch(p) ==
  /\ stage' = "calling"
  /\ params' = p
  /\ attempts' = 1
  /\ UNCHANGED <<request, read, uploads, recovery, billed, heard, failed_id, reply>>

\* generate: content type, body limit, decode_json, validate.
GenerateStatus(r) ==
  CASE ~r.typed               -> 400
    [] r.body.wire > MaxBody  -> 413
    [] DecodeStatus(r.body) # 200 -> DecodeStatus(r.body)
    [] ~Sound(r.params)       -> 400
    [] OTHER                  -> 200

Generate ==
  /\ stage = "reading" /\ request.kind = "generate"
  /\ IF GenerateStatus(request) = 200 THEN Dispatch(request.params) ELSE Refuse(GenerateStatus(request))

IsImage(field) == field.name \in {"image", "image[]"}

\* Mutant: the bound is looked at after it is passed.
SixthToo(n) == n > MaxReferences

Full(n) == n >= MaxReferences

SizeLimit(field) == IF IsImage(field) THEN MaxImage ELSE MaxText

\* The length of the body up to and with the n-th field: the limit of the router
\* is on the body as it comes, with its framing.
WireSizes(fields) == [i \in DOMAIN fields |-> fields[i].size + fields[i].frame]
SizeUpTo(fields, n) == Sum(SubSeq(WireSizes(fields), 1, n))

\* The checks of edit on the next field, in their order: those of its head, the
\* limits while it is read, and those of what was read.
FieldStatus(fields, n) ==
  LET field == fields[n] IN
  CASE ~IsImage(field) /\ field.name \notin Names                       -> 400
    [] IsImage(field) /\ Full(Len(uploads))                             -> 400
    [] ~IsImage(field) /\ field.name \in DOMAIN params                  -> 400
    [] field.size > SizeLimit(field) \/ SizeUpTo(fields, n) > MaxBody   -> 413
    [] ~field.readable                                                  -> 400
    [] field.name = "n" /\ field.value \notin Nat                       -> 400
    [] OTHER                                                            -> 200

With(p, name, value) == [key \in DOMAIN p \cup {name} |-> IF key = name THEN value ELSE p[key]]

ReadField ==
  /\ stage = "reading" /\ request.kind = "edit" /\ request.typed
  /\ read < Len(request.fields)
  /\ LET n == read + 1
         field == request.fields[n]
         status == FieldStatus(request.fields, n)
     IN IF status # 200 THEN Refuse(status)
        ELSE /\ read' = n
             /\ uploads' = IF IsImage(field) THEN Append(uploads, n) ELSE uploads
             /\ params' = IF IsImage(field) THEN params ELSE With(params, field.name, field.value)
             /\ UNCHANGED <<request, stage, recovery, attempts, billed, heard, failed_id, reply>>

\* The end of the fields, or a body that has none.
EndOfFields ==
  /\ stage = "reading" /\ request.kind = "edit"
  /\ request.typed => read = Len(request.fields)
  /\ IF request.typed /\ uploads # <<>> /\ Sound(params) THEN Dispatch(params) ELSE Refuse(400)

-----------------------------------------------------------------------------
(* Attempts: image_request under run_with_recovery.                        *)

Timeout == 504
NoStatus == 0

\* Mutant: a timeout is worth another attempt.
Again(status) == status \in {401, Timeout}

\* Only an explicit 401.
Recoverable(status) == status = 401

\* The status for the client: the backend's, or that of a bad gateway.
Shown(status) == IF status = NoStatus THEN 502 ELSE status

Failure(status, id) == [NoReply EXCEPT !.status = Shown(status), !.id = id]

\* has_next also asks whether there is still a credential.
HasNext(signedIn) == recovery # "done" /\ signedIn

\* Refusals, which precede the work.
BeforeWork == {400, 401}

\* The attempt fails.  A timeout, a broken connection, an answer beyond the limit
\* of the transport (NoStatus), or a failure that the backend reports (503), do
\* not tell whether the work was done.
AttemptFails(status, id, signedIn, charge) ==
  /\ stage = "calling"
  /\ charge > 0 => status \notin BeforeWork
  /\ billed' = billed + charge
  /\ heard' = [Unheard EXCEPT !.status = status, !.id = id]
  /\ failed_id' = id
  /\ IF Recoverable(status) /\ HasNext(signedIn)
       THEN stage' = "recovering" /\ UNCHANGED reply
       ELSE Done(Failure(status, id))
  /\ UNCHANGED <<request, read, params, uploads, recovery, attempts>>

\* The next step of the recovery, and the request once more.
Recover ==
  /\ stage = "recovering"
  /\ recovery' = IF recovery = "reload" THEN "refresh" ELSE "done"
  /\ attempts' = attempts + 1
  /\ stage' = "calling"
  /\ UNCHANGED <<request, read, params, uploads, billed, heard, failed_id, reply>>

\* The step fails: no lock, or no token.
RecoverFails ==
  /\ stage = "recovering"
  /\ Done(Failure(heard.status, failed_id))
  /\ UNCHANGED <<request, read, params, uploads, recovery, attempts, billed, heard, failed_id>>

-----------------------------------------------------------------------------
(* The answer: response_json.                                              *)

\* Base64 makes four bytes of every three that have begun.
Encoded(n) == 4 * ((n + 2) \div 3)

\* Mutant: the limit on the encoded form is rounded down.
RoundedDown == 4 * (MaxImage \div 3)

EncodedLimit == Encoded(MaxImage)

EncodedSizes(images) == [i \in DOMAIN images |-> Encoded(images[i].size)]

Accepted(images, expected) ==
  /\ Len(images) = expected /\ images # <<>> /\ Len(images) <= 4
  /\ \A i \in DOMAIN images :
       /\ Encoded(images[i].size) <= EncodedLimit
       /\ images[i].size <= MaxImage
       /\ Sum(SubSeq(Sizes(images), 1, i)) <= MaxTotal
       /\ images[i].content = "raster"
  /\ Sum(EncodedSizes(images)) <= MaxResponse

\* The backend has done it, and the answer is within the transport's limit.
AttemptSucceeds(images, id) ==
  /\ stage = "calling"
  /\ Sum(EncodedSizes(images)) <= MaxResponse
  /\ billed' = billed + 1
  /\ heard' = [status |-> 200, images |-> images, id |-> id]
  /\ Done(IF Accepted(images, Expected(params))
            THEN [status |-> 200, images |-> images, id |-> id] ELSE Refusal(502))
  /\ UNCHANGED <<request, read, params, uploads, recovery, attempts, failed_id>>

\* The client hangs up, or its instance is killed, and the work of the handler
\* ends where it is.  What is under way at the backend may be done or not.
Drop ==
  /\ stage \in {"reading", "calling", "recovering"}
  /\ stage' = "dropped"
  /\ billed' \in IF stage = "calling" THEN {billed, billed + 1} ELSE {billed}
  /\ UNCHANGED <<request, read, params, uploads, recovery, attempts, heard, failed_id, reply>>

Statuses == BeforeWork \cup {503, Timeout, NoStatus}

\* An id that the backend gave to this attempt, if it gave one.
GivenIds == {0, attempts}

Handle ==
  \/ Generate \/ ReadField \/ EndOfFields \/ Recover \/ RecoverFails
  \/ \E status \in Statuses, id \in GivenIds, signedIn \in BOOLEAN, charge \in {0, 1} :
       AttemptFails(status, id, signedIn, charge)
  \/ \E images \in Answers, id \in GivenIds : AttemptSucceeds(images, id)

-----------------------------------------------------------------------------
(* Properties.                                                             *)

\* However attempts end, with recoveries, timeouts, lost answers and instances
\* killed in between, the client's request is done and paid for once at most
\* (image_request, run_with_recovery).
BilledOnce == billed <= 1

\* Where the images are among the first k fields, and among all.
PlacesUpTo(fields, k) == FlattenSeq([n \in 1 .. k |-> IF IsImage(fields[n]) THEN <<n>> ELSE <<>>])
Places(fields) == PlacesUpTo(fields, Len(fields))
Texts(fields) == {n \in DOMAIN fields : ~IsImage(fields[n])}

\* What the documentation of the endpoint asks of the fields taken together,
\* in whichever order they come.
Proper(fields) ==
  /\ Len(Places(fields)) \in 1 .. MaxReferences
  /\ \A n \in DOMAIN fields :
       fields[n].readable /\ fields[n].size <= (IF IsImage(fields[n]) THEN MaxImage ELSE MaxText)
  /\ SizeUpTo(fields, Len(fields)) <= MaxBody
  /\ \A m, n \in Texts(fields) : fields[m].name = fields[n].name => m = n
  /\ Sound([name \in {fields[n].name : n \in Texts(fields)} |->
              fields[CHOOSE n \in Texts(fields) : fields[n].name = name].value])

\* An edit is sent to the backend with every image and parameter the client gave,
\* the images in their order, if its fields are proper; if not, it is refused
\* before anything is sent (edit).
UploadsArrive ==
  request.kind = "edit" /\ request.typed =>
    /\ attempts > 0 =>
         /\ Proper(request.fields)
         /\ uploads = Places(request.fields)
         /\ {<<name, params[name]>> : name \in DOMAIN params} =
              {<<request.fields[n].name, request.fields[n].value>> : n \in Texts(request.fields)}
    /\ stage = "done" /\ attempts = 0 /\ reply.status # 401 => ~Proper(request.fields)

\* A JSON body counts as a whole: a request is sent to the backend only if the
\* body, decompressed, is within the limit and nothing but white space follows
\* the document up to its very end (decode_json).
WholeBodyRead ==
  request.kind = "generate" /\ attempts > 0 =>
    /\ request.body.size <= MaxBody
    /\ request.body.document <= request.body.size
    /\ request.body.rest = "space" \/ request.body.document = request.body.size

Fits(images) ==
  /\ Len(images) = Expected(params) /\ images # <<>>
  /\ \A i \in DOMAIN images : images[i].size <= MaxImage /\ images[i].content = "raster"
  /\ Sum(Sizes(images)) <= MaxTotal

\* The client gets the images that were made, as many as it asked for, unless the
\* answer is not one or too big, and then none of them; an id it gets is that of the last attempt,
\* and a failure is the one of that attempt (dispatch, response_json, image_request).
AnswerFaithful ==
  stage = "done" /\ attempts > 0 =>
    IF heard.status = 200 /\ Fits(heard.images)
      THEN reply = [status |-> 200, images |-> heard.images, id |-> heard.id]
    ELSE IF heard.status = 200 THEN reply = Refusal(502)
    ELSE reply = Failure(heard.status, heard.id)
=============================================================================

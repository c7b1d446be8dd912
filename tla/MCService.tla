------------------------------- MODULE MCService ------------------------------
(* The instance of Service for TLC.                                        *)
EXTENDS Service

\* Deployments: of two sidecars that share a socket; and of a network server next
\* to one whose key file has no key in it, or a secret that is too short.
Comment == [kind |-> "comment"]
Secret(secret, short) == [kind |-> "secret", name |-> "app", secret |-> secret, short |-> short]
Unix == [listen |-> "unix", keys |-> {}]
Tcp(keys) == [listen |-> "tcp", keys |-> keys]

MCDeployments ==
  {[p \in {"a", "b"} |-> Unix],
   [p \in {"a", "b"} |-> IF p = "a" THEN Unix ELSE Tcp({Comment, Secret("right", FALSE)})],
   [p \in {"a", "b"} |-> IF p = "a" THEN Tcp({Comment}) ELSE Tcp({Secret("right", FALSE)})],
   [p \in {"a", "b"} |-> IF p = "a" THEN Tcp({Secret("weak", TRUE)}) ELSE Tcp({})]}

\* Parameters: right, unknown, blank, and the number of images at its boundary.
Prompt == [prompt |-> "words"]
ParamsOf == {Prompt, [prompt |-> "words", n |-> 5], [prompt |-> "words", n |-> -1], [prompt |-> "blank"],
             [prompt |-> "words", mask |-> "ok"], [n |-> 1], [prompt |-> "words", size |-> "odd"]}

\* JSON bodies: plain ones and compressed ones at the limit and past it, with a
\* document that ends before the limit, or with it, or not at all.
Body(encoding, wire, size, document, rest) ==
  [encoding |-> encoding, frame |-> TRUE, wire |-> wire, size |-> size, document |-> document, rest |-> rest]
Bodies ==
  {Body("identity", 1, 1, 1, "space"), Body("identity", 33, 33, 1, "space"), Body("gzip", 1, 1, 1, "space"),
   Body("zstd", 1, 32, 32, "space"), Body("zstd", 1, 32, 31, "junk"), Body("zstd", 1, 33, 32, "space"),
   Body("zstd", 1, 33, 32, "junk"), Body("zstd", 1, 34, 31, "space"), Body("zstd", 1, 2, 3, "space"),
   [Body("zstd", 1, 1, 1, "space") EXCEPT !.frame = FALSE]}

Json(body, p) == [kind |-> "generate", typed |-> TRUE, body |-> body, params |-> p]
Plain == Body("identity", 1, 1, 1, "space")

\* Forms: images up to the limits and past them (once by their frames alone), one
\* too many, between and before the parameters, doubled and unknown fields, wrong
\* contents.
Field(name, size, value) == [name |-> name, size |-> size, frame |-> 1, readable |-> TRUE, value |-> value]
Img(size) == Field("image", size, "ok")
Unreadable(field) == [field EXCEPT !.readable = FALSE]
Words == Field("prompt", 0, "words")
Form(fields) == [kind |-> "edit", typed |-> TRUE, fields |-> fields]
Forms ==
  {<<Img(21), Words>>, <<Img(20), Words, Img(9)>>, <<Img(20), Img(10), Words>>,
   <<Img(1), Img(1), Img(1), Img(1), Img(1), Words>>, <<Words, Img(1), Img(1), Img(1), Img(1), Img(1), Img(1)>>,
   <<Words>>, <<Img(1)>>, <<Words, Img(1), Words>>, <<Words, Field("mask", 1, "ok"), Img(1)>>,
   <<Words, Unreadable(Field("image[]", 1, "ok"))>>, <<Field("prompt", 2, "words"), Img(1)>>,
   <<Unreadable(Words), Img(1)>>, <<Words, Field("n", 0, 2), Img(1)>>,
   <<Words, Field("n", 0, -1), Img(1)>>}

MCRequests ==
  {Json(body, Prompt) : body \in Bodies} \cup {Json(Plain, p) : p \in ParamsOf}
  \cup {Form(fields) : fields \in Forms}
  \cup {[Json(Plain, Prompt) EXCEPT !.typed = FALSE], [Form(<<Words, Img(1)>>) EXCEPT !.typed = FALSE]}

Made(size, content) == [size |-> size, content |-> content]
MCAnswers ==
  {<<>>, <<Made(20, "raster")>>, <<Made(21, "raster")>>, <<Made(1, "other")>>, <<Made(1, "broken")>>,
   <<Made(1, "raster"), Made(20, "raster")>>, <<Made(20, "raster"), Made(20, "raster")>>}
=============================================================================

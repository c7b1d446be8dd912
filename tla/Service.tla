------------------------------- MODULE Service --------------------------------
(***************************************************************************)
(* Instances that come and go (Listening) and a request to the image       *)
(* endpoints (ImageRequest) that one of them takes: a connection is queued *)
(* as soon as an instance is bound, taken up when the instance serves, and *)
(* gone with the instance when it is killed.                               *)
(***************************************************************************)
EXTENDS Listening, ImageRequest

CONSTANTS Presented  \* the keys that clients present

VARIABLES entry  \* the connection: to whom, with which key, and what it came through

vars == <<listening, image, entry>>

NoEntry == [by |-> Nobody, key |-> "none", private |-> FALSE, early |-> FALSE]

Init == ListenInit /\ ImageInit /\ entry = NoEntry

\* A client connects; the mode of the socket counts at this moment and never
\* again.  It may come between bind and set_permissions.
Connect(p, presented) ==
  /\ Bound(p) /\ entry = NoEntry
  /\ entry' = [by |-> p, key |-> presented, private |-> path.owner = p /\ path.private,
               early |-> instance[p] = "tightening"]
  /\ UNCHANGED <<listening, image>>

\* axum::serve takes what is queued, and the key is looked at.
Take(p, r) ==
  /\ entry.by = p /\ instance[p] = "serving"
  /\ Arrive(r, Authenticate(p, entry.key))
  /\ UNCHANGED <<listening, entry>>

Serve == Handle /\ UNCHANGED <<listening, entry>>

HangUp == Drop /\ UNCHANGED <<listening, entry>>

\* With an instance that ends goes what nobody has taken up.
Queued(p) ==
  entry' = IF entry.by = p /\ stage = "idle" /\ instance'[p] = "down" THEN NoEntry ELSE entry

Listen(p) == Advance(p) /\ Queued(p) /\ UNCHANGED image

\* A killed instance drops its request.
Kill(p) ==
  /\ Crash(p)
  /\ Queued(p)
  /\ IF entry.by = p /\ stage \in {"reading", "calling", "recovering"} THEN Drop ELSE UNCHANGED image

Next ==
  \/ \E p \in Instances, presented \in Presented : Connect(p, presented)
  \/ \E p \in Instances, r \in Requests : Take(p, r)
  \/ Serve
  \/ HangUp
  \/ \E p \in Instances : Listen(p) \/ Kill(p)

\* A process that runs comes further, and one that has ended is started again.
Fairness == \A p \in Instances : WF_vars(Listen(p))

Spec == Init /\ [][Next]_vars /\ Fairness

-----------------------------------------------------------------------------
(* Properties of both together.                                            *)

\* Whatever comes as far as reading a request, or the backend, came in through a
\* socket whose mode was 0600 when it connected, or with one of the keys of the
\* instance's file, however instances get into each other's way when they start,
\* and whatever is in the file; or else it was queued in the moment between that
\* instance's own bind and set_permissions, when the umask decides who may connect
\* (validate, from_file, authenticate, serve_unix).
LetIn ==
  stage # "idle" /\ ~(attempts = 0 /\ reply.status = 401) =>
    entry.private \/ entry.key \in Secrets(config[entry.by].keys) \/ entry.early

\* What metadata finds at the path and is not a socket is never removed, whichever
\* instances come and go (serve_unix).
FileKept == [][path.kind = "file" => path' = path]_vars

Alone == Cardinality({p \in Instances : instance[p] \in StartUp}) <= 1

\* Instances that can come up on a transport at all.
Able(transport) ==
  {p \in Instances : config[p].listen = transport /\ Validated(p)
                     /\ (transport = "unix" => path.kind # "file")}

\* After crashes, with a stale socket or an unlucky start behind it, the service
\* is reachable again and remains so, once instances no longer start at the same
\* time (serve_unix, serve_tcp).
ReachableAgain ==
  <>[]Alone =>
    \A transport \in Transports :
      <>[](Able(transport) # {} => \E p \in Able(transport) : Reached(p))
=============================================================================

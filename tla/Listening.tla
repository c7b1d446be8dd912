------------------------------ MODULE Listening -------------------------------
(***************************************************************************)
(* How an instance of the service comes to listen (listen.rs, and run,     *)
(* serve_unix, serve_tcp and announce in serve.rs).  Instances may be      *)
(* started at the same time, may be killed at any point and are started    *)
(* again; they meet at the socket's path or at the TCP address.            *)
(*                                                                         *)
(* The system calls of serve_unix are steps of their own, because another  *)
(* instance may come in between.  A killed instance leaves its socket      *)
(* behind, which nobody serves then.                                       *)
(***************************************************************************)
EXTENDS Integers, FiniteSets

CONSTANTS
  Instances,    \* processes that run `serve`
  Deployments,  \* how they may be configured
  MaxCrashes,   \* bound: instances killed
  Nobody

ASSUME ListeningAssumption ==
  /\ Nobody \notin Instances
  /\ MaxCrashes \in Nat
  /\ \A d \in Deployments : DOMAIN d = Instances /\ \A p \in Instances : d[p].listen \in {"unix", "tcp"}

VARIABLES
  config,    \* of each instance: transport and lines of its key file
  instance,  \* how far each instance has come
  path,      \* what is found at the socket's path
  port,      \* who is bound to the TCP address
  crashes

listening == <<config, instance, path, port, crashes>>

Transports == {"unix", "tcp"}
StartUp == {"looking", "removing", "binding", "tightening", "announcing"}
Stages == {"down", "serving"} \cup StartUp

NoPath == [kind |-> "none", owner |-> Nobody, private |-> FALSE]
Socket(p, private) == [kind |-> "socket", owner |-> p, private |-> private]
RealFile == [kind |-> "file", owner |-> Nobody, private |-> FALSE]

-----------------------------------------------------------------------------
(* Keys.                                                                   *)

\* Blank lines and comments are skipped; a line without a name or with a short
\* secret is an error, and with one error there are no keys at all.
BadLine(line) == line.kind = "secret" /\ (line.name = "" \/ line.short)
BadKeys(lines) == \E line \in lines : BadLine(line)
Secrets(lines) == {line.secret : line \in {l \in lines : l.kind = "secret"}}

\* Without keys everybody is let in, as "local".
Authenticate(p, presented) ==
  Secrets(config[p].keys) = {} \/ presented \in Secrets(config[p].keys)

\* Mutant: the hint about an open port is all there is.
Unchecked(p) == ~BadKeys(config[p].keys)

\* Keys are readable, and TCP has some.
Validated(p) ==
  /\ ~BadKeys(config[p].keys)
  /\ config[p].listen = "tcp" => Secrets(config[p].keys) # {}

-----------------------------------------------------------------------------
(* Starting.                                                               *)

ListenInit ==
  /\ config \in Deployments
  /\ instance = [p \in Instances |-> "down"]
  /\ path \in {NoPath, RealFile, Socket(Nobody, TRUE)}
  /\ port = Nobody
  /\ crashes = 0

At(p, here, there) == instance[p] = here /\ instance' = [instance EXCEPT ![p] = there]

\* run, from the arguments to the listener; a refused configuration starts
\* nothing.
Start(p) ==
  /\ Validated(p)
  /\ At(p, "down", IF config[p].listen = "unix" THEN "looking" ELSE "binding")
  /\ UNCHANGED <<config, path, port, crashes>>

\* Mutant: whatever is there has to go.
Sweeping == [none |-> "binding", socket |-> "removing", file |-> "removing"]

\* Mutant: what is there is left to bind.
StaleKept == [none |-> "binding", socket |-> "binding", file |-> "down"]

\* metadata(path): a socket is taken for stale, anything else for a mistake.
Verdict == [none |-> "binding", socket |-> "removing", file |-> "down"]

Look(p) ==
  /\ At(p, "looking", Verdict[path.kind])
  /\ UNCHANGED <<config, path, port, crashes>>

\* remove_file, which fails if another instance was faster.
RemoveFile(p) ==
  /\ At(p, "removing", IF path.kind = "none" THEN "down" ELSE "binding")
  /\ path' = NoPath
  /\ UNCHANGED <<config, port, crashes>>

\* bind fails if there is something at the path.
BindUnix(p) ==
  /\ config[p].listen = "unix"
  /\ At(p, "binding", IF path = NoPath THEN "tightening" ELSE "down")
  /\ path' = IF path = NoPath THEN Socket(p, FALSE) ELSE path
  /\ UNCHANGED <<config, port, crashes>>

\* set_permissions goes by the path, whoever's socket is there by now.
Tighten(p) ==
  /\ At(p, "tightening", IF path = NoPath THEN "down" ELSE "announcing")
  /\ path' = IF path = NoPath THEN path ELSE [path EXCEPT !.private = TRUE]
  /\ UNCHANGED <<config, port, crashes>>

BindTcp(p) ==
  /\ config[p].listen = "tcp"
  /\ At(p, "binding", IF port = Nobody THEN "announcing" ELSE "down")
  /\ port' = IF port = Nobody THEN p ELSE port
  /\ UNCHANGED <<config, path, crashes>>

\* The announcement, and from then on requests.
Announce(p) == At(p, "announcing", "serving") /\ UNCHANGED <<config, path, port, crashes>>

\* Killed, or ended by an error of announce; a socket stays behind.
Crash(p) ==
  /\ crashes < MaxCrashes /\ instance[p] # "down"
  /\ crashes' = crashes + 1
  /\ instance' = [instance EXCEPT ![p] = "down"]
  /\ path' = IF path.owner = p THEN [path EXCEPT !.owner = Nobody] ELSE path
  /\ port' = IF port = p THEN Nobody ELSE port
  /\ UNCHANGED config

Advance(p) ==
  Start(p) \/ Look(p) \/ RemoveFile(p) \/ BindUnix(p) \/ Tighten(p) \/ BindTcp(p) \/ Announce(p)

\* Does a connection to this instance's address end up in its queue?  bind makes
\* it listen at once, under the mode that the umask leaves.
Bound(p) == path.owner = p \/ port = p

\* Is somebody there to answer it, too?
Reached(p) == Bound(p) /\ instance[p] = "serving"
=============================================================================

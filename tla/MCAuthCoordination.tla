------------------------ MODULE MCAuthCoordination ------------------------
(* Instances of AuthCoordination for TLC.                                  *)
EXTENDS AuthCoordination, FiniteSets, TLC

CONSTANTS p1, p2,    \* pods
          r1, r2,    \* requests
          probe,     \* a readiness probe
          cmd        \* a command

\* Where the requests and probes of a run live.
TwoPods == (r1 :> p1) @@ (r2 :> p2)
TwoRequests == (r1 :> p1) @@ (r2 :> p1)
OneRequestOneProbe == (r1 :> p1) @@ (probe :> p2)

\* Two requests of one pod may be exchanged.
SameRequests == Permutations({r1, r2})

\* Bound: of the requests, probes and commands, two are under way at a time.  What
\* it cuts off is the start of a third, which no fairness asks for.
TwoAtOnce == Cardinality({a \in Task \cup Cli : pc[a] # "idle"}) <= 2
=============================================================================

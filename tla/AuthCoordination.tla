-------------------------- MODULE AuthCoordination --------------------------
(***************************************************************************)
(* Who may touch the OAuth credential, and when.  Several pods (processes) *)
(* share one CODEX_HOME: a rolling update runs two of them for a while.    *)
(* In each pod, requests to the backend, readiness probes and the login    *)
(* reminder share one AuthManager (its cached credential) and one          *)
(* AuthHealth (the token the backend last rejected).  Every access to the  *)
(* store is made under one advisory file lock, auth.lock.                  *)
(*                                                                         *)
(* A credential is the number the authority gave it when issuing it; 0 is  *)
(* "no credential".  The access token and the refresh token of credential  *)
(* g are both g.  The actions of AuthManager and of the authority are      *)
(* external: they are modelled from how auth.rs and auth_recovery.rs use   *)
(* them.                                                                   *)
(***************************************************************************)
EXTENDS Naturals

CONSTANTS
  Pod,         \* processes that serve requests from the shared CODEX_HOME
  Reminder,    \* the pods that run the login reminder
  Request,     \* slots for logical backend operations
  Probe,       \* slots for GET /ready (and GET /wire/v1/auth)
  Cli,         \* slots for the login, login --device and logout commands
  Host,        \* the pod of each request and each probe
  Nobody,      \* the holder of a free lock
  MaxCred,     \* bound: how many credentials the authority issues
  MayCancel,   \* may a client disconnect and drop its request's future?
  MayCrash,    \* may a pod be killed and restarted?
  LockMayFail, \* may opening or locking auth.lock return an error?
  SaveMayFail  \* may a refresh fail after the authority has rotated?

Task == Request \cup Probe        \* futures that a client's call drives
Client == Task \cup Reminder      \* whoever shares a pod's AuthManager
Actor == Client \cup Cli

ASSUME ActorsAssumption ==
  /\ Reminder \subseteq Pod
  /\ Request \cap (Probe \cup Pod \cup Cli) = {}
  /\ Probe \cap (Pod \cup Cli) = {}
  /\ Pod \cap Cli = {}
  /\ Host \in [Task -> Pod]
  /\ Nobody \notin Actor

ASSUME BoundsAssumption ==
  /\ MaxCred \in Nat \ {0}
  /\ MayCancel \in BOOLEAN
  /\ MayCrash \in BOOLEAN
  /\ LockMayFail \in BOOLEAN
  /\ SaveMayFail \in BOOLEAN

Cred == 1 .. MaxCred
NoCred == 0

VARIABLES
  disk,      \* the credential in CODEX_HOME/auth.json
  issued,    \* credentials issued so far
  rotated,   \* refresh tokens used up at the authority
  revoked,   \* refresh tokens revoked by a sign-out
  due,       \* access tokens so close to their JWT expiry that auth() refreshes them
  expired,   \* access tokens past their JWT expiry
  invalid,   \* access tokens the backend has invalidated before their expiry
  reused,    \* refresh tokens presented again after they were used up
  lost,      \* credentials that were rotated and whose successor was never saved
  cached,    \* per pod: the AuthManager's cached credential
  denied,    \* per pod: the credential whose refresh failed for good
  latch,     \* per pod: AuthHealth.rejected
  holder,    \* who holds auth.lock
  pc,        \* where each actor is
  used,      \* per actor: the credential its last auth() call returned
  fresh,     \* per actor: a credential rotated but not saved yet
  step,      \* per request: CoordinatedRecovery.step
  reply,     \* per request: what the backend answered last
  attempts,  \* per request: attempts sent to the backend
  accepted   \* per request: attempts answered with anything but a 401

authority == <<issued, rotated, revoked, reused, lost>>
tokens    == <<due, expired, invalid>>
managers  == <<cached, denied, latch>>
requests  == <<step, reply, attempts, accepted>>
vars == <<disk, authority, tokens, managers, holder, pc, used, fresh, requests>>

Home(a) == IF a \in Task THEN Host[a] ELSE a
Spent == rotated \cup revoked
\* The access tokens the backend answers with a 401.
Refused == expired \cup invalid

-----------------------------------------------------------------------------
(* Control points.  A name that ends in Wait stands in acquire_auth_lock.  *)

AfterLock ==
  [authWait |-> "authHeld", reloadWait |-> "reloadHeld",
   refreshWait |-> "refreshHeld", loginWait |-> "loginHeld",
   cliWait |-> "cliHeld"]

AfterReload ==
  [authHeld |-> "authLoaded", refreshHeld |-> "refreshLoaded",
   loginHeld |-> "loginLoaded"]

AfterRotation ==
  [authLoaded |-> "authRotated", refreshLoaded |-> "refreshRotated",
   loginLoaded |-> "loginRotated"]

WaitPc == {"authWait", "reloadWait", "refreshWait", "loginWait", "cliWait"}
RotatedPc == {"authRotated", "refreshRotated", "loginRotated"}
\* The guard returned by acquire_auth_lock is alive at these points.
HeldPc == RotatedPc \cup
  {"authHeld", "authLoaded", "authSaved", "reloadHeld", "refreshHeld",
   "refreshLoaded", "loginHeld", "loginLoaded", "loginSaved", "polling",
   "signedIn", "backoffHeld", "cliHeld", "cliCleared"}
FreePc == {"idle", "asleep", "assess", "sent", "answered", "markCheck", "markWrite"}

TypeOK ==
  /\ disk \in Cred \cup {NoCred}
  /\ issued \in Cred \cup {NoCred}
  /\ rotated \subseteq Cred /\ revoked \subseteq Cred
  /\ due \subseteq Cred /\ expired \subseteq Cred /\ invalid \subseteq Cred
  /\ reused \subseteq Cred /\ lost \subseteq Cred \cup {NoCred}
  /\ cached \in [Pod -> Cred \cup {NoCred}]
  /\ denied \in [Pod -> Cred \cup {NoCred}]
  /\ latch \in [Pod -> Cred \cup {NoCred}]
  /\ holder \in Actor \cup {Nobody}
  /\ pc \in [Actor -> WaitPc \cup HeldPc \cup FreePc]
  /\ used \in [Actor -> Cred \cup {NoCred}]
  /\ fresh \in [Actor -> Cred \cup {NoCred}]
  /\ step \in [Request -> {"reload", "refresh", "done"}]
  /\ reply \in [Request -> {"none", "ok", "error", "unauthorized"}]
  /\ attempts \in [Request -> Nat]
  /\ accepted \in [Request -> Nat]

\* A service that starts on an empty CODEX_HOME, or on a signed-in one.
Init ==
  /\ disk \in {NoCred, 1}
  /\ issued = disk
  /\ rotated = {} /\ revoked = {} /\ reused = {} /\ lost = {}
  /\ due = {} /\ expired = {} /\ invalid = {}
  /\ cached = [p \in Pod |-> disk]
  /\ denied = [p \in Pod |-> NoCred]
  /\ latch = [p \in Pod |-> NoCred]
  /\ holder = Nobody
  /\ pc = [a \in Actor |-> IF a \in Reminder THEN "authWait" ELSE "idle"]
  /\ used = [a \in Actor |-> NoCred]
  /\ fresh = [a \in Actor |-> NoCred]
  /\ step = [o \in Request |-> "reload"]
  /\ reply = [o \in Request |-> "none"]
  /\ attempts = [o \in Request |-> 0]
  /\ accepted = [o \in Request |-> 0]

Goto(a, to) == pc' = [pc EXCEPT ![a] = to]
Hold == UNCHANGED holder
Release == holder' = Nobody

-----------------------------------------------------------------------------
(* The lock: acquire_auth_lock, and what its callers do with its error.    *)

AcquireLock(a) ==
  /\ pc[a] \in WaitPc
  /\ holder = Nobody
  /\ holder' = a
  /\ Goto(a, AfterLock[pc[a]])
  /\ UNCHANGED <<disk, authority, tokens, managers, used, fresh, requests>>

\* Mutant: a failed lock is overlooked.
LockErrorIgnored(a) == AfterLock[pc[a]]

\* A request without credentials fails; a recovery step that could not lock
\* is a failed step; the reminder goes on to sign in (readiness reports
\* auth_lock_failed) or sleeps; a command exits.
AfterLockError(a) ==
  CASE pc[a] \in {"reloadWait", "refreshWait"}          -> "markCheck"
    [] pc[a] = "authWait" /\ a \in Reminder             -> "loginWait"
    [] pc[a] = "loginWait"                              -> "asleep"
    [] OTHER                                            -> "idle"

LockFails(a) ==
  /\ LockMayFail
  /\ pc[a] \in WaitPc
  /\ Goto(a, AfterLockError(a))
  /\ UNCHANGED <<disk, authority, tokens, managers, holder, used, fresh, requests>>

\* Mutant: the manager is not reloaded after the lock was taken.
ReloadForgotten(a) == cached[Home(a)]

\* manager.reload(): the cached credential becomes the one on disk.
Reloaded(a) == disk

ReloadUnderLock(a) ==
  /\ pc[a] \in {"authHeld", "refreshHeld", "loginHeld"}
  /\ cached' = [cached EXCEPT ![Home(a)] = Reloaded(a)]
  /\ Goto(a, AfterReload[pc[a]])
  /\ UNCHANGED <<disk, authority, tokens, denied, latch, holder, used, fresh, requests>>

-----------------------------------------------------------------------------
(* AuthManager's refresh, reached from auth() when the cached token is     *)
(* about to expire, and from refresh_token() in the second recovery step.  *)

\* Mutant: the refresh step does not compare the reloaded token.
UnchangedAssumed(a) == pc[a] = "refreshLoaded"

\* refresh_if_unchanged: the token on disk is still the one that got the 401.
Unchanged(a) == cached[Home(a)] = used[a]

WantsRefresh(a) ==
  /\ pc[a] \in {"authLoaded", "loginLoaded", "refreshLoaded"}
  /\ cached[Home(a)] # NoCred
  /\ denied[Home(a)] # cached[Home(a)]
  /\ IF pc[a] = "refreshLoaded" THEN Unchanged(a) ELSE cached[Home(a)] \in due

\* The authority accepts the refresh token, and it is used up from now on.
RotateToken(a) ==
  /\ WantsRefresh(a)
  /\ cached[Home(a)] \notin Spent
  /\ issued < MaxCred
  /\ issued' = issued + 1
  /\ rotated' = rotated \cup {cached[Home(a)]}
  /\ fresh' = [fresh EXCEPT ![a] = issued + 1]
  /\ Goto(a, AfterRotation[pc[a]])
  /\ UNCHANGED <<disk, revoked, reused, lost, tokens, managers, holder, used, requests>>

\* The refresh token was used before: the failure is permanent.
RefreshDenied(a) ==
  /\ WantsRefresh(a)
  /\ cached[Home(a)] \in Spent
  /\ reused' = reused \cup {cached[Home(a)]}
  /\ denied' = [denied EXCEPT ![Home(a)] = cached[Home(a)]]
  /\ UNCHANGED <<disk, issued, rotated, revoked, lost, tokens, cached, latch,
                 holder, pc, used, fresh, requests>>

\* Mutant: the new credential reaches the cache, and never auth.json.
SaveCacheOnly(a) ==
  /\ pc[a] = "authRotated"
  /\ cached' = [cached EXCEPT ![Home(a)] = fresh[a]]
  /\ fresh' = [fresh EXCEPT ![a] = NoCred]
  /\ Goto(a, "authSaved")
  /\ UNCHANGED <<disk, authority, tokens, denied, latch, holder, used, requests>>

\* The new credential reaches auth.json and the cache.  auth() returns it, a
\* finished recovery step drops the lock and starts the last attempt.
SaveToken(a) ==
  /\ pc[a] \in RotatedPc
  /\ disk' = fresh[a]
  /\ cached' = [cached EXCEPT ![Home(a)] = fresh[a]]
  /\ fresh' = [fresh EXCEPT ![a] = NoCred]
  /\ \/ pc[a] = "authRotated" /\ Goto(a, "authSaved") /\ Hold /\ UNCHANGED step
     \/ pc[a] = "loginRotated" /\ Goto(a, "loginSaved") /\ Hold /\ UNCHANGED step
     \/ /\ pc[a] = "refreshRotated"
        /\ step' = [step EXCEPT ![a] = "done"]
        /\ Goto(a, "authWait")
        /\ Release
  /\ UNCHANGED <<authority, tokens, denied, latch, used, reply, attempts, accepted>>

\* The authority has rotated, but its answer does not arrive or cannot be saved:
\* auth() returns what is cached, refresh_token() returns the error.
RotationFails(a) ==
  /\ SaveMayFail
  /\ pc[a] \in RotatedPc
  /\ lost' = lost \cup {disk}
  /\ fresh' = [fresh EXCEPT ![a] = NoCred]
  /\ \/ pc[a] = "authRotated" /\ Goto(a, "authSaved") /\ Hold
     \/ pc[a] = "loginRotated" /\ Goto(a, "loginSaved") /\ Hold
     \/ pc[a] = "refreshRotated" /\ Goto(a, "markCheck") /\ Release
  /\ UNCHANGED <<disk, issued, rotated, revoked, reused, tokens, managers, used, requests>>

-----------------------------------------------------------------------------
(* Requests: one logical backend operation under run_with_recovery.        *)

\* A request arrives (a fresh CoordinatedRecovery), or a probe does.
Start(a) ==
  /\ pc[a] = "idle"
  /\ Goto(a, "authWait")
  /\ \/ /\ a \in Request
        /\ step' = [step EXCEPT ![a] = "reload"]
        /\ attempts' = [attempts EXCEPT ![a] = 0]
        /\ accepted' = [accepted EXCEPT ![a] = 0]
        /\ UNCHANGED reply
     \/ a \in Probe /\ UNCHANGED requests
  /\ UNCHANGED <<disk, authority, tokens, managers, holder, used, fresh>>

\* auth() returns the cached credential, whatever came of its refresh, and
\* coordinated_auth drops the lock.  A request records the credential in its
\* tracker and is sent with it; without one it ends with a local error.
AuthReturns(a) ==
  LET p == Home(a) IN
  /\ pc[a] \in {"authLoaded", "authSaved"}
  /\ Release
  /\ used' = [used EXCEPT ![a] = cached[p]]
  /\ \/ /\ a \in Request
        /\ cached[p] # NoCred
        /\ Goto(a, "sent")
        /\ attempts' = [attempts EXCEPT ![a] = @ + 1]
        /\ UNCHANGED <<step, reply, accepted>>
     \/ /\ a \in Request
        /\ cached[p] = NoCred
        /\ Goto(a, "idle")
        /\ UNCHANGED requests
     \/ /\ a \notin Request
        /\ Goto(a, "assess")
        /\ UNCHANGED requests
  /\ UNCHANGED <<disk, authority, tokens, managers, fresh>>

\* The backend answers.  The answer travels: it is handled in a later step.
Answer(o, r) ==
  /\ pc[o] = "sent"
  /\ r = "ok" => used[o] \notin Refused
  /\ r = "unauthorized" => used[o] \in Refused
  /\ reply' = [reply EXCEPT ![o] = r]
  /\ accepted' = [accepted EXCEPT ![o] = IF r = "unauthorized" THEN @ ELSE @ + 1]
  /\ Goto(o, "answered")
  /\ UNCHANGED <<disk, authority, tokens, managers, holder, used, fresh, step, attempts>>

\* Mutant: any success clears the latch.
ClearedAlways(l, u) == NoCred

\* AuthHealth::mark_success clears only a rejection of the token it used.
ClearedBy(l, u) == IF l = u THEN NoCred ELSE l

Succeed(o) ==
  /\ pc[o] = "answered"
  /\ reply[o] = "ok"
  /\ latch' = [latch EXCEPT ![Home(o)] = ClearedBy(@, used[o])]
  /\ Goto(o, "idle")
  /\ UNCHANGED <<disk, authority, tokens, cached, denied, holder, used, fresh, requests>>

\* has_next(): a recovery step is left and the manager has a credential.
HasNext(o) == step[o] # "done" /\ cached[Home(o)] # NoCred

\* Mutant: every failure is retried.
RecoverableAlways(o) == reply[o] # "ok" /\ HasNext(o)

\* The answers that enter recovery: HTTP 401 only.
Recoverable(o) == reply[o] = "unauthorized" /\ HasNext(o)

Recover(o) ==
  /\ pc[o] = "answered"
  /\ Recoverable(o)
  /\ \/ step[o] = "reload" /\ Goto(o, "reloadWait")
     \/ step[o] = "refresh" /\ Goto(o, "refreshWait")
  /\ UNCHANGED <<disk, authority, tokens, managers, holder, used, fresh, requests>>

\* Any other failure goes back to the caller; a 401 with nothing left to try
\* is first reported to AuthHealth.
Fail(o) ==
  /\ pc[o] = "answered"
  /\ reply[o] # "ok"
  /\ ~Recoverable(o)
  /\ Goto(o, IF reply[o] = "unauthorized" THEN "markCheck" ELSE "idle")
  /\ UNCHANGED <<disk, authority, tokens, managers, holder, used, fresh, requests>>

\* Mutant: the refresh step is skipped.
StepAfterSkips(s) == "done"

\* The step that follows a completed recovery step.
StepAfter(s) == IF s = "reload" THEN "refresh" ELSE "done"

\* First step, lock_and_reload: reload, drop the lock, replay the request.
RecoveryReload(o) ==
  /\ pc[o] = "reloadHeld"
  /\ cached' = [cached EXCEPT ![Home(o)] = Reloaded(o)]
  /\ step' = [step EXCEPT ![o] = StepAfter(@)]
  /\ Release
  /\ Goto(o, "authWait")
  /\ UNCHANGED <<disk, authority, tokens, denied, latch, used, fresh, reply, attempts, accepted>>

\* Second step, refresh_if_unchanged, when another holder replaced the token:
\* nothing is refreshed and the request is replayed.
SkipRefresh(o) ==
  /\ pc[o] = "refreshLoaded"
  /\ ~Unchanged(o)
  /\ step' = [step EXCEPT ![o] = StepAfter(@)]
  /\ Release
  /\ Goto(o, "authWait")
  /\ UNCHANGED <<disk, authority, tokens, managers, used, fresh, reply, attempts, accepted>>

\* refresh_token() returns an error, permanent or transient, before the authority
\* has rotated.
RefreshFails(o) ==
  /\ pc[o] = "refreshLoaded"
  /\ Unchanged(o)
  /\ Release
  /\ Goto(o, "markCheck")
  /\ UNCHANGED <<disk, authority, tokens, managers, used, fresh, requests>>

\* AuthHealth::mark_unauthorized, in its two unsynchronised steps: is the
\* rejected token still the manager's current one ...
MarkCheck(o) ==
  /\ pc[o] = "markCheck"
  /\ Goto(o, IF cached[Home(o)] = used[o] THEN "markWrite" ELSE "idle")
  /\ UNCHANGED <<disk, authority, tokens, managers, holder, used, fresh, requests>>

\* Mutant: the token current when the answer is handled is condemned.
MarkedCurrent(o) == cached[Home(o)]

\* The credential that mark_unauthorized puts in the latch.
Marked(o) == used[o]

\* ... then, under the mutex of the latch alone, overwrite the latch.
MarkWrite(o) ==
  /\ pc[o] = "markWrite"
  /\ latch' = [latch EXCEPT ![Home(o)] = Marked(o)]
  /\ Goto(o, "idle")
  /\ UNCHANGED <<disk, authority, tokens, cached, denied, holder, used, fresh, requests>>

-----------------------------------------------------------------------------
(* Readiness and the login reminder.                                       *)

\* readiness_with_auth: the reasons, in the order they are looked for.
Readiness(p, g) ==
  CASE g = NoCred      -> "not_authenticated"
    [] g = denied[p]   -> "refresh_failed"
    [] g \in expired   -> "token_expired"
    [] g = latch[p]    -> "upstream_unauthorized"
    [] OTHER           -> "ok"

Ready(a) == Readiness(Home(a), used[a]) = "ok"

\* readiness() after its lock is dropped: a probe reports, the reminder
\* sleeps or goes on to sign in.
Assess(a) ==
  /\ pc[a] = "assess"
  /\ Goto(a, IF a \notin Reminder THEN "idle"
             ELSE IF Ready(a) THEN "asleep" ELSE "loginWait")
  /\ UNCHANGED <<disk, authority, tokens, managers, holder, used, fresh, requests>>

\* The sleep of an interval, or of the backoff, is over.
Wake(r) ==
  /\ pc[r] = "asleep"
  /\ Goto(r, "authWait")
  /\ UNCHANGED <<disk, authority, tokens, managers, holder, used, fresh, requests>>

\* Under the lock the reminder looks again.  Ready: it drops the lock and
\* starts over.  Otherwise it asks for a device code, and keeps the lock
\* both while it polls and while it backs off because none was given.
LookAgain(r) ==
  LET g == cached[r] IN
  /\ pc[r] \in {"loginLoaded", "loginSaved"}
  /\ used' = [used EXCEPT ![r] = g]
  /\ \/ Readiness(r, g) = "ok" /\ Release /\ Goto(r, "authWait")
     \/ Readiness(r, g) # "ok" /\ Hold /\ (Goto(r, "polling") \/ Goto(r, "backoffHeld"))
  /\ UNCHANGED <<disk, authority, tokens, managers, fresh, requests>>

\* Somebody entered the code: the authority issues a credential, which
\* complete_device_code_login saves.
SignInCompletes(r) ==
  /\ pc[r] = "polling"
  /\ issued < MaxCred
  /\ issued' = issued + 1
  /\ disk' = issued + 1
  /\ Goto(r, "signedIn")
  /\ UNCHANGED <<rotated, revoked, reused, lost, tokens, managers, holder, used, fresh, requests>>

\* The code ran out: the reminder sleeps with the lock in its hands.
SignInFails(r) ==
  /\ pc[r] = "polling"
  /\ Goto(r, "backoffHeld")
  /\ UNCHANGED <<disk, authority, tokens, managers, holder, used, fresh, requests>>

ReloadAfterSignIn(r) ==
  /\ pc[r] = "signedIn"
  /\ cached' = [cached EXCEPT ![r] = disk]
  /\ Release
  /\ Goto(r, "authWait")
  /\ UNCHANGED <<disk, authority, tokens, denied, latch, used, fresh, requests>>

\* Mutant: the reminder retries in place, without dropping the lock.
BackoffRetries(r) ==
  /\ pc[r] = "backoffHeld"
  /\ Goto(r, "loginLoaded")
  /\ UNCHANGED <<disk, authority, tokens, managers, holder, used, fresh, requests>>

BackoffEnds(r) ==
  /\ pc[r] = "backoffHeld"
  /\ Release
  /\ Goto(r, "authWait")
  /\ UNCHANGED <<disk, authority, tokens, managers, used, fresh, requests>>

-----------------------------------------------------------------------------
(* The commands login, login --device and logout, each its own process.    *)

CliStart(c) ==
  /\ pc[c] = "idle"
  /\ Goto(c, "cliWait")
  /\ UNCHANGED <<disk, authority, tokens, managers, holder, used, fresh, requests>>

\* Mutant: the revoked credential is left in the file.
RevokeKeeps ==
  \/ disk # NoCred /\ revoked' = revoked \cup {disk} /\ UNCHANGED disk
  \/ UNCHANGED <<disk, revoked>>

\* Mutant: a sign-out does not look whether anything is stored.
RevokeUnchecked ==
  \/ /\ revoked' = revoked \cup {disk}
     /\ disk' = NoCred
  \/ UNCHANGED <<disk, revoked>>

\* logout_with_revoke: the stored credential is revoked and removed, or the
\* call fails and nothing changes.
Revoke ==
  \/ /\ disk # NoCred
     /\ revoked' = revoked \cup {disk}
     /\ disk' = NoCred
  \/ UNCHANGED <<disk, revoked>>

\* login revokes first and carries on if that fails; login --device does not
\* revoke.  Both keep the lock until the operator is done.
CliSignIn(c) ==
  /\ pc[c] = "cliHeld"
  /\ Revoke
  /\ Goto(c, "cliCleared")
  /\ UNCHANGED <<issued, rotated, reused, lost, tokens, managers, holder, used, fresh, requests>>

CliLogout(c) ==
  /\ pc[c] = "cliHeld"
  /\ Revoke
  /\ Release
  /\ Goto(c, "idle")
  /\ UNCHANGED <<issued, rotated, reused, lost, tokens, managers, used, fresh, requests>>

\* The sign-in ends: with a new credential on disk, or without.
CliDone(c) ==
  /\ pc[c] = "cliCleared"
  /\ \/ issued < MaxCred /\ issued' = issued + 1 /\ disk' = issued + 1
     \/ UNCHANGED <<issued, disk>>
  /\ Release
  /\ Goto(c, "idle")
  /\ UNCHANGED <<rotated, revoked, reused, lost, tokens, managers, used, fresh, requests>>

-----------------------------------------------------------------------------
(* The environment: time, the backend, clients that go away, dead pods.    *)

\* Five minutes before the expiry: the backend still accepts the token.
FallDue(g) ==
  /\ g \in (1 .. issued) \ due
  /\ due' = due \cup {g}
  /\ UNCHANGED <<disk, authority, expired, invalid, managers, holder, pc, used, fresh, requests>>

Expire(g) ==
  /\ g \in due \ expired
  /\ expired' = expired \cup {g}
  /\ UNCHANGED <<disk, authority, due, invalid, managers, holder, pc, used, fresh, requests>>

Invalidate(g) ==
  /\ g \in (1 .. issued) \ invalid
  /\ invalid' = invalid \cup {g}
  /\ UNCHANGED <<disk, authority, due, expired, managers, holder, pc, used, fresh, requests>>

\* The credentials that the death of the actors A loses for good.
LostBy(A) == IF \E a \in A : fresh[a] # NoCred THEN {disk} ELSE {}

\* Mutant: a restarting pod removes a lock file that looks left over.
FreedAlways(A) == Nobody

FreedBy(A) == IF holder \in A THEN Nobody ELSE holder

\* A dropped future ends at an await, wherever that is; mark_unauthorized has
\* none.  The guard it owns is dropped with it.
Cancel(a) ==
  /\ MayCancel
  /\ pc[a] \notin {"idle", "markCheck", "markWrite"}
  /\ lost' = lost \cup LostBy({a})
  /\ holder' = FreedBy({a})
  /\ fresh' = [fresh EXCEPT ![a] = NoCred]
  /\ Goto(a, "idle")
  /\ UNCHANGED <<disk, issued, rotated, revoked, reused, tokens, managers, used, requests>>

\* A pod is killed and comes back: the operating system drops its lock, and
\* the new AuthManager reads the disk without taking it.
CrashRestart(p) ==
  LET Dead == {a \in Actor : Home(a) = p} IN
  /\ MayCrash
  /\ lost' = lost \cup LostBy(Dead)
  /\ holder' = FreedBy(Dead)
  /\ fresh' = [a \in Actor |-> IF a \in Dead THEN NoCred ELSE fresh[a]]
  /\ pc' = [a \in Actor |->
              IF a \notin Dead THEN pc[a]
              ELSE IF a \in Reminder THEN "authWait" ELSE "idle"]
  /\ cached' = [cached EXCEPT ![p] = disk]
  /\ denied' = [denied EXCEPT ![p] = NoCred]
  /\ latch' = [latch EXCEPT ![p] = NoCred]
  /\ UNCHANGED <<disk, issued, rotated, revoked, reused, tokens, used, requests>>

-----------------------------------------------------------------------------
RequestStep(o) ==
  \/ \E r \in {"ok", "error", "unauthorized"} : Answer(o, r)
  \/ Succeed(o) \/ Recover(o) \/ Fail(o)
  \/ RecoveryReload(o) \/ SkipRefresh(o) \/ RefreshFails(o)
  \/ MarkCheck(o) \/ MarkWrite(o)

ReminderStep(r) ==
  \/ Wake(r) \/ LookAgain(r)
  \/ SignInCompletes(r) \/ SignInFails(r) \/ ReloadAfterSignIn(r) \/ BackoffEnds(r)

CliStep(c) == CliSignIn(c) \/ CliLogout(c) \/ CliDone(c)

AuthStep(a) ==
  \/ ReloadUnderLock(a) \/ RotateToken(a) \/ RefreshDenied(a) \/ SaveToken(a) \/ RotationFails(a)
  \/ AuthReturns(a) \/ Assess(a)

\* What an actor does of its own accord once it has what it waits for.
Advance(a) ==
  \/ a \in Client /\ AuthStep(a)
  \/ a \in Request /\ RequestStep(a)
  \/ a \in Reminder /\ ReminderStep(a)
  \/ a \in Cli /\ CliStep(a)

Environment ==
  \/ \E g \in Cred : FallDue(g) \/ Expire(g) \/ Invalidate(g)
  \/ \E a \in Task : Cancel(a)
  \/ \E p \in Pod : CrashRestart(p)

Next ==
  \/ \E a \in Task : Start(a)
  \/ \E c \in Cli : CliStart(c)
  \/ \E a \in Actor : AcquireLock(a) \/ LockFails(a)
  \/ \E a \in Actor : Advance(a)
  \/ Environment

Spec == Init /\ [][Next]_vars

\* Every await ends: OAuth calls and the backend time out, a device code
\* expires after fifteen minutes, sleeps are finite.  A waiter on the file
\* lock that finds it free again and again gets it at last.
Fairness ==
  /\ \A a \in Actor : WF_vars(Advance(a))
  /\ \A a \in Actor : SF_vars(AcquireLock(a))

FairSpec == Spec /\ Fairness

-----------------------------------------------------------------------------
(* Properties.                                                             *)

\* The guard of auth.lock is alive exactly where the code needs it: whoever
\* stands between taking and dropping the lock is its one holder, so no
\* reload, refresh, sign-in or sign-out overlaps another's (auth.rs,
\* AuthFileLock).
LockDiscipline == \A a \in Actor : pc[a] \in HeldPc <=> holder = a

\* A used-up refresh token is never presented to the authority again, except
\* one whose successor was lost before it was saved: reloading
\* under the lock before every refresh is what makes it so (coordinated_auth,
\* refresh_if_unchanged).
ReuseOnlyAfterLoss == reused \subseteq lost

\* Two requests that both had a token rejected rotate it once: a credential
\* is rotated only when its access token is about to expire or was refused,
\* never a sound one that another holder has just obtained, whether the backend
\* answered with a 401 (refresh_if_unchanged) or time ran out (coordinated_auth).
NoNeedlessRotation == rotated \subseteq due \cup Refused

\* One logical operation is sent at most three times, and only a 401 lets it
\* be sent again: at most one attempt can have been carried out
\* (run_with_unauthorized_recovery).
BoundedReplay ==
  \A o \in Request :
    /\ attempts[o] <= 3
    /\ accepted[o] <= 1
    /\ accepted[o] = 1 => pc[o] \in {"answered", "idle"}

\* A pod calls a credential rejected only if the backend refuses that very
\* credential; a late 401 for an old token never condemns a newer one
\* (AuthTracker, mark_unauthorized).
RejectionIsTrue == \A p \in Pod : latch[p] # NoCred => latch[p] \in Refused

\* The attempt after the refresh step goes out with a token other than the
\* one whose 401 led to the refresh (refresh_if_unchanged, coordinated_auth).
FreshTokenAfterRefresh ==
  [][\A o \in Request :
       (pc[o] # "sent" /\ pc'[o] = "sent" /\ step[o] = "done")
         => used'[o] # used[o]]_vars

\* As long as a pod keeps a credential it knows to be rejected, a late success
\* of another credential does not make the pod look ready: only a success of
\* the rejected credential itself takes the rejection back (mark_success), or
\* a restart of the pod forgets it.
StaleSuccessHarmless ==
  [][\A p \in Pod :
       (latch[p] # NoCred /\ latch[p] = cached[p] /\ latch'[p] = NoCred)
         => \/ CrashRestart(p)
            \/ \E o \in Request : /\ Home(o) = p
                                  /\ reply[o] = "ok"
                                  /\ used[o] = cached[p]]_vars

\* A failure reported late does not clear a newer one: as long as a pod keeps a
\* credential it knows to be rejected, the rejection of an older credential
\* does not take its place (mark_unauthorized).
StaleFailureHarmless ==
  [][\A p \in Pod :
       (latch[p] # NoCred /\ latch[p] = cached[p])
         => latch'[p] \in {latch[p], NoCred, cached'[p]}]_vars

\* A pod asks for a sign-in only while the shared credential is missing or is
\* no good for it: after waiting for the lock it does not ask again because of
\* what it knew before another pod signed in (login_reminder).
SignInOnlyWhenNeeded ==
  [][\A r \in Reminder :
       (pc[r] # "polling" /\ pc'[r] = "polling")
         => disk = NoCred \/ disk \in expired \cup Spent \cup {latch[r]}]_vars

\* The store as its users see it is the one of CredentialStore: a rotation
\* takes effect when the authority performs it, and the lock hides the time
\* until the new credential is saved.
Stored ==
  IF \E a \in Actor : fresh[a] # NoCred
    THEN fresh[CHOOSE a \in Actor : fresh[a] # NoCred]
    ELSE disk

Store == INSTANCE CredentialStore
           WITH store <- Stored, spent <- Spent, MayLose <- MayCancel \/ MayCrash \/ SaveMayFail

\* Sharing the directory under the lock is as good as a store whose
\* credential is replaced in single steps (AuthFileLock, coordinated_auth).
StoreIsAtomic == Store!Spec

\* Every request and probe comes to an end: the login reminder, the commands
\* and the other pods hand the lock on, and nobody waits for a lock it holds
\* itself (login_reminder calls readiness_with_auth, not readiness).
TasksFinish == \A o \in Task : pc[o] # "idle" ~> pc[o] = "idle"
=============================================================================

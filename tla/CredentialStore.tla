-------------------------- MODULE CredentialStore --------------------------
(***************************************************************************)
(* What the credential directory promises to everybody who shares it: one  *)
(* credential at a time, replaced in single steps.  A credential is a      *)
(* number, given out by the OAuth authority in order; 0 stands for "not    *)
(* signed in".  Its refresh token can be used once: rotating it spends it. *)
(***************************************************************************)
EXTENDS Naturals

CONSTANT MayLose   \* may a holder die, or fail, after rotating and before saving?

VARIABLES store,   \* the credential the directory holds (0: none)
          issued,  \* how many credentials the authority has issued
          spent,   \* credentials whose refresh token is used up or revoked
          lost     \* spent credentials that came back, their successor being lost

storeVars == <<store, issued, spent, lost>>

Init ==
  /\ store \in {0, 1}
  /\ issued = store
  /\ spent = {}
  /\ lost = {}

\* A refresh: the live credential is replaced by the next one, in one step.
Rotate ==
  /\ store # 0
  /\ store \notin spent
  /\ issued' = issued + 1
  /\ store' = issued + 1
  /\ spent' = spent \cup {store}
  /\ UNCHANGED lost

\* A completed sign-in replaces whatever was there.
SignIn ==
  /\ issued' = issued + 1
  /\ store' = issued + 1
  /\ UNCHANGED <<spent, lost>>

\* A sign-out revokes the credential and removes it.
SignOut ==
  /\ store # 0
  /\ spent' = spent \cup {store}
  /\ store' = 0
  /\ UNCHANGED <<issued, lost>>

\* The rotated credential dies with its holder or is never saved: the spent one
\* is back, and is known to be.
Lose ==
  /\ MayLose
  /\ store' \in spent
  /\ lost' = lost \cup {store'}
  /\ UNCHANGED <<issued, spent>>

Next == Rotate \/ SignIn \/ SignOut \/ Lose

Spec == Init /\ [][Next]_storeVars
=============================================================================

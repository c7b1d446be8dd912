----------------------- MODULE AuthCoordinationProofs -----------------------
(***************************************************************************)
(* Theorems about AuthCoordination, for any number of pods, requests,      *)
(* probes and commands, and any placement of them.  In order: types, the   *)
(* lock, the store (what is on disk, cached and about to be saved), the    *)
(* requests, that the shared directory implements CredentialStore, and the *)
(* steps: what a request is sent with after a refresh, when the login      *)
(* reminder asks for a sign-in, and what a late success does to the latch. *)
(***************************************************************************)
EXTENDS AuthCoordination, TLAPS

\* Whoever shares a pod's AuthManager lives in a pod.
LEMMA HomeIsPod == \A a \in Client : Home(a) \in Pod
  BY ActorsAssumption DEF Home, Client, Task

\* Every variable keeps its type: a credential is a number the authority has
\* room for, and every actor is at a known control point.
THEOREM TypeCorrect == Spec => []TypeOK
<1> USE ActorsAssumption, BoundsAssumption
<1> USE DEF TypeOK, Goto, Hold, Release, authority, tokens, managers, requests,
            Cred, NoCred, Spent, Actor, Client, Task, WaitPc, HeldPc, FreePc, RotatedPc
<1>1. Init => TypeOK
  BY DEF Init
<1>2. TypeOK /\ [Next]_vars => TypeOK'
  <2> SUFFICES ASSUME TypeOK, [Next]_vars
               PROVE  TypeOK'
    OBVIOUS
  <2>1. ASSUME NEW a \in Task, Start(a)
        PROVE  TypeOK'
    BY <2>1, HomeIsPod DEF Start
  <2>2. ASSUME NEW a \in Cli, CliStart(a)
        PROVE  TypeOK'
    BY <2>2, HomeIsPod DEF CliStart
  <2>3. ASSUME NEW a \in Actor, AcquireLock(a)
        PROVE  TypeOK'
    BY <2>3, HomeIsPod DEF AcquireLock, AfterLock
  <2>4. ASSUME NEW a \in Actor, LockFails(a)
        PROVE  TypeOK'
    BY <2>4, HomeIsPod DEF LockFails, AfterLockError
  <2>5. ASSUME NEW a \in Client, ReloadUnderLock(a)
        PROVE  TypeOK'
    BY <2>5, HomeIsPod DEF ReloadUnderLock, AfterReload, Reloaded
  <2>6. ASSUME NEW a \in Client, RotateToken(a)
        PROVE  TypeOK'
    <3>1. cached[Home(a)] \in Cred
      BY <2>6, HomeIsPod DEF RotateToken, WantsRefresh
    <3>2. issued + 1 \in Cred
      BY <2>6 DEF RotateToken
    <3>3. AfterRotation[pc[a]] \in RotatedPc
      BY <2>6 DEF RotateToken, WantsRefresh, AfterRotation
    <3>4. QED
      BY <2>6, <3>1, <3>2, <3>3 DEF RotateToken
  <2>7. ASSUME NEW a \in Client, RefreshDenied(a)
        PROVE  TypeOK'
    <3>1. cached[Home(a)] \in Cred
      BY <2>7, HomeIsPod DEF RefreshDenied, WantsRefresh
    <3>2. QED
      BY <2>7, <3>1 DEF RefreshDenied
  <2>8. ASSUME NEW a \in Client, SaveToken(a)
        PROVE  TypeOK'
    BY <2>8, HomeIsPod DEF SaveToken
  <2>8a. ASSUME NEW a \in Client, RotationFails(a)
        PROVE  TypeOK'
    BY <2>8a, HomeIsPod DEF RotationFails
  <2>9. ASSUME NEW a \in Client, AuthReturns(a)
        PROVE  TypeOK'
    BY <2>9, HomeIsPod DEF AuthReturns
  <2>10. ASSUME NEW a \in Client, Assess(a)
        PROVE  TypeOK'
    BY <2>10, HomeIsPod DEF Assess
  <2>11. ASSUME NEW a \in Request, NEW r \in {"ok", "error", "unauthorized"}, Answer(a, r)
        PROVE  TypeOK'
    BY <2>11, HomeIsPod DEF Answer
  <2>12. ASSUME NEW a \in Request, Succeed(a)
        PROVE  TypeOK'
    BY <2>12, HomeIsPod DEF Succeed, ClearedBy
  <2>13. ASSUME NEW a \in Request, Recover(a)
        PROVE  TypeOK'
    BY <2>13, HomeIsPod DEF Recover
  <2>14. ASSUME NEW a \in Request, Fail(a)
        PROVE  TypeOK'
    BY <2>14, HomeIsPod DEF Fail
  <2>15. ASSUME NEW a \in Request, RecoveryReload(a)
        PROVE  TypeOK'
    BY <2>15, HomeIsPod DEF RecoveryReload, Reloaded, StepAfter
  <2>16. ASSUME NEW a \in Request, SkipRefresh(a)
        PROVE  TypeOK'
    BY <2>16, HomeIsPod DEF SkipRefresh, StepAfter
  <2>17. ASSUME NEW a \in Request, RefreshFails(a)
        PROVE  TypeOK'
    BY <2>17, HomeIsPod DEF RefreshFails
  <2>18. ASSUME NEW a \in Request, MarkCheck(a)
        PROVE  TypeOK'
    BY <2>18, HomeIsPod DEF MarkCheck
  <2>19. ASSUME NEW a \in Request, MarkWrite(a)
        PROVE  TypeOK'
    BY <2>19, HomeIsPod DEF MarkWrite, Marked
  <2>20. ASSUME NEW a \in Reminder, Wake(a)
        PROVE  TypeOK'
    BY <2>20, HomeIsPod DEF Wake
  <2>21. ASSUME NEW a \in Reminder, LookAgain(a)
        PROVE  TypeOK'
    BY <2>21, HomeIsPod DEF LookAgain
  <2>22. ASSUME NEW a \in Reminder, SignInCompletes(a)
        PROVE  TypeOK'
    BY <2>22, HomeIsPod DEF SignInCompletes
  <2>23. ASSUME NEW a \in Reminder, SignInFails(a)
        PROVE  TypeOK'
    BY <2>23, HomeIsPod DEF SignInFails
  <2>24. ASSUME NEW a \in Reminder, ReloadAfterSignIn(a)
        PROVE  TypeOK'
    BY <2>24, HomeIsPod DEF ReloadAfterSignIn
  <2>25. ASSUME NEW a \in Reminder, BackoffEnds(a)
        PROVE  TypeOK'
    BY <2>25, HomeIsPod DEF BackoffEnds
  <2>26. ASSUME NEW a \in Cli, CliSignIn(a)
        PROVE  TypeOK'
    BY <2>26, HomeIsPod DEF CliSignIn, Revoke
  <2>27. ASSUME NEW a \in Cli, CliLogout(a)
        PROVE  TypeOK'
    BY <2>27, HomeIsPod DEF CliLogout, Revoke
  <2>28. ASSUME NEW a \in Cli, CliDone(a)
        PROVE  TypeOK'
    BY <2>28, HomeIsPod DEF CliDone
  <2>28a. ASSUME NEW g \in Cred, FallDue(g)
        PROVE  TypeOK'
    BY <2>28a, HomeIsPod DEF FallDue
  <2>29. ASSUME NEW g \in Cred, Expire(g)
        PROVE  TypeOK'
    BY <2>29, HomeIsPod DEF Expire
  <2>30. ASSUME NEW g \in Cred, Invalidate(g)
        PROVE  TypeOK'
    BY <2>30, HomeIsPod DEF Invalidate
  <2>31. ASSUME NEW a \in Task, Cancel(a)
        PROVE  TypeOK'
    BY <2>31, HomeIsPod DEF Cancel, LostBy, FreedBy
  <2>32. ASSUME NEW p \in Pod, CrashRestart(p)
        PROVE  TypeOK'
    BY <2>32, HomeIsPod DEF CrashRestart, LostBy, FreedBy, Actor
  <2>33. CASE UNCHANGED vars
    BY <2>33 DEF vars
  <2>34. QED
    BY <2>1, <2>2, <2>3, <2>4, <2>5, <2>6, <2>7, <2>8, <2>8a, <2>9, <2>10, <2>11,
       <2>12, <2>13, <2>14, <2>15, <2>16, <2>17, <2>18, <2>19, <2>20, <2>21,
       <2>22, <2>23, <2>24, <2>25, <2>26, <2>27, <2>28, <2>28a, <2>29, <2>30, <2>31,
       <2>32, <2>33 DEF Next, Advance, AuthStep, RequestStep, ReminderStep,
       CliStep, Environment
<1>3. QED
  BY <1>1, <1>2, PTL DEF Spec

\* The lock's discipline is inductive on its own: every step that takes or drops
\* the guard moves its holder across the boundary of HeldPc.
LEMMA LockStep == TypeOK /\ LockDiscipline /\ [Next]_vars => LockDiscipline'
<1> USE ActorsAssumption
<1> USE DEF TypeOK, LockDiscipline, Goto, Hold, Release, WaitPc, HeldPc, FreePc,
            RotatedPc, Actor, Client, Task
<1> SUFFICES ASSUME TypeOK, LockDiscipline, [Next]_vars
             PROVE  LockDiscipline'
  OBVIOUS
<1>1. ASSUME NEW a \in Task, Start(a)
      PROVE  LockDiscipline'
  BY <1>1 DEF Start
<1>2. ASSUME NEW a \in Cli, CliStart(a)
      PROVE  LockDiscipline'
  BY <1>2 DEF CliStart
<1>3. ASSUME NEW a \in Actor, AcquireLock(a)
      PROVE  LockDiscipline'
  BY <1>3 DEF AcquireLock, AfterLock
<1>4. ASSUME NEW a \in Actor, LockFails(a)
      PROVE  LockDiscipline'
  BY <1>4 DEF LockFails, AfterLockError
<1>5. ASSUME NEW a \in Client, ReloadUnderLock(a)
      PROVE  LockDiscipline'
  BY <1>5 DEF ReloadUnderLock, AfterReload
<1>6. ASSUME NEW a \in Client, RotateToken(a)
      PROVE  LockDiscipline'
  BY <1>6 DEF RotateToken, AfterRotation, WantsRefresh
<1>7. ASSUME NEW a \in Client, RefreshDenied(a)
      PROVE  LockDiscipline'
  BY <1>7 DEF RefreshDenied, WantsRefresh
<1>8. ASSUME NEW a \in Client, SaveToken(a)
      PROVE  LockDiscipline'
  BY <1>8 DEF SaveToken
<1>8a. ASSUME NEW a \in Client, RotationFails(a)
      PROVE  LockDiscipline'
  BY <1>8a DEF RotationFails
<1>9. ASSUME NEW a \in Client, AuthReturns(a)
      PROVE  LockDiscipline'
  BY <1>9 DEF AuthReturns
<1>10. ASSUME NEW a \in Client, Assess(a)
      PROVE  LockDiscipline'
  BY <1>10 DEF Assess
<1>11. ASSUME NEW a \in Request, NEW r \in {"ok", "error", "unauthorized"}, Answer(a, r)
      PROVE  LockDiscipline'
  BY <1>11 DEF Answer
<1>12. ASSUME NEW a \in Request, Succeed(a)
      PROVE  LockDiscipline'
  BY <1>12 DEF Succeed
<1>13. ASSUME NEW a \in Request, Recover(a)
      PROVE  LockDiscipline'
  BY <1>13 DEF Recover
<1>14. ASSUME NEW a \in Request, Fail(a)
      PROVE  LockDiscipline'
  BY <1>14 DEF Fail
<1>15. ASSUME NEW a \in Request, RecoveryReload(a)
      PROVE  LockDiscipline'
  BY <1>15 DEF RecoveryReload
<1>16. ASSUME NEW a \in Request, SkipRefresh(a)
      PROVE  LockDiscipline'
  BY <1>16 DEF SkipRefresh
<1>17. ASSUME NEW a \in Request, RefreshFails(a)
      PROVE  LockDiscipline'
  BY <1>17 DEF RefreshFails
<1>18. ASSUME NEW a \in Request, MarkCheck(a)
      PROVE  LockDiscipline'
  BY <1>18 DEF MarkCheck
<1>19. ASSUME NEW a \in Request, MarkWrite(a)
      PROVE  LockDiscipline'
  BY <1>19 DEF MarkWrite
<1>20. ASSUME NEW a \in Reminder, Wake(a)
      PROVE  LockDiscipline'
  BY <1>20 DEF Wake
<1>21. ASSUME NEW a \in Reminder, LookAgain(a)
      PROVE  LockDiscipline'
  BY <1>21 DEF LookAgain
<1>22. ASSUME NEW a \in Reminder, SignInCompletes(a)
      PROVE  LockDiscipline'
  BY <1>22 DEF SignInCompletes
<1>23. ASSUME NEW a \in Reminder, SignInFails(a)
      PROVE  LockDiscipline'
  BY <1>23 DEF SignInFails
<1>24. ASSUME NEW a \in Reminder, ReloadAfterSignIn(a)
      PROVE  LockDiscipline'
  BY <1>24 DEF ReloadAfterSignIn
<1>25. ASSUME NEW a \in Reminder, BackoffEnds(a)
      PROVE  LockDiscipline'
  BY <1>25 DEF BackoffEnds
<1>26. ASSUME NEW a \in Cli, CliSignIn(a)
      PROVE  LockDiscipline'
  BY <1>26 DEF CliSignIn
<1>27. ASSUME NEW a \in Cli, CliLogout(a)
      PROVE  LockDiscipline'
  BY <1>27 DEF CliLogout
<1>28. ASSUME NEW a \in Cli, CliDone(a)
      PROVE  LockDiscipline'
  BY <1>28 DEF CliDone
<1>28a. ASSUME NEW g \in Cred, FallDue(g)
      PROVE  LockDiscipline'
  BY <1>28a DEF FallDue
<1>29. ASSUME NEW g \in Cred, Expire(g)
      PROVE  LockDiscipline'
  BY <1>29 DEF Expire
<1>30. ASSUME NEW g \in Cred, Invalidate(g)
      PROVE  LockDiscipline'
  BY <1>30 DEF Invalidate
<1>31. ASSUME NEW a \in Task, Cancel(a)
      PROVE  LockDiscipline'
  BY <1>31 DEF Cancel, FreedBy
<1>32. ASSUME NEW p \in Pod, CrashRestart(p)
      PROVE  LockDiscipline'
  BY <1>32 DEF CrashRestart, FreedBy
<1>33. CASE UNCHANGED vars
  BY <1>33 DEF vars
<1>34. QED
  BY <1>1, <1>2, <1>3, <1>4, <1>5, <1>6, <1>7, <1>8, <1>8a, <1>9, <1>10, <1>11,
     <1>12, <1>13, <1>14, <1>15, <1>16, <1>17, <1>18, <1>19, <1>20, <1>21,
     <1>22, <1>23, <1>24, <1>25, <1>26, <1>27, <1>28, <1>28a, <1>29, <1>30, <1>31,
     <1>32, <1>33 DEF Next, Advance, AuthStep, RequestStep, ReminderStep,
     CliStep, Environment

-----------------------------------------------------------------------------
(* The inductive strengthening.                                            *)

\* Where the cached credential has been reloaded and the lock is still held.
LoadedPc == RotatedPc \cup {"authLoaded", "refreshLoaded", "loginLoaded"}

\* Nothing is spent that was not issued.
IssueInv ==
  /\ disk <= issued
  /\ Spent \subseteq 1 .. issued

\* A rotated credential is held between rotation and saving, nowhere else.
FreshInv == \A a \in Actor : fresh[a] # NoCred <=> pc[a] \in RotatedPc

\* Under the lock, a reloaded cache agrees with the disk.
CoherenceInv ==
  \A a \in Client : pc[a] \in LoadedPc => cached[Home(a)] = disk

\* Between rotation and saving the disk holds the spent credential, and the
\* one about to be saved is the youngest; at all other times a spent
\* credential on disk is a lost one.
SuccessorInv ==
  /\ \A a \in Actor : fresh[a] # NoCred => disk \in Spent /\ fresh[a] = issued
  /\ \A a \in Actor : fresh[a] # NoCred => issued \notin Spent
  /\ (disk \in Spent /\ \A a \in Actor : fresh[a] = NoCred) => disk \in lost

\* What the lock protects.
StoreInv ==
  /\ LockDiscipline
  /\ IssueInv
  /\ FreshInv
  /\ CoherenceInv
  /\ SuccessorInv
  /\ ReuseOnlyAfterLoss

\* The strengthening is inductive: a rotation makes the credential on disk spent
\* and the rotated one the youngest, and only the holder of the lock moves either.
LEMMA StoreStep == TypeOK /\ StoreInv /\ [Next]_vars => StoreInv'
<1> USE ActorsAssumption, HomeIsPod
<1> USE DEF TypeOK, StoreInv, IssueInv, FreshInv, CoherenceInv, SuccessorInv,
            LockDiscipline, ReuseOnlyAfterLoss, Spent, LoadedPc, Cred, NoCred,
            Goto, Hold, Release, WaitPc, HeldPc, FreePc, RotatedPc, Actor,
            Client, Task, authority, tokens, managers, requests
<1> SUFFICES ASSUME TypeOK, StoreInv, [Next]_vars
             PROVE  StoreInv'
  OBVIOUS
<1>1. ASSUME NEW a \in Task, Start(a)
      PROVE  StoreInv'
  BY <1>1 DEF Start
<1>2. ASSUME NEW a \in Cli, CliStart(a)
      PROVE  StoreInv'
  BY <1>2 DEF CliStart
<1>3. ASSUME NEW a \in Actor, AcquireLock(a)
      PROVE  StoreInv'
  BY <1>3 DEF AcquireLock, AfterLock
<1>4. ASSUME NEW a \in Actor, LockFails(a)
      PROVE  StoreInv'
  BY <1>4 DEF LockFails, AfterLockError
<1>5. ASSUME NEW a \in Client, ReloadUnderLock(a)
      PROVE  StoreInv'
  BY <1>5 DEF ReloadUnderLock, AfterReload, Reloaded
<1>6. ASSUME NEW a \in Client, RotateToken(a)
      PROVE  StoreInv'
  <2>1. cached[Home(a)] = disk /\ disk # NoCred /\ disk \notin Spent
    BY <1>6 DEF RotateToken, WantsRefresh
  <2>2. pc[a] \in HeldPc /\ AfterRotation[pc[a]] \in RotatedPc
    BY <1>6 DEF RotateToken, WantsRefresh, AfterRotation
  <2>3. \A b \in Actor \ {a} : pc[b] \notin HeldPc /\ fresh[b] = NoCred
    BY <2>2
  <2>4. /\ pc' = [pc EXCEPT ![a] = AfterRotation[pc[a]]]
        /\ fresh' = [fresh EXCEPT ![a] = issued + 1]
        /\ rotated' = rotated \cup {disk}
        /\ issued' = issued + 1
        /\ UNCHANGED <<disk, revoked, reused, lost, cached, holder>>
    BY <1>6, <2>1 DEF RotateToken
  <2>5. LockDiscipline'
    BY <2>2, <2>4
  <2>6. IssueInv'
    BY <2>1, <2>4
  <2>7. FreshInv'
    BY <2>2, <2>3, <2>4
  <2>8. CoherenceInv'
    BY <2>1, <2>3, <2>4
  <2>9. SuccessorInv' /\ ReuseOnlyAfterLoss'
    BY <2>3, <2>4
  <2>10. QED
    BY <2>5, <2>6, <2>7, <2>8, <2>9
<1>7. ASSUME NEW a \in Client, RefreshDenied(a)
      PROVE  StoreInv'
  <2>1. cached[Home(a)] = disk /\ pc[a] \in HeldPc \ RotatedPc
    BY <1>7 DEF RefreshDenied, WantsRefresh
  <2>2. \A b \in Actor : fresh[b] = NoCred
    BY <2>1
  <2>3. disk \in lost
    BY <1>7, <2>1, <2>2 DEF RefreshDenied
  <2>4. QED
    BY <1>7, <2>1, <2>3 DEF RefreshDenied
<1>8. ASSUME NEW a \in Client, SaveToken(a)
      PROVE  StoreInv'
  BY <1>8 DEF SaveToken
<1>8a. ASSUME NEW a \in Client, RotationFails(a)
      PROVE  StoreInv'
  BY <1>8a DEF RotationFails
<1>9. ASSUME NEW a \in Client, AuthReturns(a)
      PROVE  StoreInv'
  BY <1>9 DEF AuthReturns
<1>10. ASSUME NEW a \in Client, Assess(a)
      PROVE  StoreInv'
  BY <1>10 DEF Assess
<1>11. ASSUME NEW a \in Request, NEW r \in {"ok", "error", "unauthorized"}, Answer(a, r)
      PROVE  StoreInv'
  BY <1>11 DEF Answer
<1>12. ASSUME NEW a \in Request, Succeed(a)
      PROVE  StoreInv'
  BY <1>12 DEF Succeed
<1>13. ASSUME NEW a \in Request, Recover(a)
      PROVE  StoreInv'
  BY <1>13 DEF Recover
<1>14. ASSUME NEW a \in Request, Fail(a)
      PROVE  StoreInv'
  BY <1>14 DEF Fail
<1>15. ASSUME NEW a \in Request, RecoveryReload(a)
      PROVE  StoreInv'
  BY <1>15 DEF RecoveryReload, Reloaded
<1>16. ASSUME NEW a \in Request, SkipRefresh(a)
      PROVE  StoreInv'
  BY <1>16 DEF SkipRefresh
<1>17. ASSUME NEW a \in Request, RefreshFails(a)
      PROVE  StoreInv'
  BY <1>17 DEF RefreshFails
<1>18. ASSUME NEW a \in Request, MarkCheck(a)
      PROVE  StoreInv'
  BY <1>18 DEF MarkCheck
<1>19. ASSUME NEW a \in Request, MarkWrite(a)
      PROVE  StoreInv'
  BY <1>19 DEF MarkWrite
<1>20. ASSUME NEW a \in Reminder, Wake(a)
      PROVE  StoreInv'
  BY <1>20 DEF Wake
<1>21. ASSUME NEW a \in Reminder, LookAgain(a)
      PROVE  StoreInv'
  BY <1>21 DEF LookAgain
<1>22. ASSUME NEW a \in Reminder, SignInCompletes(a)
      PROVE  StoreInv'
  BY <1>22 DEF SignInCompletes
<1>23. ASSUME NEW a \in Reminder, SignInFails(a)
      PROVE  StoreInv'
  BY <1>23 DEF SignInFails
<1>24. ASSUME NEW a \in Reminder, ReloadAfterSignIn(a)
      PROVE  StoreInv'
  BY <1>24 DEF ReloadAfterSignIn
<1>25. ASSUME NEW a \in Reminder, BackoffEnds(a)
      PROVE  StoreInv'
  BY <1>25 DEF BackoffEnds
<1>26. ASSUME NEW a \in Cli, CliSignIn(a)
      PROVE  StoreInv'
  <2>1. \A b \in Actor : fresh[b] = NoCred
    BY <1>26 DEF CliSignIn
  <2>2. \A b \in Actor \ {a} : pc[b] \notin HeldPc
    BY <1>26 DEF CliSignIn
  <2>3. CASE UNCHANGED <<disk, revoked>>
    BY <1>26, <2>1, <2>2, <2>3 DEF CliSignIn
  <2>4. CASE disk # NoCred /\ revoked' = revoked \cup {disk} /\ disk' = NoCred
    <3>1. IssueInv'
      BY <1>26, <2>4 DEF CliSignIn
    <3>2. FreshInv' /\ SuccessorInv' /\ ReuseOnlyAfterLoss'
      BY <1>26, <2>1, <2>4, <3>1 DEF CliSignIn
    <3>3. CoherenceInv' /\ LockDiscipline'
      BY <1>26, <2>2, <2>4 DEF CliSignIn
    <3>4. QED
      BY <3>1, <3>2, <3>3
  <2>5. QED
    BY <1>26, <2>3, <2>4 DEF CliSignIn, Revoke
<1>27. ASSUME NEW a \in Cli, CliLogout(a)
      PROVE  StoreInv'
  <2>1. \A b \in Actor : fresh[b] = NoCred
    BY <1>27 DEF CliLogout
  <2>2. \A b \in Actor \ {a} : pc[b] \notin HeldPc
    BY <1>27 DEF CliLogout
  <2>3. CASE UNCHANGED <<disk, revoked>>
    BY <1>27, <2>1, <2>2, <2>3 DEF CliLogout
  <2>4. CASE disk # NoCred /\ revoked' = revoked \cup {disk} /\ disk' = NoCred
    <3>1. IssueInv'
      BY <1>27, <2>4 DEF CliLogout
    <3>2. FreshInv' /\ SuccessorInv' /\ ReuseOnlyAfterLoss'
      BY <1>27, <2>1, <2>4, <3>1 DEF CliLogout
    <3>3. CoherenceInv' /\ LockDiscipline'
      BY <1>27, <2>2, <2>4 DEF CliLogout
    <3>4. QED
      BY <3>1, <3>2, <3>3
  <2>5. QED
    BY <1>27, <2>3, <2>4 DEF CliLogout, Revoke
<1>28. ASSUME NEW a \in Cli, CliDone(a)
      PROVE  StoreInv'
  BY <1>28 DEF CliDone
<1>28a. ASSUME NEW g \in Cred, FallDue(g)
      PROVE  StoreInv'
  BY <1>28a DEF FallDue
<1>29. ASSUME NEW g \in Cred, Expire(g)
      PROVE  StoreInv'
  BY <1>29 DEF Expire
<1>30. ASSUME NEW g \in Cred, Invalidate(g)
      PROVE  StoreInv'
  BY <1>30 DEF Invalidate
<1>31. ASSUME NEW a \in Task, Cancel(a)
      PROVE  StoreInv'
  BY <1>31 DEF Cancel, FreedBy, LostBy
<1>32. ASSUME NEW p \in Pod, CrashRestart(p)
      PROVE  StoreInv'
  <2> DEFINE Dead == {a \in Actor : Home(a) = p}
  <2>1. LockDiscipline'
    BY <1>32 DEF CrashRestart, FreedBy
  <2>2. FreshInv' /\ IssueInv'
    BY <1>32 DEF CrashRestart
  <2>3. CoherenceInv'
    BY <1>32 DEF CrashRestart
  <2>4. CASE \E a \in Dead : fresh[a] # NoCred
    <3>1. lost' = lost \cup {disk} /\ disk' = disk
      BY <1>32, <2>4 DEF CrashRestart, LostBy
    <3>2. \A b \in Actor : fresh'[b] = NoCred
      BY <1>32, <2>4 DEF CrashRestart
    <3>3. QED
      BY <1>32, <2>1, <2>2, <2>3, <3>1, <3>2 DEF CrashRestart
  <2>5. CASE \A a \in Dead : fresh[a] = NoCred
    <3>1. lost' = lost /\ disk' = disk
      BY <1>32, <2>5 DEF CrashRestart, LostBy
    <3>2. \A b \in Actor : fresh'[b] = fresh[b]
      BY <1>32, <2>5 DEF CrashRestart
    <3>3. UNCHANGED <<issued, rotated, revoked, reused>>
      BY <1>32 DEF CrashRestart
    <3>4. SuccessorInv' /\ ReuseOnlyAfterLoss'
      BY <3>1, <3>2, <3>3
    <3>5. QED
      BY <2>1, <2>2, <2>3, <3>4
  <2>6. QED
    BY <2>4, <2>5
<1>33. CASE UNCHANGED vars
  BY <1>33 DEF vars
<1>34. QED
  BY <1>1, <1>2, <1>3, <1>4, <1>5, <1>6, <1>7, <1>8, <1>8a, <1>9, <1>10, <1>11,
     <1>12, <1>13, <1>14, <1>15, <1>16, <1>17, <1>18, <1>19, <1>20, <1>21,
     <1>22, <1>23, <1>24, <1>25, <1>26, <1>27, <1>28, <1>28a, <1>29, <1>30, <1>31,
     <1>32, <1>33 DEF Next, Advance, AuthStep, RequestStep, ReminderStep,
     CliStep, Environment

\* auth.lock is held by whoever stands between taking and dropping its guard,
\* and by nobody else (AuthFileLock).
THEOREM LockSafe == Spec => []LockDiscipline
<1>1. Init => LockDiscipline
  BY ActorsAssumption DEF Init, LockDiscipline, HeldPc, RotatedPc
<1>2. QED
  BY <1>1, LockStep, TypeCorrect, PTL DEF Spec

\* What holds of the disk, the caches and the credentials in flight at all times.
LEMMA StoreInvariant == Spec => []StoreInv
<1>1. Init => StoreInv
  <2> SUFFICES ASSUME Init PROVE StoreInv
    OBVIOUS
  <2>1. Spent = {} /\ disk <= issued
    BY DEF Init, Spent, NoCred
  <2>2. \A a \in Actor : fresh[a] = NoCred /\ pc[a] \notin HeldPc /\ holder # a
    BY ActorsAssumption DEF Init, HeldPc, RotatedPc
  <2>3. LockDiscipline /\ FreshInv /\ CoherenceInv
    BY <2>2 DEF LockDiscipline, FreshInv, CoherenceInv, LoadedPc, HeldPc, Actor
  <2>4. IssueInv /\ SuccessorInv /\ ReuseOnlyAfterLoss
    BY <2>1, <2>2 DEF Init, IssueInv, SuccessorInv, ReuseOnlyAfterLoss
  <2>5. QED
    BY <2>3, <2>4 DEF StoreInv
<1>2. QED
  BY <1>1, StoreStep, TypeCorrect, PTL DEF Spec

\* A used-up refresh token is presented again only when its successor was lost
\* with the holder that had obtained it (coordinated_auth, refresh_if_unchanged).
THEOREM ReuseSafe == Spec => []ReuseOnlyAfterLoss
<1>1. StoreInv => ReuseOnlyAfterLoss
  BY DEF StoreInv
<1>2. QED
  BY <1>1, StoreInvariant, PTL

-----------------------------------------------------------------------------
(* Requests.                                                               *)

\* Where a request stands after a 401 and before it is sent again or gives up.
RecoveryPc == {"reloadWait", "reloadHeld", "refreshWait", "refreshHeld",
               "refreshLoaded", "refreshRotated", "markCheck", "markWrite"}

\* Only requests recover, and only from a credential the backend refuses.
RefusalInv ==
  /\ \A a \in Actor \ Request : pc[a] \notin RecoveryPc
  /\ \A o \in Request :
       pc[o] \in RecoveryPc \/ (pc[o] = "answered" /\ reply[o] = "unauthorized")
         => used[o] \in Refused
  /\ RejectionIsTrue
  /\ NoNeedlessRotation

\* Access tokens stay refused, so what was true of a 401 when it was sent is
\* true when it is handled, however late that is.
LEMMA RefusalStep == TypeOK /\ RefusalInv /\ [Next]_vars => RefusalInv'
<1> USE ActorsAssumption, HomeIsPod
<1> USE DEF TypeOK, RefusalInv, RecoveryPc, RejectionIsTrue, NoNeedlessRotation,
            Refused, NoCred, Goto, Hold, Release, WaitPc, RotatedPc, Actor,
            Client, Task, authority, tokens, managers, requests
<1> SUFFICES ASSUME TypeOK, RefusalInv, [Next]_vars
             PROVE  RefusalInv'
  OBVIOUS
<1>1. ASSUME NEW a \in Task, Start(a)
      PROVE  RefusalInv'
  BY <1>1 DEF Start
<1>2. ASSUME NEW a \in Cli, CliStart(a)
      PROVE  RefusalInv'
  BY <1>2 DEF CliStart
<1>3. ASSUME NEW a \in Actor, AcquireLock(a)
      PROVE  RefusalInv'
  BY <1>3 DEF AcquireLock, AfterLock
<1>4. ASSUME NEW a \in Actor, LockFails(a)
      PROVE  RefusalInv'
  BY <1>4 DEF LockFails, AfterLockError
<1>5. ASSUME NEW a \in Client, ReloadUnderLock(a)
      PROVE  RefusalInv'
  BY <1>5 DEF ReloadUnderLock, AfterReload
<1>6. ASSUME NEW a \in Client, RotateToken(a)
      PROVE  RefusalInv'
  BY <1>6 DEF RotateToken, AfterRotation, WantsRefresh, Unchanged
<1>7. ASSUME NEW a \in Client, RefreshDenied(a)
      PROVE  RefusalInv'
  BY <1>7 DEF RefreshDenied, WantsRefresh
<1>8. ASSUME NEW a \in Client, SaveToken(a)
      PROVE  RefusalInv'
  BY <1>8 DEF SaveToken
<1>8a. ASSUME NEW a \in Client, RotationFails(a)
      PROVE  RefusalInv'
  BY <1>8a DEF RotationFails
<1>9. ASSUME NEW a \in Client, AuthReturns(a)
      PROVE  RefusalInv'
  BY <1>9 DEF AuthReturns
<1>10. ASSUME NEW a \in Client, Assess(a)
      PROVE  RefusalInv'
  BY <1>10 DEF Assess
<1>11. ASSUME NEW a \in Request, NEW r \in {"ok", "error", "unauthorized"}, Answer(a, r)
      PROVE  RefusalInv'
  BY <1>11 DEF Answer
<1>12. ASSUME NEW a \in Request, Succeed(a)
      PROVE  RefusalInv'
  BY <1>12 DEF Succeed, ClearedBy
<1>13. ASSUME NEW a \in Request, Recover(a)
      PROVE  RefusalInv'
  BY <1>13 DEF Recover, Recoverable
<1>14. ASSUME NEW a \in Request, Fail(a)
      PROVE  RefusalInv'
  BY <1>14 DEF Fail, Recoverable
<1>15. ASSUME NEW a \in Request, RecoveryReload(a)
      PROVE  RefusalInv'
  BY <1>15 DEF RecoveryReload
<1>16. ASSUME NEW a \in Request, SkipRefresh(a)
      PROVE  RefusalInv'
  BY <1>16 DEF SkipRefresh
<1>17. ASSUME NEW a \in Request, RefreshFails(a)
      PROVE  RefusalInv'
  BY <1>17 DEF RefreshFails
<1>18. ASSUME NEW a \in Request, MarkCheck(a)
      PROVE  RefusalInv'
  BY <1>18 DEF MarkCheck
<1>19. ASSUME NEW a \in Request, MarkWrite(a)
      PROVE  RefusalInv'
  BY <1>19 DEF MarkWrite, Marked
<1>20. ASSUME NEW a \in Reminder, Wake(a)
      PROVE  RefusalInv'
  BY <1>20 DEF Wake
<1>21. ASSUME NEW a \in Reminder, LookAgain(a)
      PROVE  RefusalInv'
  BY <1>21 DEF LookAgain
<1>22. ASSUME NEW a \in Reminder, SignInCompletes(a)
      PROVE  RefusalInv'
  BY <1>22 DEF SignInCompletes
<1>23. ASSUME NEW a \in Reminder, SignInFails(a)
      PROVE  RefusalInv'
  BY <1>23 DEF SignInFails
<1>24. ASSUME NEW a \in Reminder, ReloadAfterSignIn(a)
      PROVE  RefusalInv'
  BY <1>24 DEF ReloadAfterSignIn
<1>25. ASSUME NEW a \in Reminder, BackoffEnds(a)
      PROVE  RefusalInv'
  BY <1>25 DEF BackoffEnds
<1>26. ASSUME NEW a \in Cli, CliSignIn(a)
      PROVE  RefusalInv'
  BY <1>26 DEF CliSignIn
<1>27. ASSUME NEW a \in Cli, CliLogout(a)
      PROVE  RefusalInv'
  BY <1>27 DEF CliLogout
<1>28. ASSUME NEW a \in Cli, CliDone(a)
      PROVE  RefusalInv'
  BY <1>28 DEF CliDone
<1>28a. ASSUME NEW g \in Cred, FallDue(g)
      PROVE  RefusalInv'
  BY <1>28a DEF FallDue
<1>29. ASSUME NEW g \in Cred, Expire(g)
      PROVE  RefusalInv'
  BY <1>29 DEF Expire
<1>30. ASSUME NEW g \in Cred, Invalidate(g)
      PROVE  RefusalInv'
  BY <1>30 DEF Invalidate
<1>31. ASSUME NEW a \in Task, Cancel(a)
      PROVE  RefusalInv'
  BY <1>31 DEF Cancel
<1>32. ASSUME NEW p \in Pod, CrashRestart(p)
      PROVE  RefusalInv'
  BY <1>32 DEF CrashRestart
<1>33. CASE UNCHANGED vars
  BY <1>33 DEF vars
<1>34. QED
  BY <1>1, <1>2, <1>3, <1>4, <1>5, <1>6, <1>7, <1>8, <1>8a, <1>9, <1>10, <1>11,
     <1>12, <1>13, <1>14, <1>15, <1>16, <1>17, <1>18, <1>19, <1>20, <1>21,
     <1>22, <1>23, <1>24, <1>25, <1>26, <1>27, <1>28, <1>28a, <1>29, <1>30, <1>31,
     <1>32, <1>33 DEF Next, Advance, AuthStep, RequestStep, ReminderStep,
     CliStep, Environment

\* How many attempts a request may have made by the time of a recovery step.
Level(s) == CASE s = "reload" -> 1 [] s = "refresh" -> 2 [] OTHER -> 3

\* How far each recovery is determines how often its request was sent.
ReplayInv ==
  \A o \in Request :
    /\ attempts[o] <= 3
    /\ pc[o] \in {"authWait", "authHeld", "authLoaded", "authRotated", "authSaved"}
         => attempts[o] < Level(step[o])
    /\ pc[o] \in {"sent", "answered"} => attempts[o] <= Level(step[o])
    /\ pc[o] \in {"reloadWait", "reloadHeld"} => step[o] = "reload" /\ attempts[o] <= 1
    /\ pc[o] \in {"refreshWait", "refreshHeld", "refreshLoaded", "refreshRotated"}
         => step[o] = "refresh" /\ attempts[o] <= 2
    /\ accepted[o] <= 1
    /\ accepted[o] = 1
         => pc[o] = "idle" \/ (pc[o] = "answered" /\ reply[o] # "unauthorized")

\* Every replay costs a recovery step, and a logical operation has two of them.
LEMMA ReplayStep == TypeOK /\ ReplayInv /\ [Next]_vars => ReplayInv'
<1> USE ActorsAssumption
<1> USE DEF TypeOK, ReplayInv, Level, Goto, WaitPc, RotatedPc, Actor, Client, Task, requests
<1> SUFFICES ASSUME TypeOK, ReplayInv, [Next]_vars
             PROVE  ReplayInv'
  OBVIOUS
<1>1. ASSUME NEW a \in Task, Start(a)
      PROVE  ReplayInv'
  BY <1>1 DEF Start
<1>2. ASSUME NEW a \in Cli, CliStart(a)
      PROVE  ReplayInv'
  BY <1>2 DEF CliStart
<1>3. ASSUME NEW a \in Actor, AcquireLock(a)
      PROVE  ReplayInv'
  BY <1>3 DEF AcquireLock, AfterLock
<1>4. ASSUME NEW a \in Actor, LockFails(a)
      PROVE  ReplayInv'
  BY <1>4 DEF LockFails, AfterLockError
<1>5. ASSUME NEW a \in Client, ReloadUnderLock(a)
      PROVE  ReplayInv'
  BY <1>5 DEF ReloadUnderLock, AfterReload
<1>6. ASSUME NEW a \in Client, RotateToken(a)
      PROVE  ReplayInv'
  BY <1>6 DEF RotateToken, AfterRotation, WantsRefresh
<1>7. ASSUME NEW a \in Client, RefreshDenied(a)
      PROVE  ReplayInv'
  BY <1>7 DEF RefreshDenied
<1>8. ASSUME NEW a \in Client, SaveToken(a)
      PROVE  ReplayInv'
  BY <1>8 DEF SaveToken
<1>8a. ASSUME NEW a \in Client, RotationFails(a)
      PROVE  ReplayInv'
  BY <1>8a DEF RotationFails
<1>9. ASSUME NEW a \in Client, AuthReturns(a)
      PROVE  ReplayInv'
  BY <1>9 DEF AuthReturns
<1>10. ASSUME NEW a \in Client, Assess(a)
      PROVE  ReplayInv'
  BY <1>10 DEF Assess
<1>11. ASSUME NEW a \in Request, NEW r \in {"ok", "error", "unauthorized"}, Answer(a, r)
      PROVE  ReplayInv'
  BY <1>11 DEF Answer
<1>12. ASSUME NEW a \in Request, Succeed(a)
      PROVE  ReplayInv'
  BY <1>12 DEF Succeed
<1>13. ASSUME NEW a \in Request, Recover(a)
      PROVE  ReplayInv'
  BY <1>13 DEF Recover, Recoverable, HasNext
<1>14. ASSUME NEW a \in Request, Fail(a)
      PROVE  ReplayInv'
  BY <1>14 DEF Fail, Recoverable
<1>15. ASSUME NEW a \in Request, RecoveryReload(a)
      PROVE  ReplayInv'
  BY <1>15 DEF RecoveryReload, StepAfter
<1>16. ASSUME NEW a \in Request, SkipRefresh(a)
      PROVE  ReplayInv'
  BY <1>16 DEF SkipRefresh, StepAfter
<1>17. ASSUME NEW a \in Request, RefreshFails(a)
      PROVE  ReplayInv'
  BY <1>17 DEF RefreshFails
<1>18. ASSUME NEW a \in Request, MarkCheck(a)
      PROVE  ReplayInv'
  BY <1>18 DEF MarkCheck
<1>19. ASSUME NEW a \in Request, MarkWrite(a)
      PROVE  ReplayInv'
  BY <1>19 DEF MarkWrite
<1>20. ASSUME NEW a \in Reminder, Wake(a)
      PROVE  ReplayInv'
  BY <1>20 DEF Wake
<1>21. ASSUME NEW a \in Reminder, LookAgain(a)
      PROVE  ReplayInv'
  BY <1>21 DEF LookAgain
<1>22. ASSUME NEW a \in Reminder, SignInCompletes(a)
      PROVE  ReplayInv'
  BY <1>22 DEF SignInCompletes
<1>23. ASSUME NEW a \in Reminder, SignInFails(a)
      PROVE  ReplayInv'
  BY <1>23 DEF SignInFails
<1>24. ASSUME NEW a \in Reminder, ReloadAfterSignIn(a)
      PROVE  ReplayInv'
  BY <1>24 DEF ReloadAfterSignIn
<1>25. ASSUME NEW a \in Reminder, BackoffEnds(a)
      PROVE  ReplayInv'
  BY <1>25 DEF BackoffEnds
<1>26. ASSUME NEW a \in Cli, CliSignIn(a)
      PROVE  ReplayInv'
  BY <1>26 DEF CliSignIn
<1>27. ASSUME NEW a \in Cli, CliLogout(a)
      PROVE  ReplayInv'
  BY <1>27 DEF CliLogout
<1>28. ASSUME NEW a \in Cli, CliDone(a)
      PROVE  ReplayInv'
  BY <1>28 DEF CliDone
<1>28a. ASSUME NEW g \in Cred, FallDue(g)
      PROVE  ReplayInv'
  BY <1>28a DEF FallDue
<1>29. ASSUME NEW g \in Cred, Expire(g)
      PROVE  ReplayInv'
  BY <1>29 DEF Expire
<1>30. ASSUME NEW g \in Cred, Invalidate(g)
      PROVE  ReplayInv'
  BY <1>30 DEF Invalidate
<1>31. ASSUME NEW a \in Task, Cancel(a)
      PROVE  ReplayInv'
  BY <1>31 DEF Cancel
<1>32. ASSUME NEW p \in Pod, CrashRestart(p)
      PROVE  ReplayInv'
  BY <1>32 DEF CrashRestart
<1>33. CASE UNCHANGED vars
  BY <1>33 DEF vars
<1>34. QED
  BY <1>1, <1>2, <1>3, <1>4, <1>5, <1>6, <1>7, <1>8, <1>8a, <1>9, <1>10, <1>11,
     <1>12, <1>13, <1>14, <1>15, <1>16, <1>17, <1>18, <1>19, <1>20, <1>21,
     <1>22, <1>23, <1>24, <1>25, <1>26, <1>27, <1>28, <1>28a, <1>29, <1>30, <1>31,
     <1>32, <1>33 DEF Next, Advance, AuthStep, RequestStep, ReminderStep,
     CliStep, Environment

-----------------------------------------------------------------------------
(* The theorems about requests.                                            *)

\* Both strengthenings about requests hold at all times.
LEMMA RequestInvariant == Spec => [](RefusalInv /\ ReplayInv)
<1>1. Init => RefusalInv /\ ReplayInv
  BY ActorsAssumption DEF Init, RefusalInv, ReplayInv, RecoveryPc, RejectionIsTrue,
     NoNeedlessRotation, Refused, NoCred, Level, Actor, Client, Task
<1>2. QED
  BY <1>1, RefusalStep, ReplayStep, TypeCorrect, PTL DEF Spec

\* A credential is rotated only if its access token is about to expire or the
\* backend refused it: concurrent recoveries and refreshes ahead of time do not
\* rotate each other's result (refresh_if_unchanged, coordinated_auth).
THEOREM RotationSafe == Spec => []NoNeedlessRotation
<1>1. RefusalInv => NoNeedlessRotation
  BY DEF RefusalInv
<1>2. QED
  BY <1>1, RequestInvariant, PTL

\* A pod reports a credential as rejected only if the backend refuses it
\* (AuthTracker, mark_unauthorized).
THEOREM RejectionSafe == Spec => []RejectionIsTrue
<1>1. RefusalInv => RejectionIsTrue
  BY DEF RefusalInv
<1>2. QED
  BY <1>1, RequestInvariant, PTL

\* At most three attempts, and at most one of them carried out, per logical
\* operation (run_with_unauthorized_recovery).
THEOREM ReplaySafe == Spec => []BoundedReplay
<1>1. ReplayInv => BoundedReplay
  BY DEF ReplayInv, BoundedReplay
<1>2. QED
  BY <1>1, RequestInvariant, PTL

-----------------------------------------------------------------------------
(* The shared directory implements CredentialStore.                        *)

\* If all rotated credentials are the same one, it does not matter which
\* actor CHOOSE picks.
LEMMA PickRotated ==
  ASSUME NEW f, NEW i, NEW d,
         \A a \in Actor : f[a] # NoCred => f[a] = i
  PROVE  (IF \E a \in Actor : f[a] # NoCred
            THEN f[CHOOSE a \in Actor : f[a] # NoCred] ELSE d)
         = (IF \E a \in Actor : f[a] # NoCred THEN i ELSE d)
  OBVIOUS

\* Some holder has rotated the stored credential and not saved the result.
Rotating == \E a \in Actor : fresh[a] # NoCred

\* What a step means to the store when it neither rotates, signs in or out
\* nor loses a credential: nothing.
StoreStutter == UNCHANGED <<Stored, issued, Spent, lost>>

\* Every step is a step of CredentialStore or leaves its variables alone.
LEMMA StoreSimulation ==
  TypeOK /\ StoreInv /\ StoreInv' /\ [Next]_vars
    => [Store!Next]_(Store!storeVars)
<1> USE ActorsAssumption, HomeIsPod
<1> SUFFICES ASSUME TypeOK, StoreInv, StoreInv', [Next]_vars
             PROVE  Store!Next \/ StoreStutter
  BY DEF Store!storeVars, StoreStutter
<1>a. Stored = IF Rotating THEN issued ELSE disk
  BY PickRotated DEF Stored, Rotating, StoreInv, SuccessorInv
<1>b. Stored' = IF Rotating' THEN issued' ELSE disk'
  BY PickRotated DEF Stored, Rotating, StoreInv, SuccessorInv
<1>c. UNCHANGED <<disk, issued, rotated, revoked, lost, fresh>> => StoreStutter
  BY <1>a, <1>b DEF StoreStutter, Rotating, Spent
<1>d. \A a \in Actor : pc[a] \in HeldPc \ RotatedPc => ~Rotating
  BY DEF Rotating, StoreInv, LockDiscipline, FreshInv, HeldPc
<1>1. ASSUME NEW a \in Task, Start(a)
      PROVE  Store!Next \/ StoreStutter
  BY <1>1, <1>c DEF Start, authority
<1>2. ASSUME NEW a \in Cli, CliStart(a)
      PROVE  Store!Next \/ StoreStutter
  BY <1>2, <1>c DEF CliStart, authority
<1>3. ASSUME NEW a \in Actor, AcquireLock(a)
      PROVE  Store!Next \/ StoreStutter
  BY <1>3, <1>c DEF AcquireLock, authority
<1>4. ASSUME NEW a \in Actor, LockFails(a)
      PROVE  Store!Next \/ StoreStutter
  BY <1>4, <1>c DEF LockFails, authority
<1>5. ASSUME NEW a \in Client, ReloadUnderLock(a)
      PROVE  Store!Next \/ StoreStutter
  BY <1>5, <1>c DEF ReloadUnderLock, authority
<1>6. ASSUME NEW a \in Client, RotateToken(a)
      PROVE  Store!Next \/ StoreStutter
  <2>1. cached[Home(a)] = disk /\ disk # NoCred /\ disk \notin Spent
    BY <1>6 DEF RotateToken, WantsRefresh, StoreInv, CoherenceInv, LoadedPc, Client
  <2>2. Stored = disk
    BY <1>a, <1>d, <1>6 DEF RotateToken, WantsRefresh, HeldPc, RotatedPc, Actor
  <2>3. Stored' = issued + 1
    <3>1. fresh'[a] = issued + 1 /\ issued' = issued + 1
      BY <1>6 DEF RotateToken, TypeOK, Actor
    <3>2. Rotating'
      BY <3>1 DEF Rotating, TypeOK, Actor, Cred, NoCred
    <3>3. QED
      BY <1>b, <3>1, <3>2
  <2>4. Spent' = Spent \cup {disk} /\ issued' = issued + 1 /\ UNCHANGED lost
    BY <1>6, <2>1 DEF RotateToken, Spent
  <2>5. QED
    BY <2>1, <2>2, <2>3, <2>4 DEF Store!Next, Store!Rotate, NoCred
<1>7. ASSUME NEW a \in Client, RefreshDenied(a)
      PROVE  Store!Next \/ StoreStutter
  BY <1>7, <1>c DEF RefreshDenied, authority
<1>8. ASSUME NEW a \in Client, SaveToken(a)
      PROVE  Store!Next \/ StoreStutter
  <2>1. fresh[a] # NoCred /\ fresh[a] = issued
    BY <1>8 DEF SaveToken, StoreInv, FreshInv, SuccessorInv, Actor
  <2>2. pc'[a] \in {"authSaved", "loginSaved", "authWait"}
    BY <1>8 DEF SaveToken, Goto, TypeOK, Actor
  <2>3. \A b \in Actor \ {a} : fresh[b] = NoCred
    BY <1>8 DEF SaveToken, StoreInv, LockDiscipline, FreshInv, HeldPc, Actor
  <2>4. ~Rotating'
    BY <1>8, <2>3 DEF SaveToken, Rotating, TypeOK, Actor
  <2>5. Stored = issued /\ Stored' = issued
    BY <1>a, <1>b, <1>8, <2>1, <2>4 DEF SaveToken, Rotating, Actor
  <2>6. QED
    BY <1>8, <2>5 DEF SaveToken, StoreStutter, authority, Spent
<1>8a. ASSUME NEW a \in Client, RotationFails(a)
      PROVE  Store!Next \/ StoreStutter
  <2>1. fresh[a] # NoCred
    BY <1>8a DEF RotationFails, StoreInv, FreshInv, Actor
  <2>2. \A b \in Actor \ {a} : fresh[b] = NoCred
    BY <1>8a DEF RotationFails, StoreInv, LockDiscipline, FreshInv, HeldPc, Actor
  <2>3. ~Rotating'
    BY <1>8a, <2>2 DEF RotationFails, Rotating, TypeOK, Actor
  <2>4. disk \in Spent
    BY <2>1 DEF StoreInv, SuccessorInv, Actor
  <2>5. QED
    BY <1>b, <1>8a, <2>3, <2>4, BoundsAssumption
       DEF RotationFails, Store!Next, Store!Lose, Spent
<1>9. ASSUME NEW a \in Client, AuthReturns(a)
      PROVE  Store!Next \/ StoreStutter
  BY <1>9, <1>c DEF AuthReturns, authority
<1>10. ASSUME NEW a \in Client, Assess(a)
      PROVE  Store!Next \/ StoreStutter
  BY <1>10, <1>c DEF Assess, authority
<1>11. ASSUME NEW a \in Request, NEW r \in {"ok", "error", "unauthorized"}, Answer(a, r)
      PROVE  Store!Next \/ StoreStutter
  BY <1>11, <1>c DEF Answer, authority
<1>12. ASSUME NEW a \in Request, Succeed(a)
      PROVE  Store!Next \/ StoreStutter
  BY <1>12, <1>c DEF Succeed, authority
<1>13. ASSUME NEW a \in Request, Recover(a)
      PROVE  Store!Next \/ StoreStutter
  BY <1>13, <1>c DEF Recover, authority
<1>14. ASSUME NEW a \in Request, Fail(a)
      PROVE  Store!Next \/ StoreStutter
  BY <1>14, <1>c DEF Fail, authority
<1>15. ASSUME NEW a \in Request, RecoveryReload(a)
      PROVE  Store!Next \/ StoreStutter
  BY <1>15, <1>c DEF RecoveryReload, authority
<1>16. ASSUME NEW a \in Request, SkipRefresh(a)
      PROVE  Store!Next \/ StoreStutter
  BY <1>16, <1>c DEF SkipRefresh, authority
<1>17. ASSUME NEW a \in Request, RefreshFails(a)
      PROVE  Store!Next \/ StoreStutter
  BY <1>17, <1>c DEF RefreshFails, authority
<1>18. ASSUME NEW a \in Request, MarkCheck(a)
      PROVE  Store!Next \/ StoreStutter
  BY <1>18, <1>c DEF MarkCheck, authority
<1>19. ASSUME NEW a \in Request, MarkWrite(a)
      PROVE  Store!Next \/ StoreStutter
  BY <1>19, <1>c DEF MarkWrite, authority
<1>20. ASSUME NEW a \in Reminder, Wake(a)
      PROVE  Store!Next \/ StoreStutter
  BY <1>20, <1>c DEF Wake, authority
<1>21. ASSUME NEW a \in Reminder, LookAgain(a)
      PROVE  Store!Next \/ StoreStutter
  BY <1>21, <1>c DEF LookAgain, authority
<1>22. ASSUME NEW a \in Reminder, SignInCompletes(a)
      PROVE  Store!Next \/ StoreStutter
  <2>1. ~Rotating
    BY <1>d, <1>22 DEF SignInCompletes, HeldPc, RotatedPc, Actor, Client
  <2>2. ~Rotating'
    BY <1>22, <2>1 DEF SignInCompletes, Rotating
  <2>3. QED
    BY <1>a, <1>b, <1>22, <2>1, <2>2
       DEF SignInCompletes, Store!Next, Store!SignIn, Spent
<1>23. ASSUME NEW a \in Reminder, SignInFails(a)
      PROVE  Store!Next \/ StoreStutter
  BY <1>23, <1>c DEF SignInFails, authority
<1>24. ASSUME NEW a \in Reminder, ReloadAfterSignIn(a)
      PROVE  Store!Next \/ StoreStutter
  BY <1>24, <1>c DEF ReloadAfterSignIn, authority
<1>25. ASSUME NEW a \in Reminder, BackoffEnds(a)
      PROVE  Store!Next \/ StoreStutter
  BY <1>25, <1>c DEF BackoffEnds, authority
<1>26. ASSUME NEW a \in Cli, CliSignIn(a)
      PROVE  Store!Next \/ StoreStutter
  <2>1. ~Rotating
    BY <1>d, <1>26 DEF CliSignIn, HeldPc, RotatedPc, Actor
  <2>2. ~Rotating'
    BY <1>26, <2>1 DEF CliSignIn, Rotating
  <2>3. QED
    BY <1>a, <1>b, <1>26, <2>1, <2>2
       DEF CliSignIn, Revoke, Store!Next, Store!SignOut, StoreStutter, Spent, NoCred
<1>27. ASSUME NEW a \in Cli, CliLogout(a)
      PROVE  Store!Next \/ StoreStutter
  <2>1. ~Rotating
    BY <1>d, <1>27 DEF CliLogout, HeldPc, RotatedPc, Actor
  <2>2. ~Rotating'
    BY <1>27, <2>1 DEF CliLogout, Rotating
  <2>3. QED
    BY <1>a, <1>b, <1>27, <2>1, <2>2
       DEF CliLogout, Revoke, Store!Next, Store!SignOut, StoreStutter, Spent, NoCred
<1>28. ASSUME NEW a \in Cli, CliDone(a)
      PROVE  Store!Next \/ StoreStutter
  <2>1. ~Rotating
    BY <1>d, <1>28 DEF CliDone, HeldPc, RotatedPc, Actor
  <2>2. ~Rotating'
    BY <1>28, <2>1 DEF CliDone, Rotating
  <2>3. QED
    BY <1>a, <1>b, <1>28, <2>1, <2>2
       DEF CliDone, Store!Next, Store!SignIn, StoreStutter, Spent
<1>28a. ASSUME NEW g \in Cred, FallDue(g)
      PROVE  Store!Next \/ StoreStutter
  BY <1>28a, <1>c DEF FallDue, authority
<1>29. ASSUME NEW g \in Cred, Expire(g)
      PROVE  Store!Next \/ StoreStutter
  BY <1>29, <1>c DEF Expire, authority
<1>30. ASSUME NEW g \in Cred, Invalidate(g)
      PROVE  Store!Next \/ StoreStutter
  BY <1>30, <1>c DEF Invalidate, authority
<1>31. ASSUME NEW a \in Task, Cancel(a)
      PROVE  Store!Next \/ StoreStutter
  <2>1. CASE fresh[a] = NoCred
    BY <1>c, <1>31, <2>1 DEF Cancel, LostBy, TypeOK, Actor, Client
  <2>2. CASE fresh[a] # NoCred
    <3>1. ~Rotating'
      BY <1>31, <2>2 DEF Cancel, Rotating, StoreInv, LockDiscipline, FreshInv,
                        HeldPc, TypeOK, Actor, Client
    <3>2. disk \in Spent
      BY <2>2 DEF StoreInv, SuccessorInv, Actor, Client
    <3>3. QED
      BY <1>b, <1>31, <2>2, <3>1, <3>2, BoundsAssumption
         DEF Cancel, LostBy, Store!Next, Store!Lose, Spent
  <2>3. QED
    BY <2>1, <2>2
<1>32. ASSUME NEW p \in Pod, CrashRestart(p)
      PROVE  Store!Next \/ StoreStutter
  <2>1. CASE \A a \in Actor : Home(a) = p => fresh[a] = NoCred
    <3>1. UNCHANGED <<disk, issued, rotated, revoked, lost>>
      BY <1>32, <2>1 DEF CrashRestart, LostBy
    <3>2. \A a \in Actor : fresh'[a] = fresh[a]
      BY <1>32, <2>1 DEF CrashRestart
    <3>3. QED
      BY <1>a, <1>b, <3>1, <3>2 DEF StoreStutter, Rotating, Spent
  <2>2. CASE \E a \in Actor : Home(a) = p /\ fresh[a] # NoCred
    <3>1. ~Rotating'
      BY <1>32, <2>2 DEF CrashRestart, Rotating, StoreInv, LockDiscipline, FreshInv,
                        HeldPc, TypeOK
    <3>2. disk \in Spent
      BY <2>2 DEF StoreInv, SuccessorInv
    <3>3. QED
      BY <1>b, <1>32, <2>2, <3>1, <3>2, BoundsAssumption
         DEF CrashRestart, LostBy, Store!Next, Store!Lose, Spent
  <2>3. QED
    BY <2>1, <2>2
<1>33. CASE UNCHANGED vars
  BY <1>33, <1>c DEF vars, authority
<1>34. QED
  BY <1>1, <1>2, <1>3, <1>4, <1>5, <1>6, <1>7, <1>8, <1>8a, <1>9, <1>10, <1>11,
     <1>12, <1>13, <1>14, <1>15, <1>16, <1>17, <1>18, <1>19, <1>20, <1>21,
     <1>22, <1>23, <1>24, <1>25, <1>26, <1>27, <1>28, <1>28a, <1>29, <1>30, <1>31,
     <1>32, <1>33 DEF Next, Advance, AuthStep, RequestStep, ReminderStep,
     CliStep, Environment

\* The directory that the pods share under auth.lock behaves like a store whose
\* credential is replaced in single steps (AuthFileLock, coordinated_auth).
THEOREM StoreRefinement == Spec => StoreIsAtomic
<1>1. Init => Store!Init
  BY DEF Init, Store!Init, Stored, Spent, NoCred
<1>2. QED
  BY <1>1, StoreSimulation, TypeCorrect, StoreInvariant, PTL
     DEF Spec, StoreIsAtomic, Store!Spec

-----------------------------------------------------------------------------
(* The steps.                                                              *)


\* A refresh fails for good only with a refresh token that is spent.
DeniedInv == \A p \in Pod : denied[p] # NoCred => denied[p] \in Spent

\* Nobody has seen a credential that is not issued, or not saved yet.
UnseenInv ==
  /\ \A a \in Actor : used[a] <= issued
  /\ \A p \in Pod : cached[p] <= issued
  /\ \A b \in Actor : fresh[b] # NoCred =>
       (\A a \in Actor : used[a] # fresh[b]) /\ (\A p \in Pod : cached[p] # fresh[b])

\* Until the lock is dropped, the cache agrees with what was saved under it.
SavedInv == \A a \in Client : pc[a] \in {"authSaved", "loginSaved"} => cached[Home(a)] = disk

\* Where auth() is under way.
AuthPc == {"authWait", "authHeld", "authLoaded", "authRotated", "authSaved"}

\* After the refresh step, the credential that got the 401 is not the stored one.
DoneInv ==
  \A o \in Request : step[o] = "done" /\ pc[o] \in AuthPc => used[o] # NoCred /\ used[o] # disk

StepInv == DeniedInv /\ UnseenInv /\ SavedInv /\ DoneInv

\* All that is known of the credentials at a step.
Known == TypeOK /\ StoreInv /\ RefusalInv /\ ReplayInv

\* The strengthening is inductive: what comes to the disk is either new, or the
\* one rotated credential that nobody has seen.
LEMMA StepInvStep == Known /\ StepInv /\ [Next]_vars => StepInv'
<1> USE ActorsAssumption, HomeIsPod
<1> USE DEF Known, TypeOK, StoreInv, IssueInv, FreshInv, CoherenceInv, SuccessorInv,
            LockDiscipline, RefusalInv, RecoveryPc, ReplayInv, StepInv, DeniedInv,
            UnseenInv, SavedInv, DoneInv, AuthPc, Spent, Refused, LoadedPc, Cred,
            NoCred, Goto, Hold, Release, WaitPc, HeldPc, FreePc, RotatedPc, Actor,
            Client, Task, authority, tokens, managers, requests
<1> SUFFICES ASSUME Known, StepInv, [Next]_vars
             PROVE  StepInv'
  OBVIOUS
<1>1. ASSUME NEW a \in Task, Start(a)
      PROVE  StepInv'
  BY <1>1 DEF Start
<1>2. ASSUME NEW a \in Cli, CliStart(a)
      PROVE  StepInv'
  BY <1>2 DEF CliStart
<1>3. ASSUME NEW a \in Actor, AcquireLock(a)
      PROVE  StepInv'
  BY <1>3 DEF AcquireLock, AfterLock
<1>4. ASSUME NEW a \in Actor, LockFails(a)
      PROVE  StepInv'
  BY <1>4 DEF LockFails, AfterLockError
<1>5. ASSUME NEW a \in Client, ReloadUnderLock(a)
      PROVE  StepInv'
  BY <1>5 DEF ReloadUnderLock, AfterReload, Reloaded
<1>6. ASSUME NEW a \in Client, RotateToken(a)
      PROVE  StepInv'
  <2>1. pc[a] \in HeldPc \ AuthPc \/ pc[a] = "authLoaded"
    BY <1>6 DEF RotateToken, WantsRefresh
  <2>2. /\ pc[a] \in HeldPc
        /\ AfterRotation[pc[a]] \in RotatedPc
        /\ AfterRotation[pc[a]] \in AuthPc => pc[a] = "authLoaded"
    BY <1>6 DEF RotateToken, WantsRefresh, AfterRotation
  <2>3. \A b \in Actor \ {a} : fresh[b] = NoCred
    BY <2>2
  <2>4. /\ pc' = [pc EXCEPT ![a] = AfterRotation[pc[a]]]
        /\ fresh' = [fresh EXCEPT ![a] = issued + 1]
        /\ rotated' = rotated \cup {cached[Home(a)]}
        /\ issued' = issued + 1
        /\ UNCHANGED <<disk, revoked, cached, denied, used, step>>
    BY <1>6 DEF RotateToken
  <2>5. DeniedInv'
    BY <2>4
  <2>6. UnseenInv'
    BY <2>3, <2>4
  <2>7. SavedInv'
    BY <2>2, <2>4
  <2>8. DoneInv'
    BY <2>1, <2>2, <2>4
  <2>9. QED
    BY <2>5, <2>6, <2>7, <2>8
<1>7. ASSUME NEW a \in Client, RefreshDenied(a)
      PROVE  StepInv'
  BY <1>7 DEF RefreshDenied, WantsRefresh
<1>8. ASSUME NEW a \in Client, SaveToken(a)
      PROVE  StepInv'
  BY <1>8 DEF SaveToken
<1>8a. ASSUME NEW a \in Client, RotationFails(a)
      PROVE  StepInv'
  BY <1>8a DEF RotationFails
<1>9. ASSUME NEW a \in Client, AuthReturns(a)
      PROVE  StepInv'
  BY <1>9 DEF AuthReturns
<1>10. ASSUME NEW a \in Client, Assess(a)
      PROVE  StepInv'
  BY <1>10 DEF Assess
<1>11. ASSUME NEW a \in Request, NEW r \in {"ok", "error", "unauthorized"}, Answer(a, r)
      PROVE  StepInv'
  BY <1>11 DEF Answer
<1>12. ASSUME NEW a \in Request, Succeed(a)
      PROVE  StepInv'
  BY <1>12 DEF Succeed
<1>13. ASSUME NEW a \in Request, Recover(a)
      PROVE  StepInv'
  BY <1>13 DEF Recover
<1>14. ASSUME NEW a \in Request, Fail(a)
      PROVE  StepInv'
  BY <1>14 DEF Fail
<1>15. ASSUME NEW a \in Request, RecoveryReload(a)
      PROVE  StepInv'
  BY <1>15 DEF RecoveryReload, StepAfter, Reloaded
<1>16. ASSUME NEW a \in Request, SkipRefresh(a)
      PROVE  StepInv'
  BY <1>16 DEF SkipRefresh, StepAfter, Unchanged
<1>17. ASSUME NEW a \in Request, RefreshFails(a)
      PROVE  StepInv'
  BY <1>17 DEF RefreshFails
<1>18. ASSUME NEW a \in Request, MarkCheck(a)
      PROVE  StepInv'
  BY <1>18 DEF MarkCheck
<1>19. ASSUME NEW a \in Request, MarkWrite(a)
      PROVE  StepInv'
  BY <1>19 DEF MarkWrite
<1>20. ASSUME NEW a \in Reminder, Wake(a)
      PROVE  StepInv'
  BY <1>20 DEF Wake
<1>21. ASSUME NEW a \in Reminder, LookAgain(a)
      PROVE  StepInv'
  BY <1>21 DEF LookAgain
<1>22. ASSUME NEW a \in Reminder, SignInCompletes(a)
      PROVE  StepInv'
  <2>1. /\ disk' = issued + 1 /\ issued' = issued + 1
        /\ pc' = [pc EXCEPT ![a] = "signedIn"]
        /\ UNCHANGED <<rotated, revoked, cached, denied, used, fresh, step>>
    BY <1>22 DEF SignInCompletes
  <2>2. DeniedInv' /\ DoneInv'
    BY <2>1
  <2>3. UnseenInv'
    BY <2>1
  <2>4. \A b \in Client \ {a} : pc[b] \notin {"authSaved", "loginSaved"}
    BY <1>22 DEF SignInCompletes
  <2>5. SavedInv'
    BY <2>1, <2>4
  <2>6. QED
    BY <2>2, <2>3, <2>5
<1>23. ASSUME NEW a \in Reminder, SignInFails(a)
      PROVE  StepInv'
  BY <1>23 DEF SignInFails
<1>24. ASSUME NEW a \in Reminder, ReloadAfterSignIn(a)
      PROVE  StepInv'
  BY <1>24 DEF ReloadAfterSignIn
<1>25. ASSUME NEW a \in Reminder, BackoffEnds(a)
      PROVE  StepInv'
  BY <1>25 DEF BackoffEnds
<1>26. ASSUME NEW a \in Cli, CliSignIn(a)
      PROVE  StepInv'
  BY <1>26 DEF CliSignIn, Revoke
<1>27. ASSUME NEW a \in Cli, CliLogout(a)
      PROVE  StepInv'
  BY <1>27 DEF CliLogout, Revoke
<1>28. ASSUME NEW a \in Cli, CliDone(a)
      PROVE  StepInv'
  BY <1>28 DEF CliDone
<1>28a. ASSUME NEW g \in Cred, FallDue(g)
      PROVE  StepInv'
  BY <1>28a DEF FallDue
<1>29. ASSUME NEW g \in Cred, Expire(g)
      PROVE  StepInv'
  BY <1>29 DEF Expire
<1>30. ASSUME NEW g \in Cred, Invalidate(g)
      PROVE  StepInv'
  BY <1>30 DEF Invalidate
<1>31. ASSUME NEW a \in Task, Cancel(a)
      PROVE  StepInv'
  BY <1>31 DEF Cancel
<1>32. ASSUME NEW p \in Pod, CrashRestart(p)
      PROVE  StepInv'
  BY <1>32 DEF CrashRestart
<1>33. CASE UNCHANGED vars
  BY <1>33 DEF vars
<1>34. QED
  BY <1>1, <1>2, <1>3, <1>4, <1>5, <1>6, <1>7, <1>8, <1>8a, <1>9, <1>10, <1>11,
     <1>12, <1>13, <1>14, <1>15, <1>16, <1>17, <1>18, <1>19, <1>20, <1>21,
     <1>22, <1>23, <1>24, <1>25, <1>26, <1>27, <1>28, <1>28a, <1>29, <1>30, <1>31,
     <1>32, <1>33 DEF Next, Advance, AuthStep, RequestStep, ReminderStep,
     CliStep, Environment

\* What holds of the credentials at every step.
LEMMA StepInvariant == Spec => [](Known /\ StepInv)
<1>1. Init => StepInv
  BY ActorsAssumption
     DEF Init, StepInv, DeniedInv, UnseenInv, SavedInv, DoneInv, AuthPc, NoCred,
         Actor, Client
<1>2. Spec => []Known
  BY TypeCorrect, StoreInvariant, RequestInvariant, PTL DEF Known
<1>3. QED
  BY <1>1, <1>2, StepInvStep, PTL DEF Spec

\* The attempt after the refresh step goes out with a token other than the one
\* whose 401 led to the refresh: what is stored by then is another credential,
\* and auth() reloads it under the lock (refresh_if_unchanged, coordinated_auth).
THEOREM FreshSafe == Spec => FreshTokenAfterRefresh
<1> DEFINE Fresh ==
      \A o \in Request :
        (pc[o] # "sent" /\ pc'[o] = "sent" /\ step[o] = "done") => used'[o] # used[o]
<1>1. Known /\ StepInv /\ [Next]_vars => Fresh
  <2> SUFFICES ASSUME Known, StepInv, [Next]_vars, NEW o \in Request,
                      pc[o] # "sent", pc'[o] = "sent", step[o] = "done"
               PROVE  used'[o] # used[o]
    OBVIOUS
  <2>1. o \in Client /\ o \in Actor
    BY DEF Actor, Client, Task
  <2>2. AuthReturns(o)
    <3> USE ActorsAssumption, <2>1 DEF Known, TypeOK, Goto
    <3>1. ASSUME NEW a \in Actor, Advance(a)
          PROVE  AuthReturns(o)
      BY <3>1 DEF Advance, AuthStep, RequestStep, ReminderStep, CliStep,
           ReloadUnderLock, AfterReload, RotateToken, AfterRotation, WantsRefresh,
           RefreshDenied, SaveToken, RotationFails, AuthReturns, Assess, Answer, Succeed, Recover,
           Fail, RecoveryReload, SkipRefresh, RefreshFails, MarkCheck, MarkWrite,
           Wake, LookAgain, SignInCompletes, SignInFails, ReloadAfterSignIn,
           BackoffEnds, CliSignIn, CliLogout, CliDone
    <3>2. ASSUME NEW a \in Actor, AcquireLock(a) \/ LockFails(a)
          PROVE  AuthReturns(o)
      BY <3>2 DEF AcquireLock, AfterLock, LockFails, AfterLockError, WaitPc
    <3>3. CASE Environment
      BY <3>3 DEF Environment, FallDue, Expire, Invalidate, Cancel, CrashRestart
    <3>4. CASE UNCHANGED vars
      BY <3>4 DEF vars
    <3>5. QED
      BY <3>1, <3>2, <3>3, <3>4 DEF Next, Start, CliStart
  <2>3. pc[o] \in {"authLoaded", "authSaved"} /\ used'[o] = cached[Home(o)]
    BY <2>1, <2>2 DEF AuthReturns, Known, TypeOK
  <2>4. cached[Home(o)] = disk
    BY <2>1, <2>3 DEF Known, StoreInv, CoherenceInv, LoadedPc, StepInv, SavedInv
  <2>5. QED
    BY <2>3, <2>4 DEF StepInv, DoneInv, AuthPc
<1>2. QED
  BY <1>1, StepInvariant, PTL DEF Spec, FreshTokenAfterRefresh

\* A pod asks for a sign-in only while the shared credential is missing or no
\* good to it: what it finds under the lock is the credential on disk, however
\* long it waited (login_reminder).
THEOREM SignInSafe == Spec => SignInOnlyWhenNeeded
<1> DEFINE Needed ==
      \A r \in Reminder :
        (pc[r] # "polling" /\ pc'[r] = "polling")
          => disk = NoCred \/ disk \in expired \cup Spent \cup {latch[r]}
<1>1. Known /\ StepInv /\ [Next]_vars => Needed
  <2> SUFFICES ASSUME Known, StepInv, [Next]_vars, NEW r \in Reminder,
                      pc[r] # "polling", pc'[r] = "polling"
               PROVE  disk = NoCred \/ disk \in expired \cup Spent \cup {latch[r]}
    OBVIOUS
  <2>1. r \in Client /\ r \in Actor /\ r \in Pod /\ Home(r) = r
    BY ActorsAssumption DEF Actor, Client, Task, Home
  <2>2. LookAgain(r)
    <3> USE ActorsAssumption, <2>1 DEF Known, TypeOK, Goto
    <3>1. ASSUME NEW a \in Actor, Advance(a)
          PROVE  LookAgain(r)
      BY <3>1 DEF Advance, AuthStep, RequestStep, ReminderStep, CliStep,
           ReloadUnderLock, AfterReload, RotateToken, AfterRotation, WantsRefresh,
           RefreshDenied, SaveToken, RotationFails, AuthReturns, Assess, Answer, Succeed, Recover,
           Fail, RecoveryReload, SkipRefresh, RefreshFails, MarkCheck, MarkWrite,
           Wake, LookAgain, SignInCompletes, SignInFails, ReloadAfterSignIn,
           BackoffEnds, CliSignIn, CliLogout, CliDone
    <3>2. ASSUME NEW a \in Actor, AcquireLock(a) \/ LockFails(a)
          PROVE  LookAgain(r)
      BY <3>2 DEF AcquireLock, AfterLock, LockFails, AfterLockError, WaitPc
    <3>3. CASE Environment
      BY <3>3 DEF Environment, FallDue, Expire, Invalidate, Cancel, CrashRestart
    <3>4. CASE UNCHANGED vars
      BY <3>4 DEF vars
    <3>5. QED
      BY <3>1, <3>2, <3>3, <3>4 DEF Next, Start, CliStart
  <2>3. pc[r] \in {"loginLoaded", "loginSaved"}
    BY <2>2 DEF LookAgain
  <2>4. cached[r] = disk
    BY <2>1, <2>3 DEF Known, StoreInv, CoherenceInv, LoadedPc, StepInv, SavedInv
  <2>5. Readiness(r, disk) # "ok"
    BY <2>1, <2>2, <2>4 DEF LookAgain, Goto, Known, TypeOK
  <2>6. disk = NoCred \/ disk = denied[r] \/ disk \in expired \/ disk = latch[r]
    BY <2>5 DEF Readiness
  <2>7. QED
    BY <2>1, <2>6 DEF StepInv, DeniedInv
<1>2. QED
  BY <1>1, StepInvariant, PTL DEF Spec, SignInOnlyWhenNeeded

\* Between two restarts of a pod only a success of the rejected credential itself
\* takes its rejection back, and never by accident of an empty record: what is
\* marked is a credential (mark_success, mark_unauthorized).
THEOREM SuccessSafe == Spec => StaleSuccessHarmless
<1> DEFINE Harmless ==
      \A p \in Pod :
        (latch[p] # NoCred /\ latch[p] = cached[p] /\ latch'[p] = NoCred)
          => \/ CrashRestart(p)
             \/ \E o \in Request : /\ Home(o) = p
                                   /\ reply[o] = "ok"
                                   /\ used[o] = cached[p]
<1>1. Known /\ [Next]_vars => Harmless
  <2> SUFFICES ASSUME Known, [Next]_vars, NEW p \in Pod,
                      latch[p] # NoCred, latch[p] = cached[p], latch'[p] = NoCred,
                      ~CrashRestart(p)
               PROVE  \E o \in Request : /\ Home(o) = p
                                         /\ reply[o] = "ok"
                                         /\ used[o] = cached[p]
    OBVIOUS
  <2>1. \E o \in Request : Succeed(o) \/ MarkWrite(o)
    <3> USE DEF Known, managers
    <3>1. ASSUME NEW a \in Actor, Advance(a)
          PROVE  \E o \in Request : Succeed(o) \/ MarkWrite(o)
      BY <3>1 DEF Advance, AuthStep, RequestStep, ReminderStep, CliStep,
           ReloadUnderLock, RotateToken, RefreshDenied, SaveToken, RotationFails, AuthReturns,
           Assess, Answer, Recover, Fail, RecoveryReload, SkipRefresh,
           RefreshFails, MarkCheck, Wake, LookAgain, SignInCompletes,
           SignInFails, ReloadAfterSignIn, BackoffEnds, CliSignIn, CliLogout, CliDone
    <3>2. ASSUME NEW a \in Actor, AcquireLock(a) \/ LockFails(a)
          PROVE  \E o \in Request : Succeed(o) \/ MarkWrite(o)
      BY <3>2 DEF AcquireLock, LockFails
    <3>3. CASE Environment
      <4>1. ASSUME NEW q \in Pod, CrashRestart(q)
            PROVE  latch'[p] = latch[p]
        BY <4>1 DEF CrashRestart, TypeOK
      <4>2. QED
        BY <3>3, <4>1 DEF Environment, FallDue, Expire, Invalidate, Cancel
    <3>4. CASE UNCHANGED vars
      BY <3>4 DEF vars
    <3>5. QED
      BY <3>1, <3>2, <3>3, <3>4 DEF Next, Start, CliStart
  <2>2. PICK o \in Request : Succeed(o) \/ MarkWrite(o)
    BY <2>1
  <2>3. Home(o) \in Pod
    BY HomeIsPod DEF Client, Task
  <2>4. Home(o) = p
    BY <2>2, <2>3 DEF Succeed, MarkWrite, Known, TypeOK
  <2>5. CASE Succeed(o)
    BY <2>4, <2>5 DEF Succeed, ClearedBy, Known, TypeOK
  <2>6. CASE MarkWrite(o)
    <3>1. latch'[p] = used[o]
      BY <2>4, <2>6 DEF MarkWrite, Marked, Known, TypeOK
    <3>2. used[o] \in Refused
      BY <2>6 DEF MarkWrite, Known, RefusalInv, RecoveryPc
    <3>3. QED
      BY <3>1, <3>2 DEF Known, TypeOK, Refused, Cred, NoCred
  <2>7. QED
    BY <2>2, <2>5, <2>6
<1>2. QED
  BY <1>1, StepInvariant, PTL DEF Spec, StaleSuccessHarmless
=============================================================================

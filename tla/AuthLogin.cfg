SPECIFICATION FairSpec
CONSTANTS
  p1 = p1
  p2 = p2
  r1 = r1
  r2 = r2
  probe = probe
  cmd = cmd
  Nobody = Nobody
  Pod = {p1, p2}
  Reminder = {p1}
  Request = {r1}
  Probe = {probe}
  Cli = {cmd}
  Host <- OneRequestOneProbe
  MaxCred = 1
  MayCancel = FALSE
  MayCrash = TRUE
  LockMayFail = TRUE
  SaveMayFail = FALSE
CONSTRAINT TwoAtOnce
INVARIANTS
  TypeOK
  LockDiscipline
PROPERTIES
  SignInOnlyWhenNeeded
  StoreIsAtomic
  TasksFinish

SPECIFICATION Spec
CONSTANTS
  p1 = p1
  p2 = p2
  r1 = r1
  r2 = r2
  probe = probe
  cmd = cmd
  Nobody = Nobody
  Pod = {p1}
  Reminder = {}
  Request = {r1, r2}
  Probe = {}
  Cli = {}
  Host <- TwoRequests
  MaxCred = 3
  MayCancel = FALSE
  MayCrash = FALSE
  LockMayFail = TRUE
  SaveMayFail = FALSE
SYMMETRY SameRequests
INVARIANTS
  BoundedReplay
  RejectionIsTrue
  NoNeedlessRotation
PROPERTIES
  StaleSuccessHarmless

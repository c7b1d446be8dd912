SPECIFICATION Spec
CONSTANTS
  p1 = p1
  p2 = p2
  r1 = r1
  r2 = r2
  probe = probe
  cmd = cmd
  Nobody = Nobody
  Pod = {p1, p2}
  Reminder = {}
  Request = {r1, r2}
  Probe = {}
  Cli = {}
  Host <- TwoPods
  MaxCred = 2
  MayCancel = TRUE
  MayCrash = TRUE
  LockMayFail = FALSE
  SaveMayFail = TRUE
INVARIANTS
  ReuseOnlyAfterLoss
PROPERTIES
  FreshTokenAfterRefresh
  StoreIsAtomic

CONSTANTS
  Procs = {p1}
  N = 2
  Payloads = {x1, x2, x3}
  None = None
  StopOnReject = TRUE
  Exclusive = TRUE
  MayDamage = FALSE
SPECIFICATION FairSpec
INVARIANT NoSolveRefused
PROPERTY EventuallyAssembled
CHECK_DEADLOCK FALSE

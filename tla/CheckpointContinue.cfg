CONSTANTS
  Procs = {p1, p2}
  N = 3
  Payloads = {x1, x2, x3, x4}
  None = None
  StopOnReject = FALSE
  Exclusive = TRUE
  MayDamage = TRUE
SPECIFICATION Spec
INVARIANTS ArtifactIsTemporal ArtifactIsStore
SYMMETRY PayloadSymmetry
CHECK_DEADLOCK FALSE
